------------------------- MODULE WsConnectionProofs -------------------------
(***************************************************************************)
(* What is proved of WsConnection for every number of threads, calls and   *)
(* frames.                                                                 *)
(***************************************************************************)
EXTENDS WsConnection, SequenceTheorems, WellFoundedInduction, TLAPS

(***************************************************************************)
(* Frames.                                                                 *)
(***************************************************************************)
LEMMA MessageTypes ==
    /\ \A t \in Threads :
          [op |-> "data", from |-> t, terminal |-> FALSE] \in Messages
    /\ Pong \in Messages
    /\ \A b \in BOOLEAN : CloseFrame(b) \in Messages
  BY DEF Messages, DataFrames

LEMMA MinChosen ==
    ASSUME NEW I \in SUBSET Nat, I # {}
    PROVE  Min(I) \in I /\ \A i \in I : Min(I) <= i
<1>1. PICK t \in I : \A u \in I : ~(<<u, t>> \in OpToRel(<, Nat))
  BY NatLessThanWellFounded, WFMin
<1>2. \A u \in I : t <= u
  <2> SUFFICES ASSUME NEW u \in I PROVE t <= u
    OBVIOUS
  <2>1. t \in Nat /\ u \in Nat
    OBVIOUS
  <2>2. ~(u < t)
    BY <1>1, <2>1 DEF OpToRel
  <2> QED
    BY <2>1, <2>2
<1> QED
  BY <1>2 DEF Min

(* SelectInSeq finds the first terminal frame of the queue, if any.        *)
LEMMA FirstTerminal ==
    ASSUME NEW s \in Seq(Messages)
    PROVE  LET first == SelectInSeq(s, IsTerminal)
           IN /\ first \in 0..Len(s)
              /\ first = 0 => \A i \in 1..Len(s) : ~IsTerminal(s[i])
              /\ first # 0 => \A i \in 1..(first - 1) : ~IsTerminal(s[i])
<1> DEFINE I == {i \in 1..Len(s) : IsTerminal(s[i])}
           first == Min(I)
<1>1. SelectInSeq(s, IsTerminal) = IF I # {} THEN first ELSE 0
  BY DEF SelectInSeq
<1>2. CASE I = {}
  BY <1>1, <1>2
<1>3. CASE I # {}
  <2>1. first \in I /\ \A i \in I : first <= i
    <3>1. I \in SUBSET Nat
      OBVIOUS
    <3> HIDE DEF I
    <3> QED
      BY <1>3, <3>1, MinChosen
  <2> HIDE DEF first
  <2>2. first \in 1..Len(s)
    BY <2>1
  <2>3. \A i \in 1..(first - 1) : i \notin I
    BY <2>1, <2>2
  <2>4. \A i \in 1..(first - 1) : ~IsTerminal(s[i])
    BY <2>2, <2>3
  <2> QED
    BY <1>1, <1>3, <2>2, <2>4
<1> QED
  BY <1>2, <1>3

(* write_frame takes a prefix of the queue: all of it, or up to a terminal *)
(* frame.                                                                  *)
LEMMA ReadyTakes ==
    ASSUME TypeOK, m_send_queue # <<>>
    PROVE  /\ Ready \in Seq(Messages)
           /\ Ready # <<>>
           /\ SubSeq(m_send_queue, Len(Ready) + 1, Len(m_send_queue))
                \in Seq(Messages)
           /\ \A i \in DOMAIN Ready : IsTerminal(Ready[i]) => i = Len(Ready)
<1> DEFINE first == SelectInSeq(m_send_queue, IsTerminal)
<1>1. m_send_queue \in Seq(Messages)
  BY DEF TypeOK
<1>2. /\ first \in 0..Len(m_send_queue)
      /\ first = 0 =>
           \A i \in 1..Len(m_send_queue) : ~IsTerminal(m_send_queue[i])
      /\ first # 0 => \A i \in 1..(first - 1) : ~IsTerminal(m_send_queue[i])
  BY <1>1, FirstTerminal
<1>3. Ready = IF first = 0 THEN m_send_queue ELSE SubSeq(m_send_queue, 1, first)
  BY DEF Ready
<1> HIDE DEF first
<1>4. CASE first = 0
  BY <1>1, <1>2, <1>3, <1>4
<1>5. CASE first # 0
  <2>1. /\ Ready = SubSeq(m_send_queue, 1, first)
        /\ first \in 1..Len(m_send_queue)
    BY <1>2, <1>3, <1>5
  <2>2. /\ Ready \in Seq(Messages)
        /\ Len(Ready) = first
        /\ \A i \in 1..first : Ready[i] = m_send_queue[i]
    BY <1>1, <2>1
  <2>3. \A i \in 1..first : IsTerminal(Ready[i]) => i = first
    <3> SUFFICES ASSUME NEW i \in 1..first, IsTerminal(Ready[i]), i # first
                 PROVE  FALSE
      OBVIOUS
    <3>1. i \in 1..(first - 1)
      BY <2>1
    <3>2. IsTerminal(m_send_queue[i])
      BY <2>2 DEF IsTerminal
    <3> QED
      BY <1>2, <1>5, <3>1, <3>2
  <2>4. SubSeq(m_send_queue, first + 1, Len(m_send_queue)) \in Seq(Messages)
    BY <1>1, <2>1
  <2> QED
    BY <2>1, <2>2, <2>3, <2>4
<1> QED
  BY <1>4, <1>5

(***************************************************************************)
(* What the parts of the handlers keep.                                    *)
(***************************************************************************)
LEMMA cancel_timerType ==
    ASSUME TypeOK, NEW armed \in Nat, cancel_timer(armed)
    PROVE  m_handshake_timer' \in BOOLEAN /\ timers' \in Nat
<1>1. timers' \in CancelledOf(armed)
  BY DEF cancel_timer
<1>2. \A n \in CancelledOf(armed) : n \in Nat
  <2>1. CASE m_handshake_timer /\ armed > 0
    BY <2>1 DEF CancelledOf
  <2>2. CASE ~(m_handshake_timer /\ armed > 0)
    BY <2>2 DEF CancelledOf
  <2> QED
    BY <2>1, <2>2
<1> QED
  BY <1>1, <1>2 DEF cancel_timer

LEMMA terminateType ==
    ASSUME TypeOK, NEW ended, NEW armed \in Nat, terminate(ended, armed)
    PROVE  /\ m_handshake_timer' \in BOOLEAN /\ timers' \in Nat
           /\ m_state' \in {"connecting", "open", "closing", "closed"}
           /\ shut' \in BOOLEAN
           /\ opens' \in Nat /\ fails' \in Nat /\ closes' \in Nat
<1>1. m_handshake_timer' \in BOOLEAN /\ timers' \in Nat
  BY cancel_timerType DEF terminate
<1> QED
  BY <1>1 DEF terminate, TypeOK

LEMMA pushType ==
    ASSUME TypeOK, NEW f \in Messages, push(f)
    PROVE  m_send_queue' \in Seq(Messages) /\ posted' \in Nat
  BY DEF TypeOK, push

LEMMA send_close_frameType ==
    ASSUME TypeOK, NEW ack \in BOOLEAN, NEW terminal \in BOOLEAN,
           send_close_frame(ack, terminal)
    PROVE  /\ m_send_queue' \in Seq(Messages) /\ posted' \in Nat
           /\ m_handshake_timer' \in BOOLEAN /\ timers' \in Nat
           /\ m_state' \in {"connecting", "open", "closing", "closed"}
           /\ m_was_clean' \in BOOLEAN
           /\ UNCHANGED <<shut, handlers, m_current_msgs, m_write_flag, wire>>
<1>1. CloseFrame(terminal) \in Messages
  BY MessageTypes
<1>2. m_send_queue' \in Seq(Messages) /\ posted' \in Nat
  BY <1>1, pushType DEF send_close_frame
<1> QED
  BY <1>2 DEF send_close_frame, push, set_timer, TypeOK

LEMMA OpenSessionType ==
    ASSUME TypeOK, OpenSession
    PROVE  /\ m_handshake_timer' \in BOOLEAN /\ timers' \in Nat
           /\ pending' \subseteq
                Handshakes \cup {"handle_read_frame", "handle_write_frame"}
           /\ m_state' \in {"connecting", "open", "closing", "closed"}
           /\ m_internal_state' = "PROCESS_CONNECTION"
           /\ opens' \in Nat
           /\ UNCHANGED <<shut, fails, closes>>
<1>1. m_handshake_timer' \in BOOLEAN /\ timers' \in Nat
  <2>1. timers \in Nat
    BY DEF TypeOK
  <2> QED
    BY <2>1, cancel_timerType DEF OpenSession
<1> QED
  BY <1>1 DEF OpenSession, TypeOK

LEMMA StopsType ==
    ASSUME TypeOK, NEW handler, NEW ok, NEW istate, Stops(handler, ok, istate)
    PROVE  /\ m_handshake_timer' \in BOOLEAN /\ timers' \in Nat
           /\ m_state' \in {"connecting", "open", "closing", "closed"}
           /\ shut' \in BOOLEAN
           /\ pending' \subseteq pending
           /\ UNCHANGED handshake
           /\ opens' \in Nat /\ fails' \in Nat /\ closes' \in Nat
<1>1. timers \in Nat
  BY DEF TypeOK
<1>2. CASE UNCHANGED <<m_state, shut, timing, handlers>>
  BY <1>2 DEF Stops, TypeOK, timing, handlers
<1>3. CASE terminate(FALSE, timers)
  BY <1>1, <1>3, terminateType DEF Stops
<1> QED
  BY <1>2, <1>3 DEF Stops

(***************************************************************************)
(* Type correctness.                                                       *)
(***************************************************************************)
LEMMA InitTypeOK == Init => TypeOK
<1> SUFFICES ASSUME Init PROVE TypeOK
  OBVIOUS
<1>1. <<>> \in Seq(Messages)
  OBVIOUS
<1>2. /\ sends \in 0..MaxSends /\ frames \in 0..MaxFrames
      /\ posted \in Nat /\ timers \in Nat
      /\ opens \in Nat /\ fails \in Nat /\ closes \in Nat
  BY WsConnectionAssumption DEF Init
<1>3. thread \in [Threads -> {"idle", "admitted", "closing", "framing"}]
  BY DEF Init
<1>4. /\ m_send_queue \in Seq(Messages) /\ m_current_msgs \in Seq(Messages)
      /\ wire \in Seq(Messages)
  BY <1>1 DEF Init
<1> QED
  BY <1>2, <1>3, <1>4, Zenon DEF Init, TypeOK

(* The opening handshake and the timers leave the frames and the threads   *)
(* alone.                                                                  *)
LEMMA HandshakeTypeStep ==
    ASSUME TypeOK, Handshake \/ handle_handshake_timeout
    PROVE  TypeOK'
<1> DEFINE Stages ==
      {"USER_INIT", "READ_HTTP_REQUEST", "PROCESS_HTTP_REQUEST",
       "WRITE_HTTP_REQUEST", "READ_HTTP_RESPONSE", "PROCESS_CONNECTION"}
<1> DEFINE Responses == {"none", "websocket", "refused", "http"}
<1> DEFINE Kept ==
      /\ m_handshake_timer' \in BOOLEAN /\ timers' \in Nat
      /\ m_state' \in {"connecting", "open", "closing", "closed"}
      /\ m_internal_state' \in Stages
      /\ m_response' \in Responses
      /\ shut' \in BOOLEAN
      /\ pending' \subseteq
            Handshakes \cup {"handle_read_frame", "handle_write_frame"}
      /\ opens' \in Nat /\ fails' \in Nat /\ closes' \in Nat
<1>1. timers \in Nat
  BY DEF TypeOK
<1>2. ASSUME Kept, HandshakeUnchanged PROVE TypeOK'
  <2>1. UNCHANGED <<m_is_server, m_was_clean, frames, writing, users>>
    BY <1>2 DEF HandshakeUnchanged
  <2>2. UNCHANGED <<m_is_server, m_was_clean, m_send_queue, m_current_msgs,
                    m_write_flag, posted, wire, thread, sends, frames>>
    BY <2>1 DEF writing, users
  <2> QED
    BY <1>2, <2>2 DEF Kept, TypeOK
<1>3. ASSUME NEW handler, NEW ok, NEW istate, Stops(handler, ok, istate)
      PROVE  Kept
  BY <1>3, StopsType DEF TypeOK, handshake
<1>4. ASSUME NEW ok \in BOOLEAN, start(ok) PROVE TypeOK'
  <2>1. Kept
    <3>1. CASE ok
      BY <1>4, <3>1 DEF start, TypeOK, Handshakes, set_timer, handlers
    <3>2. CASE ~ok
      <4>1. terminate(FALSE, timers)
        BY <1>4, <3>2 DEF start
      <4> QED
        BY <1>1, <1>4, <3>2, <4>1, terminateType DEF start, TypeOK
    <3> QED
      BY <3>1, <3>2
  <2>2. HandshakeUnchanged
    BY <1>4 DEF start, HandshakeUnchanged
  <2> HIDE DEF Kept
  <2> QED
    BY <1>2, <2>1, <2>2
<1>5. ASSUME NEW ok \in BOOLEAN,
             NEW request \in {"websocket", "refused", "http"},
             handle_read_handshake(ok, request)
      PROVE  TypeOK'
  <2>1. Kept
    <3>1. CASE Stops("handle_read_handshake", ok, "READ_HTTP_REQUEST")
      BY <1>3, <3>1
    <3>2. CASE ~Stops("handle_read_handshake", ok, "READ_HTTP_REQUEST")
      BY <1>5, <3>2
      DEF handle_read_handshake, TypeOK, Handshakes, timing, handlers
    <3> QED
      BY <3>1, <3>2
  <2>2. HandshakeUnchanged
    BY <1>5 DEF handle_read_handshake
  <2> HIDE DEF Kept
  <2> QED
    BY <1>2, <2>1, <2>2
<1>6. ASSUME NEW ok \in BOOLEAN, handle_write_http_response(ok)
      PROVE  TypeOK'
  <2>1. Kept
    <3>1. CASE Stops("handle_write_http_response", ok, "PROCESS_HTTP_REQUEST")
      BY <1>3, <3>1
    <3>2. CASE OpenSession /\ UNCHANGED m_response
      BY <3>2, OpenSessionType DEF TypeOK
    <3>3. CASE /\ terminate(m_response = "http", timers)
               /\ pending' = pending \ {"handle_write_http_response"}
               /\ UNCHANGED handshake
      BY <1>1, <3>3, terminateType DEF TypeOK, handshake
    <3> HIDE DEF Kept
    <3> QED
      BY <1>6, <3>1, <3>2, <3>3 DEF handle_write_http_response
  <2>2. HandshakeUnchanged
    BY <1>6 DEF handle_write_http_response
  <2> HIDE DEF Kept
  <2> QED
    BY <1>2, <2>1, <2>2
<1>7. ASSUME NEW ok \in BOOLEAN, handle_send_http_request(ok)
      PROVE  TypeOK'
  <2>1. Kept
    <3>1. CASE Stops("handle_send_http_request", ok, "WRITE_HTTP_REQUEST")
      BY <1>3, <3>1
    <3>2. CASE ~Stops("handle_send_http_request", ok, "WRITE_HTTP_REQUEST")
      BY <1>7, <3>2
      DEF handle_send_http_request, TypeOK, Handshakes, timing, handlers
    <3> QED
      BY <3>1, <3>2
  <2>2. HandshakeUnchanged
    BY <1>7 DEF handle_send_http_request
  <2> HIDE DEF Kept
  <2> QED
    BY <1>2, <2>1, <2>2
<1>8. ASSUME NEW ok \in BOOLEAN, NEW valid \in BOOLEAN,
             handle_read_http_response(ok, valid)
      PROVE  TypeOK'
  <2>1. Kept
    <3>1. CASE Stops("handle_read_http_response", ok, "READ_HTTP_RESPONSE")
      BY <1>3, <3>1
    <3>2. CASE OpenSession /\ UNCHANGED m_response
      BY <3>2, OpenSessionType DEF TypeOK
    <3>3. CASE /\ terminate(FALSE, timers)
               /\ pending' = pending \ {"handle_read_http_response"}
               /\ UNCHANGED handshake
      BY <1>1, <3>3, terminateType DEF TypeOK, handshake
    <3> HIDE DEF Kept
    <3> QED
      BY <1>8, <3>1, <3>2, <3>3 DEF handle_read_http_response
  <2>2. HandshakeUnchanged
    BY <1>8 DEF handle_read_http_response
  <2> HIDE DEF Kept
  <2> QED
    BY <1>2, <2>1, <2>2
<1>9. CASE handle_handshake_timeout
  <2>0. timers > 0 /\ terminate(FALSE, timers - 1)
    BY <1>9 DEF handle_handshake_timeout
  <2>1. timers - 1 \in Nat
    BY <1>1, <2>0
  <2>2. Kept
    BY <1>9, <2>0, <2>1, terminateType
    DEF handle_handshake_timeout, TypeOK, handshake
  <2>3. HandshakeUnchanged
    BY <1>9 DEF handle_handshake_timeout, HandshakeUnchanged
  <2> HIDE DEF Kept
  <2> QED
    BY <1>2, <2>2, <2>3
<1> QED
  BY <1>4, <1>5, <1>6, <1>7, <1>8, <1>9 DEF Handshake

(* A read takes one frame of the peer's.                                   *)
LEMMA ReadTypeStep ==
    ASSUME TypeOK, Read
    PROVE  TypeOK'
<1> DEFINE Kept ==
      /\ m_handshake_timer' \in BOOLEAN /\ timers' \in Nat
      /\ m_state' \in {"connecting", "open", "closing", "closed"}
      /\ m_was_clean' \in BOOLEAN
      /\ m_send_queue' \in Seq(Messages) /\ posted' \in Nat
      /\ UNCHANGED <<m_current_msgs, m_write_flag, wire>>
      /\ shut' \in BOOLEAN
      /\ opens' \in Nat /\ fails' \in Nat /\ closes' \in Nat
<1>1. timers \in Nat
  BY DEF TypeOK
<1>2. ASSUME FrameRead, Kept, pending' \subseteq pending PROVE TypeOK'
  <2>1. frames' \in 0..MaxFrames
    BY <1>2, WsConnectionAssumption DEF FrameRead, TypeOK
  <2>2. UNCHANGED <<m_is_server, m_internal_state, m_response, thread, sends>>
    BY <1>2 DEF FrameRead, handshake, users
  <2> QED
    BY <1>2, <2>1, <2>2 DEF Kept, TypeOK
<1>3. NothingHappens => Kept
  BY DEF NothingHappens, TypeOK, timing, writing, handlers
<1>4. ASSUME NEW f \in Messages, push(f),
             UNCHANGED <<m_state, m_was_clean, shut, timing, handlers>>
      PROVE  Kept
  <2>1. m_send_queue' \in Seq(Messages) /\ posted' \in Nat
    BY <1>4, pushType
  <2> QED
    BY <1>4, <2>1 DEF push, TypeOK, timing, handlers
<1>5. ASSUME NEW ack \in BOOLEAN, NEW terminal \in BOOLEAN,
             send_close_frame(ack, terminal)
      PROVE  Kept
  BY <1>5, send_close_frameType DEF TypeOK, handlers
<1>6. ASSUME terminate(FALSE, timers), m_was_clean' \in BOOLEAN,
             UNCHANGED writing
      PROVE  Kept
  BY <1>1, <1>6, terminateType DEF TypeOK, writing
<1>7. CASE read_failed
  <2>1. UNCHANGED <<m_is_server, m_was_clean, frames, m_internal_state,
                    m_response, m_send_queue, m_current_msgs, m_write_flag,
                    posted, wire, thread, sends>>
    BY <1>7 DEF read_failed, handshake, writing, users
  <2>2. Kept
    <3>1. CASE UNCHANGED <<m_state, shut, timing, handlers>>
      BY <1>7, <2>1, <3>1 DEF TypeOK, timing, handlers
    <3>2. CASE terminate(FALSE, timers)
      BY <1>6, <2>1, <3>2 DEF TypeOK, writing
    <3> QED
      BY <1>7, <3>1, <3>2 DEF read_failed
  <2>3. pending' \subseteq pending
    BY <1>7 DEF read_failed
  <2> QED
    BY <2>1, <2>2, <2>3 DEF TypeOK
<1>8. CASE read_data
  BY <1>2, <1>3, <1>8 DEF read_data
<1>9. CASE read_ping
  <2>1. Kept
    <3>1. CASE m_state = "open"
      BY <1>4, <1>9, <3>1, MessageTypes DEF read_ping
    <3>2. CASE m_state # "open"
      BY <1>3, <1>9, <3>2 DEF read_ping
    <3> QED
      BY <3>1, <3>2
  <2> QED
    BY <1>2, <1>9, <2>1 DEF read_ping
<1>10. ASSUME NEW valid \in BOOLEAN, read_close(valid) PROVE TypeOK'
  <2>1. Kept
    <3>1. CASE send_close_ack
      BY <1>5, <3>1 DEF send_close_ack, TypeOK
    <3>2. CASE NothingHappens
      BY <1>3, <3>2
    <3>3. CASE /\ m_was_clean' = TRUE
               /\ IF m_is_server
                  THEN terminate(FALSE, timers)
                  ELSE UNCHANGED <<m_state, shut, timing, handlers>>
               /\ UNCHANGED writing
      <4>1. CASE m_is_server
        <5>1. terminate(FALSE, timers)
          BY <3>3, <4>1
        <5>2. m_was_clean' \in BOOLEAN /\ UNCHANGED writing
          BY <3>3
        <5> HIDE DEF Kept
        <5> QED
          BY <1>6, <5>1, <5>2
      <4>2. CASE ~m_is_server
        BY <3>3, <4>2 DEF TypeOK, timing, writing, handlers
      <4> QED
        BY <4>1, <4>2
    <3> HIDE DEF Kept
    <3> QED
      BY <1>10, <3>1, <3>2, <3>3 DEF read_close
  <2> QED
    BY <1>2, <1>10, <2>1 DEF read_close
<1>11. CASE read_violation
  <2>1. Kept
    <3>1. CASE m_state = "open"
      BY <1>5, <1>11, <3>1 DEF read_violation
    <3>2. CASE m_state # "open"
      BY <1>6, <1>11, <3>2 DEF read_violation, TypeOK
    <3> QED
      BY <3>1, <3>2
  <2>2. pending' \subseteq pending
    BY <1>11 DEF read_violation
  <2> QED
    BY <1>2, <1>11, <2>1, <2>2 DEF read_violation
<1> QED
  BY <1>7, <1>8, <1>9, <1>10, <1>11 DEF Read

(* Writes move frames from the queue to the wire.                          *)
LEMMA WriteTypeStep ==
    ASSUME TypeOK, Write
    PROVE  TypeOK'
<1>1. CASE write_frame
  <2>1. UNCHANGED <<m_is_server, m_state, m_was_clean, shut, wire, frames,
                    m_internal_state, m_response, thread, sends,
                    m_handshake_timer, timers, opens, fails, closes>>
    BY <1>1
    DEF write_frame, WriteUnchanged, handshake, users, timing, handlers
  <2>2. posted' \in Nat
    BY <1>1 DEF write_frame, TypeOK
  <2>3. /\ m_send_queue' \in Seq(Messages) /\ m_current_msgs' \in Seq(Messages)
        /\ m_write_flag' \in BOOLEAN
        /\ pending' \subseteq
             Handshakes \cup {"handle_read_frame", "handle_write_frame"}
    <3>1. CASE m_write_flag \/ m_send_queue = <<>>
      BY <1>1, <3>1 DEF write_frame, TypeOK
    <3>2. CASE ~(m_write_flag \/ m_send_queue = <<>>)
      <4>1. /\ m_current_msgs' = m_current_msgs \o Ready
            /\ m_send_queue' =
                  SubSeq(m_send_queue, Len(Ready) + 1, Len(m_send_queue))
            /\ m_write_flag' = TRUE
            /\ pending' = pending \cup {"handle_write_frame"}
        BY <1>1, <3>2 DEF write_frame
      <4>2. m_current_msgs' \in Seq(Messages)
        BY <3>2, <4>1, ReadyTakes DEF TypeOK
      <4> QED
        BY <3>2, <4>1, <4>2, ReadyTakes DEF TypeOK
    <3> QED
      BY <3>1, <3>2
  <2> QED
    BY <2>1, <2>2, <2>3 DEF TypeOK
<1>2. ASSUME NEW ok \in BOOLEAN, handle_write_frame(ok) PROVE TypeOK'
  <2>1. UNCHANGED <<m_is_server, m_was_clean, frames, m_internal_state,
                    m_response, thread, sends, m_send_queue>>
    BY <1>2 DEF handle_write_frame, WriteUnchanged, handshake, users
  <2>2. m_current_msgs' \in Seq(Messages) /\ wire' \in Seq(Messages)
    <3>1. m_current_msgs' = <<>> /\ <<>> \in Seq(Messages)
      BY <1>2 DEF handle_write_frame
    <3>2. wire' = wire \/ wire' = wire \o m_current_msgs
      BY <1>2 DEF handle_write_frame
    <3>3. wire \in Seq(Messages) /\ wire \o m_current_msgs \in Seq(Messages)
      BY DEF TypeOK
    <3> QED
      BY <3>1, <3>2, <3>3
  <2>3. pending' \subseteq
          Handshakes \cup {"handle_read_frame", "handle_write_frame"}
    BY <1>2 DEF handle_write_frame, TypeOK
  <2>4. /\ m_handshake_timer' \in BOOLEAN /\ timers' \in Nat
        /\ m_state' \in {"connecting", "open", "closing", "closed"}
        /\ shut' \in BOOLEAN
        /\ opens' \in Nat /\ fails' \in Nat /\ closes' \in Nat
        /\ m_write_flag' \in BOOLEAN /\ posted' \in Nat
    <3> DEFINE Ends == ~ok \/ IsTerminal(Last(m_current_msgs))
    <3>1. CASE Ends
      <4>1. terminate(FALSE, timers) /\ UNCHANGED <<m_write_flag, posted>>
        BY <1>2, <3>1 DEF handle_write_frame
      <4>2. timers \in Nat
        BY DEF TypeOK
      <4> QED
        BY <4>1, <4>2, terminateType DEF TypeOK
    <3>2. CASE ~Ends
      <4>1. /\ m_write_flag' = FALSE
            /\ posted' = IF m_send_queue # <<>> THEN posted + 1 ELSE posted
            /\ UNCHANGED <<m_state, shut, timing, handlers>>
        BY <1>2, <3>2 DEF handle_write_frame
      <4>2. posted' \in Nat
        BY <4>1 DEF TypeOK
      <4>3. UNCHANGED <<m_state, shut, m_handshake_timer, timers, opens, fails,
                        closes>>
        BY <4>1 DEF timing, handlers
      <4> HIDE DEF Ends
      <4> QED
        BY <4>1, <4>2, <4>3 DEF TypeOK
    <3> QED
      BY <3>1, <3>2
  <2> QED
    BY <2>1, <2>2, <2>3, <2>4 DEF TypeOK
<1> QED
  BY <1>1, <1>2 DEF Write

(* The other threads only queue frames and set m_state.                    *)
LEMMA UserTypeStep ==
    ASSUME TypeOK, User
    PROVE  TypeOK'
<1> DEFINE Kept ==
      /\ m_handshake_timer' \in BOOLEAN /\ timers' \in Nat
      /\ m_state' \in {"connecting", "open", "closing", "closed"}
      /\ m_send_queue' \in Seq(Messages) /\ posted' \in Nat
      /\ UNCHANGED <<m_was_clean, m_current_msgs, m_write_flag, wire>>
      /\ thread' \in [Threads -> {"idle", "admitted", "closing", "framing"}]
      /\ sends' \in 0..MaxSends
<1>1. ASSUME UserUnchanged, Kept PROVE TypeOK'
  <2>1. UNCHANGED <<m_is_server, pending, shut, frames, m_internal_state,
                    m_response, opens, fails, closes>>
    BY <1>1 DEF UserUnchanged, handshake, handlers
  <2> QED
    BY <1>1, <2>1 DEF Kept, TypeOK
<1>2. ASSUME NEW t \in Threads, send_check(t) PROVE TypeOK'
  <2>1. Kept
    BY <1>2, WsConnectionAssumption DEF send_check, TypeOK, timing, writing
  <2> QED
    BY <1>1, <1>2, <2>1 DEF send_check
<1>3. ASSUME NEW t \in Threads, send_push(t) PROVE TypeOK'
  <2> DEFINE f == [op |-> "data", from |-> t, terminal |-> FALSE]
  <2>1. f \in Messages
    BY MessageTypes
  <2>2. push(f)
    BY <1>3 DEF send_push
  <2> HIDE DEF f
  <2>3. m_send_queue' \in Seq(Messages) /\ posted' \in Nat
    BY <2>1, <2>2, pushType
  <2>4. Kept
    BY <1>3, <2>2, <2>3 DEF send_push, push, TypeOK, timing
  <2> QED
    BY <1>1, <1>3, <2>4 DEF send_push
<1>4. CASE close_check
  <2>1. Kept
    BY <1>4, WsConnectionAssumption DEF close_check, TypeOK, timing, writing
  <2> QED
    BY <1>1, <1>4, <2>1 DEF close_check
<1>5. CASE close_state
  <2>1. Kept
    BY <1>5, WsConnectionAssumption DEF close_state, TypeOK, timing, writing
  <2> QED
    BY <1>1, <1>5, <2>1 DEF close_state
<1>6. CASE close_frame
  <2>1. push(CloseFrame(FALSE)) /\ CloseFrame(FALSE) \in Messages
    BY <1>6, MessageTypes DEF close_frame
  <2>2. m_send_queue' \in Seq(Messages) /\ posted' \in Nat
    BY <2>1, pushType
  <2>3. timers' \in Nat /\ m_handshake_timer' = TRUE
    BY <1>6 DEF close_frame, set_timer, TypeOK
  <2>4. Kept
    BY <1>6, <2>3, <2>1, <2>2, WsConnectionAssumption
    DEF close_frame, push, TypeOK
  <2> QED
    BY <1>1, <1>6, <2>4 DEF close_frame
<1> QED
  BY <1>2, <1>3, <1>4, <1>5, <1>6 DEF User

LEMMA TypeStep == TypeOK /\ [Next]_vars => TypeOK'
<1> SUFFICES ASSUME TypeOK, [Next]_vars PROVE TypeOK'
  OBVIOUS
<1>1. CASE UNCHANGED vars
  BY <1>1
  DEF vars, handshake, timing, writing, users, handlers, TypeOK
<1> QED
  BY <1>1, HandshakeTypeStep, ReadTypeStep, WriteTypeStep, UserTypeStep
  DEF Next

(***************************************************************************)
(* Before the session is open only the handshake and its timer can happen. *)
(***************************************************************************)
LEMMA OnlyHandshake ==
    ASSUME TypeOK, IdleWhileConnecting, m_state = "connecting"
    PROVE  ~Read /\ ~Write /\ ~User
<1>1. /\ pending \subseteq Handshakes
      /\ posted = 0
      /\ \A t \in Threads : thread[t] = "idle"
  BY DEF IdleWhileConnecting
<1>2. ~Read
  BY <1>1
  DEF Read, read_failed, read_data, read_ping, read_close, read_violation,
      FrameRead, Handshakes
<1>3. ~Write
  <2>1. ~(posted > 0)
    BY <1>1
  <2>2. ~write_frame
    BY <2>1 DEF write_frame
  <2>3. "handle_write_frame" \notin pending
    BY <1>1 DEF Handshakes
  <2> QED
    BY <2>2, <2>3, Zenon DEF Write, handle_write_frame
<1>4. ~User
  BY <1>1, WsConnectionAssumption
  DEF User, send_check, send_push, close_check, close_state, close_frame
<1> QED
  BY <1>2, <1>3, <1>4

(* What the rest of the invariant depends on, besides what is written.     *)
NobodyWrites ==
    /\ "handle_write_frame" \in pending' <=> "handle_write_frame" \in pending
    /\ shut => shut'

(* The effect of a step on m_state, on the handlers called and on the one  *)
(* thread that closes.                                                     *)
OwnerUnchanged == UNCHANGED <<m_is_server, thread>>

StateKept == OwnerUnchanged /\ UNCHANGED <<m_state, handlers>>

StateOpens ==
    /\ OwnerUnchanged
    /\ m_state = "connecting" /\ m_state' = "open"
    /\ opens' = opens + 1 /\ UNCHANGED <<fails, closes>>

StateCloses ==
    /\ OwnerUnchanged
    /\ m_state \in {"open", "closing"} /\ m_state' = "closing"
    /\ UNCHANGED handlers

StateEnds ==
    /\ OwnerUnchanged
    /\ m_state' = "closed"
    /\ fails' \in {fails, IF m_state = "connecting" THEN fails + 1 ELSE fails}
    /\ closes' = IF m_state \in {"open", "closing"} THEN closes + 1 ELSE closes
    /\ UNCHANGED opens

LEMMA terminateEnds ==
    ASSUME NEW ended, NEW armed, terminate(ended, armed), OwnerUnchanged
    PROVE  StateEnds
  BY DEF terminate, StateEnds, OwnerUnchanged

LEMMA StopsEffect ==
    ASSUME NEW handler \in Handshakes, NEW ok, NEW istate,
           Stops(handler, ok, istate), HandshakeUnchanged
    PROVE  /\ NobodyWrites
           /\ pending' \subseteq pending
           /\ m_state' = "closed"
           /\ StateKept \/ StateEnds
<1>1. OwnerUnchanged
  BY DEF HandshakeUnchanged, OwnerUnchanged, users
<1>2. handler # "handle_write_frame"
  BY DEF Handshakes
<1>3. CASE /\ m_state = "closed"
           /\ UNCHANGED <<m_state, shut, timing, handlers>>
  BY <1>1, <1>2, <1>3 DEF Stops, NobodyWrites, StateKept
<1>4. CASE terminate(FALSE, timers)
  <2>1. terminate(FALSE, timers) /\ pending' = pending \ {handler}
    BY <1>4 DEF Stops
  <2>2. StateEnds
    BY <1>1, <2>1, terminateEnds
  <2> QED
    BY <1>2, <2>1, <2>2 DEF terminate, NobodyWrites
<1> QED
  BY <1>3, <1>4 DEF Stops

(* The opening handshake and the timers.                                   *)
LEMMA HandshakeEffect ==
    ASSUME TypeOK, IdleWhileConnecting, Handshake \/ handle_handshake_timeout
    PROVE  /\ NobodyWrites
           /\ UNCHANGED <<writing, users>>
           /\ m_state' = "connecting" => pending' \subseteq Handshakes
           /\ StateKept \/ StateOpens \/ StateEnds
<1> DEFINE Effect ==
      /\ NobodyWrites
      /\ m_state' = "connecting" => pending' \subseteq Handshakes
      /\ StateKept \/ StateOpens \/ StateEnds
<1>1. HandshakeUnchanged => OwnerUnchanged
  BY DEF HandshakeUnchanged, OwnerUnchanged, users
<1>2. ASSUME NEW ended, NEW armed, terminate(ended, armed), HandshakeUnchanged,
             NEW handler \in Handshakes, pending' = pending \ {handler}
      PROVE  Effect
  <2>1. StateEnds
    BY <1>1, <1>2, terminateEnds
  <2>2. NobodyWrites
    BY <1>2 DEF NobodyWrites, terminate, Handshakes
  <2> QED
    BY <1>2, <2>1, <2>2 DEF terminate
<1>3. ASSUME OpenSession, m_state = "connecting", HandshakeUnchanged
      PROVE  Effect
  <2>1. "handle_write_frame" \notin pending /\ "handle_write_frame" \notin pending'
    BY <1>3 DEF IdleWhileConnecting, OpenSession, Handshakes
  <2> QED
    BY <1>1, <1>3, <2>1 DEF OpenSession, NobodyWrites, StateOpens
<1>4. ASSUME NEW ok \in BOOLEAN, start(ok)
      PROVE  Effect /\ HandshakeUnchanged
  <2>1. HandshakeUnchanged
    BY <1>4 DEF start, HandshakeUnchanged
  <2>2. m_state = "connecting" /\ "handle_write_frame" \notin pending
    BY <1>4 DEF start, IdleWhileConnecting, Handshakes
  <2>3. CASE ok
    <3>1. pending' \subseteq Handshakes /\ UNCHANGED <<m_state, shut, handlers>>
      BY <1>4, <2>3 DEF start, Handshakes
    <3>2. "handle_write_frame" \notin pending'
      BY <3>1 DEF Handshakes
    <3> QED
      BY <1>1, <2>1, <2>2, <3>1, <3>2 DEF NobodyWrites, StateKept
  <2>4. CASE ~ok
    <3>1. terminate(FALSE, timers) /\ UNCHANGED pending
      BY <1>4, <2>4 DEF start
    <3>2. StateEnds
      BY <1>1, <2>1, <3>1, terminateEnds
    <3> QED
      BY <2>1, <3>1, <3>2 DEF terminate, NobodyWrites
  <2> QED
    BY <2>3, <2>4
<1>5. ASSUME NEW ok \in BOOLEAN,
             NEW request \in {"websocket", "refused", "http"},
             handle_read_handshake(ok, request)
      PROVE  Effect /\ HandshakeUnchanged
  <2>1. HandshakeUnchanged
    BY <1>5 DEF handle_read_handshake
  <2>2. CASE Stops("handle_read_handshake", ok, "READ_HTTP_REQUEST")
    BY <2>1, <2>2, StopsEffect DEF Handshakes
  <2>3. CASE ~Stops("handle_read_handshake", ok, "READ_HTTP_REQUEST")
    <3>1. /\ m_state = "connecting"
          /\ UNCHANGED <<m_state, shut, handlers>>
          /\ pending' = (pending \ {"handle_read_handshake"})
                          \cup {"handle_write_http_response"}
      BY <1>5, <2>3 DEF handle_read_handshake, Proceeds
    <3> QED
      BY <1>1, <2>1, <3>1
      DEF NobodyWrites, StateKept, IdleWhileConnecting, Handshakes
  <2> QED
    BY <2>1, <2>2, <2>3
<1>6. ASSUME NEW ok \in BOOLEAN, handle_write_http_response(ok)
      PROVE  Effect /\ HandshakeUnchanged
  <2> DEFINE handler == "handle_write_http_response"
  <2>1. HandshakeUnchanged
    BY <1>6 DEF handle_write_http_response
  <2>2. CASE Stops(handler, ok, "PROCESS_HTTP_REQUEST")
    BY <2>1, <2>2, StopsEffect DEF Handshakes
  <2>3. CASE OpenSession /\ m_state = "connecting"
    BY <1>3, <2>1, <2>3
  <2>4. CASE /\ terminate(m_response = "http", timers)
             /\ pending' = pending \ {handler}
    BY <1>2, <2>1, <2>4 DEF Handshakes
  <2> HIDE DEF Effect
  <2> QED
    BY <1>6, <2>1, <2>2, <2>3, <2>4 DEF handle_write_http_response, Proceeds
<1>7. ASSUME NEW ok \in BOOLEAN, handle_send_http_request(ok)
      PROVE  Effect /\ HandshakeUnchanged
  <2>1. HandshakeUnchanged
    BY <1>7 DEF handle_send_http_request
  <2>2. CASE Stops("handle_send_http_request", ok, "WRITE_HTTP_REQUEST")
    BY <2>1, <2>2, StopsEffect DEF Handshakes
  <2>3. CASE ~Stops("handle_send_http_request", ok, "WRITE_HTTP_REQUEST")
    <3>1. /\ m_state = "connecting"
          /\ UNCHANGED <<m_state, shut, handlers>>
          /\ pending' = (pending \ {"handle_send_http_request"})
                          \cup {"handle_read_http_response"}
      BY <1>7, <2>3 DEF handle_send_http_request, Proceeds
    <3> QED
      BY <1>1, <2>1, <3>1
      DEF NobodyWrites, StateKept, IdleWhileConnecting, Handshakes
  <2> QED
    BY <2>1, <2>2, <2>3
<1>8. ASSUME NEW ok \in BOOLEAN, NEW valid \in BOOLEAN,
             handle_read_http_response(ok, valid)
      PROVE  Effect /\ HandshakeUnchanged
  <2> DEFINE handler == "handle_read_http_response"
  <2>1. HandshakeUnchanged
    BY <1>8 DEF handle_read_http_response
  <2>2. CASE Stops(handler, ok, "READ_HTTP_RESPONSE")
    BY <2>1, <2>2, StopsEffect DEF Handshakes
  <2>3. CASE OpenSession /\ m_state = "connecting"
    BY <1>3, <2>1, <2>3
  <2>4. CASE terminate(FALSE, timers) /\ pending' = pending \ {handler}
    BY <1>2, <2>1, <2>4 DEF Handshakes
  <2> HIDE DEF Effect
  <2> QED
    BY <1>8, <2>1, <2>2, <2>3, <2>4 DEF handle_read_http_response, Proceeds
<1>9. ASSUME handle_handshake_timeout PROVE Effect /\ HandshakeUnchanged
  <2>1. HandshakeUnchanged
    BY <1>9 DEF handle_handshake_timeout, HandshakeUnchanged
  <2>2. terminate(FALSE, timers - 1)
    BY <1>9 DEF handle_handshake_timeout
  <2>3. StateEnds
    BY <1>1, <2>1, <2>2, terminateEnds
  <2>4. UNCHANGED pending /\ m_state' = "closed" /\ shut' = TRUE
    BY <1>9 DEF handle_handshake_timeout, terminate
  <2>5. Effect
    BY <2>3, <2>4 DEF NobodyWrites
  <2> QED
    BY <2>1, <2>5
<1>10. Effect /\ HandshakeUnchanged
  <2> HIDE DEF Effect
  <2> QED
    BY <1>4, <1>5, <1>6, <1>7, <1>8, <1>9 DEF Handshake
<1> QED
  BY <1>10 DEF HandshakeUnchanged

(* A read queues at most an answer and leaves the writes alone.            *)
LEMMA ReadEffect ==
    ASSUME TypeOK, IdleWhileConnecting, Read
    PROVE  /\ NobodyWrites
           /\ UNCHANGED writing \/ \E f \in Messages : push(f)
           /\ m_state' # "connecting"
           /\ StateKept \/ StateCloses \/ StateEnds
<1> DEFINE Effect ==
      /\ UNCHANGED writing \/ \E f \in Messages : push(f)
      /\ shut => shut'
      /\ StateKept \/ StateCloses \/ StateEnds
<1>1. m_state \in {"open", "closing", "closed"}
  BY OnlyHandshake DEF TypeOK
<1>2. FrameRead => OwnerUnchanged
  BY DEF FrameRead, OwnerUnchanged, users
<1>3. ASSUME NothingHappens, FrameRead PROVE Effect
  BY <1>2, <1>3 DEF NothingHappens, StateKept
<1>4. ASSUME terminate(FALSE, timers), OwnerUnchanged, UNCHANGED writing
      PROVE  Effect
  BY <1>4, terminateEnds DEF terminate
<1>5. ASSUME NEW ack \in BOOLEAN, NEW terminal \in BOOLEAN,
             send_close_frame(ack, terminal), m_state # "closed", FrameRead
      PROVE  Effect
  <2>1. push(CloseFrame(terminal)) /\ CloseFrame(terminal) \in Messages
    BY <1>5, MessageTypes DEF send_close_frame
  <2>2. StateCloses /\ UNCHANGED shut
    BY <1>1, <1>2, <1>5 DEF send_close_frame, StateCloses
  <2> QED
    BY <2>1, <2>2
<1>6. ASSUME read_failed
      PROVE  Effect /\ pending' = pending \ {"handle_read_frame"}
  <2>1. OwnerUnchanged /\ UNCHANGED writing
    BY <1>6 DEF read_failed, OwnerUnchanged, users
  <2>2. CASE UNCHANGED <<m_state, shut, timing, handlers>>
    BY <1>6, <2>1, <2>2 DEF read_failed, StateKept
  <2>3. CASE terminate(FALSE, timers)
    BY <1>4, <1>6, <2>1, <2>3 DEF read_failed
  <2> QED
    BY <1>6, <2>2, <2>3 DEF read_failed
<1>7. ASSUME read_data PROVE Effect /\ UNCHANGED pending
  BY <1>3, <1>7 DEF read_data
<1>8. ASSUME read_ping PROVE Effect /\ UNCHANGED pending
  <2>1. CASE m_state = "open"
    <3>1. push(Pong) /\ UNCHANGED <<m_state, shut, handlers>> /\ OwnerUnchanged
      BY <1>2, <1>8, <2>1 DEF read_ping
    <3> QED
      BY <1>8, <3>1, MessageTypes DEF read_ping, StateKept
  <2>2. CASE m_state # "open"
    BY <1>3, <1>8, <2>2 DEF read_ping
  <2> QED
    BY <2>1, <2>2
<1>9. ASSUME NEW valid \in BOOLEAN, read_close(valid)
      PROVE  Effect /\ UNCHANGED pending
  <2>1. FrameRead /\ UNCHANGED pending
    BY <1>9 DEF read_close
  <2>2. CASE send_close_ack /\ m_state # "closed"
    BY <1>5, <2>1, <2>2 DEF send_close_ack, TypeOK
  <2>3. CASE /\ IF m_is_server
                THEN terminate(FALSE, timers)
                ELSE UNCHANGED <<m_state, shut, timing, handlers>>
             /\ UNCHANGED writing
    <3>1. CASE m_is_server
      <4>1. terminate(FALSE, timers) /\ UNCHANGED writing
        BY <2>3, <3>1
      <4> QED
        BY <1>2, <1>4, <2>1, <4>1
    <3>2. CASE ~m_is_server
      BY <1>2, <2>1, <2>3, <3>2 DEF StateKept
    <3> QED
      BY <3>1, <3>2
  <2>4. CASE NothingHappens
    BY <1>3, <2>1, <2>4
  <2> HIDE DEF Effect
  <2> QED
    BY <1>9, <2>1, <2>2, <2>3, <2>4 DEF read_close
<1>10. ASSUME read_violation
       PROVE  Effect /\ pending' = pending \ {"handle_read_frame"}
  <2>1. FrameRead /\ pending' = pending \ {"handle_read_frame"}
    BY <1>10 DEF read_violation
  <2>2. CASE m_state = "open"
    BY <1>5, <1>10, <2>1, <2>2 DEF read_violation
  <2>3. CASE m_state # "open"
    BY <1>2, <1>4, <1>10, <2>1, <2>3 DEF read_violation
  <2> QED
    BY <2>1, <2>2, <2>3
<1>11. Effect /\ pending' \in {pending, pending \ {"handle_read_frame"}}
  <2> HIDE DEF Effect
  <2> QED
    BY <1>6, <1>7, <1>8, <1>9, <1>10 DEF Read
<1>12. NobodyWrites
  BY <1>11 DEF NobodyWrites
<1> QED
  BY <1>1, <1>11, <1>12 DEF StateKept, StateCloses, StateEnds

(* A write changes m_state only by ending the connection.                  *)
LEMMA WriteEffect ==
    ASSUME TypeOK, IdleWhileConnecting, Write
    PROVE  /\ shut => shut'
           /\ m_state' # "connecting"
           /\ StateKept \/ StateEnds
<1>1. m_state \in {"open", "closing", "closed"}
  BY OnlyHandshake DEF TypeOK
<1>2. OwnerUnchanged
  BY DEF Write, write_frame, handle_write_frame, WriteUnchanged, users,
         OwnerUnchanged
<1>3. CASE write_frame
  BY <1>1, <1>2, <1>3 DEF write_frame, StateKept
<1>4. ASSUME NEW ok \in BOOLEAN, handle_write_frame(ok)
      PROVE  (shut => shut') /\ (StateKept \/ StateEnds)
  <2>1. CASE terminate(FALSE, timers)
    BY <1>2, <2>1, terminateEnds DEF terminate
  <2>2. CASE UNCHANGED <<m_state, shut, timing, handlers>>
    BY <1>2, <2>2 DEF StateKept
  <2> QED
    BY <1>4, <2>1, <2>2 DEF handle_write_frame
<1> QED
  BY <1>1, <1>3, <1>4 DEF Write, StateKept, StateEnds

(* The other threads queue, and set m_state only in close.                 *)
LEMMA UserEffect ==
    ASSUME TypeOK, IdleWhileConnecting, User
    PROVE  /\ NobodyWrites
           /\ UNCHANGED writing \/ \E f \in Messages : push(f)
           /\ m_state' # "connecting"
           /\ UNCHANGED <<m_is_server, handlers>>
<1>1. m_state \in {"open", "closing", "closed"}
  BY OnlyHandshake DEF TypeOK
<1>2. UserUnchanged
  BY DEF User, send_check, send_push, close_check, close_state, close_frame
<1>3. UNCHANGED writing \/ \E f \in Messages : push(f)
  <2>1. ASSUME NEW t \in Threads, send_check(t) PROVE UNCHANGED writing
    BY <2>1 DEF send_check
  <2>2. ASSUME NEW t \in Threads, send_push(t)
        PROVE  \E f \in Messages : push(f)
    BY <2>2, MessageTypes DEF send_push
  <2>3. close_frame => push(CloseFrame(FALSE))
    BY DEF close_frame
  <2> QED
    BY <2>1, <2>2, <2>3, MessageTypes DEF User, close_check, close_state
<1>4. m_state' # "connecting"
  BY <1>1
  DEF User, send_check, send_push, close_check, close_state, close_frame
<1> QED
  BY <1>2, <1>3, <1>4 DEF UserUnchanged, NobodyWrites

-----------------------------------------------------------------------------
(***************************************************************************)
(* One step for each part of the invariant.                                *)
(***************************************************************************)
LEMMA IdleStep ==
    ASSUME TypeOK, IdleWhileConnecting, [Next]_vars
    PROVE  IdleWhileConnecting'
<1>1. CASE UNCHANGED vars
  BY <1>1 DEF vars, writing, users, IdleWhileConnecting
<1>2. CASE Handshake \/ handle_handshake_timeout
  <2> SUFFICES ASSUME m_state' = "connecting" PROVE IdleWhileConnecting'
    BY DEF IdleWhileConnecting
  <2>1. /\ UNCHANGED <<writing, users>>
        /\ pending' \subseteq Handshakes
        /\ m_state = "connecting"
    BY <1>2, HandshakeEffect DEF StateKept, StateOpens, StateEnds
  <2> QED
    BY <2>1 DEF writing, users, IdleWhileConnecting
<1>3. CASE Read \/ Write \/ User
  BY <1>3, ReadEffect, WriteEffect, UserEffect DEF IdleWhileConnecting
<1> QED
  BY <1>1, <1>2, <1>3 DEF Next

(* The owner's thread is the only one whose close is still to come.        *)
LEMMA CountStep ==
    ASSUME TypeOK, IdleWhileConnecting, HandlersCounted, [Next]_vars
    PROVE  HandlersCounted'
<1>1. /\ opens \in Nat /\ fails \in Nat /\ closes \in Nat
      /\ m_state \in {"connecting", "open", "closing", "closed"}
      /\ thread \in [Threads -> {"idle", "admitted", "closing", "framing"}]
      /\ m_is_server \in BOOLEAN
      /\ Owner \in Threads
  BY WsConnectionAssumption DEF TypeOK
<1>2. CASE StateKept
  BY <1>2 DEF StateKept, OwnerUnchanged, handlers, HandlersCounted, CallsToCome
<1>3. CASE StateOpens
  <2>1. thread[Owner] = "idle" /\ opens = 0 /\ fails = 0
    BY <1>1, <1>3 DEF StateOpens, IdleWhileConnecting, HandlersCounted
  <2>2. closes = 0
    BY <1>1, <2>1 DEF HandlersCounted, CallsToCome
  <2> QED
    BY <1>1, <1>3, <2>1, <2>2
    DEF StateOpens, OwnerUnchanged, HandlersCounted, CallsToCome
<1>4. CASE StateCloses
  BY <1>1, <1>4
  DEF StateCloses, OwnerUnchanged, handlers, HandlersCounted, CallsToCome
<1>5. CASE StateEnds
  <2>1. /\ m_state' = "closed"
        /\ UNCHANGED <<m_is_server, thread, opens>>
    BY <1>5 DEF StateEnds, OwnerUnchanged
  <2>2. CASE m_state = "connecting"
    <3>1. opens = 0 /\ fails = 0
      BY <1>1, <2>2 DEF HandlersCounted
    <3>2. thread[Owner] \notin {"closing", "framing"}
      BY <3>1 DEF HandlersCounted
    <3>3. closes = 0
      <4>1. CallsToCome = 0
        BY <2>2, <3>2 DEF CallsToCome
      <4>2. closes + CallsToCome <= 0
        BY <3>1 DEF HandlersCounted
      <4> QED
        BY <1>1, <4>1, <4>2
    <3>4. closes' = 0 /\ fails' \in {0, 1}
      BY <1>5, <2>2, <3>1, <3>3 DEF StateEnds
    <3>5. CallsToCome' = 0
      BY <2>1, <3>2 DEF CallsToCome
    <3>6. closes' + CallsToCome' <= (IF m_is_server' THEN 1 ELSE 2) * opens'
      BY <2>1, <3>1, <3>4, <3>5
    <3>7. opens' + fails' <= 1
      <4>1. opens' = 0
        BY <2>1, <3>1
      <4>2. fails' = 0 \/ fails' = 1
        BY <3>4
      <4> QED
        BY <4>1, <4>2
    <3>8. m_is_server' => thread'[Owner] \notin {"closing", "framing"}
      BY <2>1, <3>2
    <3> QED
      BY <2>1, <3>2, <3>6, <3>7, <3>8 DEF HandlersCounted
  <2>3. CASE m_state # "connecting"
    <3>1. UNCHANGED fails
      BY <1>5, <2>3 DEF StateEnds
    <3>2. closes' + CallsToCome' = closes + CallsToCome
      BY <1>1, <1>5, <2>1, <2>3 DEF StateEnds, CallsToCome
    <3> QED
      BY <2>1, <3>1, <3>2 DEF HandlersCounted
  <2> QED
    BY <2>2, <2>3
<1>6. CASE User
  <2>1. UNCHANGED <<m_is_server, opens, fails, closes>>
    BY <1>6, UserEffect DEF handlers
  <2>2. ASSUME NEW t \in Threads, send_check(t) \/ send_push(t)
        PROVE  HandlersCounted'
    <3>1. /\ UNCHANGED m_state
          /\ thread[Owner] \in {"closing", "framing"}
               => thread'[Owner] = thread[Owner]
          /\ thread[Owner] \notin {"closing", "framing"}
               => thread'[Owner] \notin {"closing", "framing"}
      BY <1>1, <2>2 DEF send_check, send_push
    <3> QED
      BY <1>1, <2>1, <3>1 DEF HandlersCounted, CallsToCome
  <2>3. CASE close_check
    <3>1. /\ ~m_is_server /\ m_state = "open" /\ UNCHANGED m_state
          /\ thread[Owner] = "idle" /\ thread'[Owner] = "closing"
      BY <1>1, <2>3 DEF close_check
    <3> QED
      BY <1>1, <2>1, <3>1 DEF HandlersCounted, CallsToCome
  <2>4. CASE close_state
    <3>1. /\ m_state' = "closing"
          /\ thread[Owner] = "closing" /\ thread'[Owner] = "framing"
      BY <1>1, <2>4 DEF close_state
    <3> QED
      BY <1>1, <2>1, <3>1 DEF HandlersCounted, CallsToCome
  <2>5. CASE close_frame
    <3>1. /\ UNCHANGED m_state
          /\ thread[Owner] = "framing" /\ thread'[Owner] = "idle"
      BY <1>1, <2>5 DEF close_frame
    <3> QED
      BY <1>1, <2>1, <3>1 DEF HandlersCounted, CallsToCome
  <2> QED
    BY <1>6, <2>2, <2>3, <2>4, <2>5 DEF User
<1>7. CASE UNCHANGED vars
  BY <1>2, <1>7 DEF vars, users, handlers, StateKept, OwnerUnchanged
<1> QED
  BY <1>2, <1>3, <1>4, <1>5, <1>6, <1>7, HandshakeEffect, ReadEffect,
     WriteEffect
  DEF Next

WritingInv == FlagOwned /\ NoLostWakeup /\ TerminalLast /\ NothingAfterAck

(* Who is responsible for the queue, and that nothing follows a terminal   *)
(* frame.                                                                  *)
LEMMA WritingStep ==
    ASSUME TypeOK, IdleWhileConnecting, WritingInv, [Next]_vars
    PROVE  WritingInv'
<1>1. /\ posted \in Nat
      /\ m_send_queue \in Seq(Messages)
      /\ m_current_msgs \in Seq(Messages)
      /\ wire \in Seq(Messages)
  BY DEF TypeOK
<1>2. ASSUME NobodyWrites, UNCHANGED writing PROVE WritingInv'
  BY <1>2
  DEF NobodyWrites, writing, WritingInv, FlagOwned, NoLostWakeup,
      TerminalLast, NothingAfterAck, Has
<1>3. ASSUME NobodyWrites, NEW f \in Messages, push(f) PROVE WritingInv'
  <2>1. UNCHANGED <<m_current_msgs, m_write_flag, wire>>
    BY <1>3 DEF push
  <2>2. FlagOwned' /\ TerminalLast' /\ NothingAfterAck'
    BY <1>3, <2>1
    DEF NobodyWrites, WritingInv, FlagOwned, TerminalLast, NothingAfterAck, Has
  <2>3. NoLostWakeup'
    <3>1. CASE m_write_flag
      BY <1>3, <3>1 DEF NobodyWrites, WritingInv, FlagOwned, NoLostWakeup
    <3>2. CASE ~m_write_flag
      <4>1. posted' = posted + 1
        BY <1>3, <3>2 DEF push
      <4>2. posted' > 0
        BY <1>1, <4>1
      <4> QED
        BY <4>2 DEF NoLostWakeup
    <3> QED
      BY <3>1, <3>2
  <2> QED
    BY <2>2, <2>3 DEF WritingInv
<1>4. CASE write_frame
  <2>1. UNCHANGED <<wire, shut>>
    BY <1>4 DEF write_frame
  <2>2. NothingAfterAck' /\ (Has(wire, IsTerminal) => shut)'
    BY <2>1 DEF WritingInv, NothingAfterAck, TerminalLast, Has
  <2>3. CASE m_write_flag \/ m_send_queue = <<>>
    <3>1. UNCHANGED <<m_send_queue, m_current_msgs, m_write_flag, pending>>
      BY <1>4, <2>3 DEF write_frame
    <3>2. FlagOwned' /\ TerminalLast'
      BY <2>1, <2>2, <3>1 DEF WritingInv, FlagOwned, TerminalLast
    <3>3. NoLostWakeup'
      BY <2>1, <2>3, <3>1 DEF WritingInv, FlagOwned, NoLostWakeup
    <3> QED
      BY <2>2, <3>2, <3>3 DEF WritingInv
  <2>4. CASE ~(m_write_flag \/ m_send_queue = <<>>)
    <3>1. /\ m_current_msgs' = m_current_msgs \o Ready
          /\ m_write_flag' = TRUE
          /\ pending' = pending \cup {"handle_write_frame"}
      BY <1>4, <2>4 DEF write_frame
    <3>2. m_current_msgs = <<>>
      BY <2>4 DEF WritingInv, FlagOwned
    <3>3. /\ Ready \in Seq(Messages) /\ Ready # <<>>
          /\ \A i \in DOMAIN Ready : IsTerminal(Ready[i]) => i = Len(Ready)
      BY <2>4, ReadyTakes
    <3>4. m_current_msgs' = Ready
      BY <3>1, <3>2, <3>3
    <3>5. FlagOwned' /\ NoLostWakeup'
      BY <3>1, <3>3, <3>4 DEF FlagOwned, NoLostWakeup
    <3>6. TerminalLast'
      BY <2>2, <3>3, <3>4 DEF TerminalLast
    <3> QED
      BY <2>2, <3>5, <3>6 DEF WritingInv
  <2> QED
    BY <2>3, <2>4
<1>5. ASSUME NEW ok \in BOOLEAN, handle_write_frame(ok) PROVE WritingInv'
  <2> DEFINE Ends == ~ok \/ IsTerminal(Last(m_current_msgs))
  <2>1. /\ "handle_write_frame" \in pending
        /\ m_write_flag /\ m_current_msgs # <<>>
        /\ m_current_msgs' = <<>>
        /\ wire' = IF ok /\ ~shut THEN wire \o m_current_msgs ELSE wire
        /\ pending' = pending \ {"handle_write_frame"}
        /\ UNCHANGED m_send_queue
    BY <1>5 DEF handle_write_frame, WritingInv, FlagOwned
  <2>2. \A i \in DOMAIN m_current_msgs' :
           IsTerminal(m_current_msgs'[i]) => i = Len(m_current_msgs')
    BY <2>1
  <2>3. NothingAfterAck' /\ (Has(wire', IsTerminal) => shut \/ Ends)
    <3>1. CASE ~(ok /\ ~shut)
      <4>1. wire' = wire
        BY <2>1, <3>1
      <4> QED
        BY <4>1 DEF WritingInv, NothingAfterAck, TerminalLast, Has
    <3>2. CASE ok /\ ~shut
      <4> DEFINE n == Len(wire)
      <4> DEFINE k == Len(m_current_msgs)
      <4>1. wire' = wire \o m_current_msgs
        BY <2>1, <3>2
      <4>2. \A i \in 1..n : ~IsTerminal(wire[i])
        BY <1>1, <3>2 DEF WritingInv, TerminalLast, Has
      <4>3. \A i \in 1..k : IsTerminal(m_current_msgs[i]) => i = k
        BY <1>1 DEF WritingInv, TerminalLast
      <4>4. /\ n \in Nat /\ k \in Nat
            /\ Len(wire') = n + k /\ DOMAIN wire' = 1..(n + k)
            /\ \A i \in 1..n : wire'[i] = wire[i]
            /\ \A i \in (n + 1)..(n + k) : wire'[i] = m_current_msgs[i - n]
        BY <1>1, <4>1
      <4> HIDE DEF n, k
      <4>5. \A i \in 1..(n + k) :
               IsTerminal(wire'[i]) => i = n + k /\ IsTerminal(m_current_msgs[k])
        <5> SUFFICES ASSUME NEW i \in 1..(n + k), IsTerminal(wire'[i])
                     PROVE  i = n + k /\ IsTerminal(m_current_msgs[k])
          OBVIOUS
        <5>1. i \notin 1..n
          BY <4>2, <4>4 DEF IsTerminal
        <5>2. i - n \in 1..k /\ i \in (n + 1)..(n + k)
          BY <4>4, <5>1
        <5>3. IsTerminal(m_current_msgs[i - n])
          BY <4>4, <5>2 DEF IsTerminal
        <5>4. i - n = k
          BY <4>3, <5>2, <5>3
        <5>5. IsTerminal(m_current_msgs[k])
          BY <5>3, <5>4
        <5> QED
          BY <4>4, <5>4, <5>5
      <4>6. IsTerminal(m_current_msgs[k]) => Ends
        BY DEF Last, k
      <4> HIDE DEF Ends
      <4> QED
        BY <4>4, <4>5, <4>6 DEF NothingAfterAck, Has
    <3> QED
      BY <3>1, <3>2
  <2>4. CASE Ends
    <3>1. terminate(FALSE, timers) /\ UNCHANGED <<m_write_flag, posted>>
      BY <1>5, <2>4 DEF handle_write_frame
    <3>2. shut' = TRUE /\ m_write_flag' = m_write_flag
      BY <3>1 DEF terminate
    <3>3. FlagOwned' /\ NoLostWakeup'
      BY <2>1, <3>2 DEF FlagOwned, NoLostWakeup
    <3>4. TerminalLast'
      BY <2>2, <3>2 DEF TerminalLast
    <3> QED
      BY <2>3, <3>3, <3>4 DEF WritingInv
  <2>5. CASE ~Ends
    <3>1. /\ m_write_flag' = FALSE
          /\ posted' = IF m_send_queue # <<>> THEN posted + 1 ELSE posted
          /\ UNCHANGED shut
      BY <1>5, <2>5 DEF handle_write_frame
    <3>2. FlagOwned'
      BY <2>1, <3>1 DEF FlagOwned
    <3>3. NoLostWakeup'
      <4>1. m_send_queue # <<>> => posted' > 0
        BY <1>1, <3>1
      <4> QED
        BY <2>1, <4>1 DEF NoLostWakeup
    <3>4. TerminalLast'
      <4>1. Has(wire', IsTerminal) => shut'
        BY <2>3, <2>5, <3>1
      <4> QED
        BY <2>2, <4>1 DEF TerminalLast
    <3> QED
      BY <2>3, <3>2, <3>3, <3>4 DEF WritingInv
  <2> QED
    BY <2>4, <2>5
<1>6. CASE UNCHANGED vars
  BY <1>2, <1>6 DEF vars, writing, NobodyWrites
<1> QED
  BY <1>2, <1>3, <1>4, <1>5, <1>6, HandshakeEffect, ReadEffect, UserEffect
  DEF Next, Write


(***************************************************************************)
(* What a step does to the frames and to the life of the connection: the   *)
(* socket is shut down by what closes m_state, and a close frame is queued *)
(* when m_state says so.                                                   *)
(***************************************************************************)
FramesKept == UNCHANGED <<wire, m_current_msgs, m_send_queue>>

Stays ==
    /\ FramesKept
    /\ UNCHANGED shut
    /\ m_state' \in {m_state, "closing"}
    /\ m_state = "connecting" => m_state' = "connecting"

Opens ==
    /\ FramesKept
    /\ UNCHANGED shut
    /\ m_state = "connecting" /\ m_state' = "open"

Ends ==
    /\ FramesKept
    /\ shut' = TRUE
    /\ m_state' = "closed"

Queues(f) ==
    /\ UNCHANGED <<wire, m_current_msgs, shut>>
    /\ m_send_queue' = Append(m_send_queue, f)
    /\ m_state # "connecting"
    /\ IF IsClose(f) THEN m_state' \in {"closing", "closed"}
                     ELSE m_state' = m_state

LEMMA StopsLife ==
    ASSUME NEW handler, NEW ok, NEW istate, Stops(handler, ok, istate),
           FramesKept
    PROVE  Stays \/ Ends
  BY DEF Stops, terminate, Stays, Ends

LEMMA HandshakeLife ==
    ASSUME TypeOK, IdleWhileConnecting, Handshake \/ handle_handshake_timeout
    PROVE  Stays \/ Opens \/ Ends
<1>0. FramesKept
  BY HandshakeEffect DEF FramesKept, writing
<1>1. ASSUME NEW ended, NEW armed, terminate(ended, armed) PROVE Ends
  BY <1>0, <1>1 DEF terminate, Ends
<1>2. ASSUME UNCHANGED <<m_state, shut>> PROVE Stays
  BY <1>0, <1>2 DEF Stays
<1>3. ASSUME m_state = "connecting", OpenSession PROVE Opens
  BY <1>0, <1>3 DEF OpenSession, Opens
<1>4. ASSUME NEW ok \in BOOLEAN, start(ok) PROVE Stays \/ Ends
  <2>1. CASE ok
    BY <1>2, <1>4, <2>1 DEF start
  <2>2. CASE ~ok
    <3>1. terminate(FALSE, timers)
      BY <1>4, <2>2 DEF start
    <3> QED
      BY <1>1, <3>1
  <2> QED
    BY <2>1, <2>2
<1>5. ASSUME NEW ok \in BOOLEAN, NEW request, handle_read_handshake(ok, request)
      PROVE  Stays \/ Ends
  BY <1>0, <1>2, <1>5, StopsLife DEF handle_read_handshake
<1>6. ASSUME NEW ok \in BOOLEAN, handle_write_http_response(ok)
      PROVE  Stays \/ Opens \/ Ends
  <2>1. CASE Stops("handle_write_http_response", ok, "PROCESS_HTTP_REQUEST")
    BY <1>0, <2>1, StopsLife
  <2>2. CASE OpenSession /\ m_state = "connecting"
    BY <1>3, <2>2
  <2>3. CASE terminate(m_response = "http", timers)
    BY <1>1, <2>3
  <2> QED
    BY <1>6, <2>1, <2>2, <2>3 DEF handle_write_http_response, Proceeds
<1>7. ASSUME NEW ok \in BOOLEAN, handle_send_http_request(ok)
      PROVE  Stays \/ Ends
  BY <1>0, <1>2, <1>7, StopsLife DEF handle_send_http_request
<1>8. ASSUME NEW ok \in BOOLEAN, NEW valid \in BOOLEAN,
             handle_read_http_response(ok, valid)
      PROVE  Stays \/ Opens \/ Ends
  <2>1. CASE Stops("handle_read_http_response", ok, "READ_HTTP_RESPONSE")
    BY <1>0, <2>1, StopsLife
  <2>2. CASE OpenSession /\ m_state = "connecting"
    BY <1>3, <2>2
  <2>3. CASE terminate(FALSE, timers)
    BY <1>1, <2>3
  <2> QED
    BY <1>8, <2>1, <2>2, <2>3 DEF handle_read_http_response, Proceeds
<1>9. ASSUME handle_handshake_timeout PROVE Ends
  BY <1>1, <1>9 DEF handle_handshake_timeout
<1> QED
  BY <1>4, <1>5, <1>6, <1>7, <1>8, <1>9 DEF Handshake

LEMMA ReadLife ==
    ASSUME TypeOK, IdleWhileConnecting, Read
    PROVE  Stays \/ Ends \/ \E f \in Messages : Queues(f)
<1>0. m_state # "connecting"
  BY OnlyHandshake
<1>1. ASSUME terminate(FALSE, timers), UNCHANGED writing PROVE Ends
  BY <1>1 DEF terminate, Ends, FramesKept, writing
<1>2. ASSUME UNCHANGED <<m_state, shut>>, UNCHANGED writing PROVE Stays
  BY <1>2 DEF Stays, FramesKept, writing
<1>3. ASSUME NEW ack, NEW terminal \in BOOLEAN, send_close_frame(ack, terminal)
      PROVE  \E f \in Messages : Queues(f)
  <2>1. Queues(CloseFrame(terminal))
    BY <1>0, <1>3 DEF send_close_frame, push, Queues, CloseFrame, IsClose
  <2> QED
    BY <2>1, MessageTypes
<1>4. CASE read_failed
  BY <1>1, <1>2, <1>4 DEF read_failed
<1>5. CASE read_data
  BY <1>2, <1>5 DEF read_data, NothingHappens
<1>6. CASE read_ping
  <2>1. CASE m_state = "open"
    <3>1. Queues(Pong)
      BY <1>0, <1>6, <2>1 DEF read_ping, push, Queues, Pong, IsClose
    <3> QED
      BY <3>1, MessageTypes
  <2>2. CASE m_state # "open"
    BY <1>2, <1>6, <2>2 DEF read_ping, NothingHappens
  <2> QED
    BY <2>1, <2>2
<1>7. ASSUME NEW valid \in BOOLEAN, read_close(valid)
      PROVE  Stays \/ Ends \/ \E f \in Messages : Queues(f)
  <2>1. CASE send_close_ack
    BY <1>3, <2>1 DEF send_close_ack, TypeOK
  <2>2. CASE /\ IF m_is_server
                THEN terminate(FALSE, timers)
                ELSE UNCHANGED <<m_state, shut, timing, handlers>>
             /\ UNCHANGED writing
    <3>1. CASE m_is_server
      BY <1>1, <2>2, <3>1
    <3>2. CASE ~m_is_server
      BY <1>2, <2>2, <3>2
    <3> QED
      BY <3>1, <3>2
  <2>3. CASE NothingHappens
    BY <1>2, <2>3 DEF NothingHappens
  <2> QED
    BY <1>7, <2>1, <2>2, <2>3 DEF read_close
<1>8. CASE read_violation
  <2>1. CASE m_state = "open"
    <3>1. send_close_frame(FALSE, TRUE)
      BY <1>8, <2>1 DEF read_violation
    <3> QED
      BY <1>3, <3>1
  <2>2. CASE m_state # "open"
    BY <1>1, <1>8, <2>2 DEF read_violation
  <2> QED
    BY <2>1, <2>2
<1> QED
  BY <1>4, <1>5, <1>6, <1>7, <1>8 DEF Read

LEMMA UserLife ==
    ASSUME TypeOK, IdleWhileConnecting, IntactWhileOpen, User
    PROVE  Stays \/ \E f \in Messages : Queues(f)
<1>0. m_state # "connecting"
  BY OnlyHandshake
<1>1. ASSUME UNCHANGED <<shut, writing>>, m_state' \in {m_state, "closing"}
      PROVE  Stays
  BY <1>0, <1>1 DEF Stays, FramesKept, writing
<1>2. ASSUME NEW t \in Threads, send_check(t) PROVE Stays
  BY <1>1, <1>2 DEF send_check, UserUnchanged
<1>3. ASSUME NEW t \in Threads, send_push(t)
      PROVE  \E f \in Messages : Queues(f)
  <2>1. Queues([op |-> "data", from |-> t, terminal |-> FALSE])
    BY <1>0, <1>3 DEF send_push, push, UserUnchanged, Queues, IsClose
  <2> QED
    BY <2>1, MessageTypes
<1>4. CASE close_check \/ close_state
  BY <1>1, <1>4 DEF close_check, close_state, UserUnchanged
<1>5. CASE close_frame
  <2>1. Queues(CloseFrame(FALSE))
    BY <1>0, <1>5
    DEF close_frame, push, UserUnchanged, Queues, IsClose, CloseFrame,
        IntactWhileOpen
  <2> QED
    BY <2>1, MessageTypes
<1> QED
  BY <1>2, <1>3, <1>4, <1>5 DEF User

LEMMA LifeStep ==
    ASSUME TypeOK, IdleWhileConnecting, IntactWhileOpen, [Next]_vars
    PROVE  \/ Stays \/ Opens \/ Ends
           \/ \E f \in Messages : Queues(f)
           \/ Write
<1>1. CASE UNCHANGED vars
  BY <1>1 DEF vars, writing, Stays, FramesKept
<1> QED
  BY <1>1, HandshakeLife, ReadLife, UserLife DEF Next

(* write_frame moves frames from the queue to the write, in order.         *)
LEMMA ReadyPrefix ==
    ASSUME TypeOK, m_send_queue # <<>>
    PROVE  Ready \o SubSeq(m_send_queue, Len(Ready) + 1, Len(m_send_queue))
              = m_send_queue
<1> DEFINE first == SelectInSeq(m_send_queue, IsTerminal)
<1>1. m_send_queue \in Seq(Messages)
  BY DEF TypeOK
<1>2. first \in 0..Len(m_send_queue)
  BY <1>1, FirstTerminal
<1>3. Ready = IF first = 0 THEN m_send_queue ELSE SubSeq(m_send_queue, 1, first)
  BY DEF Ready
<1> HIDE DEF first
<1> DEFINE n == Len(Ready)
<1>4. n \in 0..Len(m_send_queue) /\ Ready = SubSeq(m_send_queue, 1, n)
  BY <1>1, <1>2, <1>3
<1> HIDE DEF n
<1>5. SubSeq(m_send_queue, 1, n)
         \o SubSeq(m_send_queue, n + 1, Len(m_send_queue))
      = SubSeq(m_send_queue, 1, Len(m_send_queue))
  <2>1. /\ 1 \in 1..(Len(m_send_queue) + 1)
        /\ n \in (1 - 1)..Len(m_send_queue)
        /\ Len(m_send_queue) \in n..Len(m_send_queue)
    BY <1>1, <1>4
  <2> QED
    BY <1>1, <2>1, ConcatAdjacentSubSeq
<1> QED
  BY <1>1, <1>4, <1>5, SubSeqFull DEF n

LEMMA write_frameKeeps ==
    ASSUME TypeOK, FlagOwned, write_frame
    PROVE  /\ Unwritten' = Unwritten
           /\ UNCHANGED <<m_state, shut, wire>>
<1>1. UNCHANGED <<m_state, shut, wire>>
  BY DEF write_frame
<1>2. CASE m_write_flag \/ m_send_queue = <<>>
  BY <1>1, <1>2 DEF write_frame, Unwritten
<1>3. CASE ~(m_write_flag \/ m_send_queue = <<>>)
  <2>1. /\ m_current_msgs' = m_current_msgs \o Ready
        /\ m_send_queue' =
              SubSeq(m_send_queue, Len(Ready) + 1, Len(m_send_queue))
    BY <1>3 DEF write_frame
  <2>2. m_current_msgs = <<>> /\ m_send_queue \in Seq(Messages)
    BY <1>3 DEF FlagOwned, TypeOK
  <2>3. Ready \in Seq(Messages)
    BY <1>3, ReadyTakes
  <2>4. m_current_msgs' = Ready /\ Unwritten = m_send_queue
    BY <2>1, <2>2, <2>3 DEF Unwritten
  <2> QED
    BY <1>1, <1>3, <2>1, <2>4, ReadyPrefix DEF Unwritten
<1> QED
  BY <1>2, <1>3

(* Close frames in sequences that are put together.                        *)
LEMMA HasClose ==
    ASSUME NEW s \in Seq(Messages), NEW t \in Seq(Messages)
    PROVE  Has(s \o t, IsClose) <=> Has(s, IsClose) \/ Has(t, IsClose)
<1> DEFINE n == Len(s) k == Len(t) st == s \o t
<1>1. /\ n \in Nat /\ k \in Nat
      /\ DOMAIN s = 1..n /\ DOMAIN t = 1..k /\ DOMAIN st = 1..(n + k)
      /\ \A i \in 1..n : st[i] = s[i]
      /\ \A i \in 1..k : st[n + i] = t[i]
      /\ \A i \in (n + 1)..(n + k) : st[i] = t[i - n]
  OBVIOUS
<1> HIDE DEF n, k, st
<1>2. ASSUME NEW i \in DOMAIN st, IsClose(st[i])
      PROVE  Has(s, IsClose) \/ Has(t, IsClose)
  <2>1. CASE i \in 1..n
    BY <1>1, <1>2, <2>1 DEF Has
  <2>2. CASE i \notin 1..n
    <3>1. i - n \in 1..k /\ st[i] = t[i - n]
      BY <1>1, <2>2
    <3> QED
      BY <1>1, <1>2, <3>1 DEF Has
  <2> QED
    BY <2>1, <2>2
<1>3. ASSUME NEW i \in DOMAIN s, IsClose(s[i]) PROVE Has(st, IsClose)
  <2>1. i \in DOMAIN st /\ st[i] = s[i]
    BY <1>1
  <2> QED
    BY <1>3, <2>1 DEF Has
<1>4. ASSUME NEW i \in DOMAIN t, IsClose(t[i]) PROVE Has(st, IsClose)
  <2>1. n + i \in DOMAIN st /\ st[n + i] = t[i]
    BY <1>1
  <2> QED
    BY <1>4, <2>1 DEF Has
<1>5. Has(st, IsClose) => Has(s, IsClose) \/ Has(t, IsClose)
  BY <1>2 DEF Has
<1>6. Has(s, IsClose) \/ Has(t, IsClose) => Has(st, IsClose)
  <2>1. Has(s, IsClose) => Has(st, IsClose)
    BY <1>3 DEF Has
  <2>2. Has(t, IsClose) => Has(st, IsClose)
    BY <1>4 DEF Has
  <2> QED
    BY <2>1, <2>2
<1> QED
  BY <1>5, <1>6 DEF st

LEMMA HasOne ==
    ASSUME NEW f \in Messages
    PROVE  <<f>> \in Seq(Messages) /\ (Has(<<f>>, IsClose) <=> IsClose(f))
  BY DEF Has

LEMMA QueuesUnwritten ==
    ASSUME TypeOK, NEW f \in Messages, Queues(f)
    PROVE  Unwritten \in Seq(Messages) /\ Unwritten' = Unwritten \o <<f>>
<1>1. m_current_msgs \in Seq(Messages) /\ m_send_queue \in Seq(Messages)
  BY DEF TypeOK
<1>2. m_current_msgs' = m_current_msgs /\ m_send_queue' = m_send_queue \o <<f>>
  BY <1>1 DEF Queues
<1> QED
  BY <1>1, <1>2, HasOne, ConcatAssociative DEF Unwritten

LEMMA FramingStep ==
    ASSUME TypeOK, [Next]_vars,
           thread'[Owner] = "framing", thread[Owner] # "framing"
    PROVE  m_state' = "closing"
<1>1. CASE UNCHANGED users
  BY <1>1 DEF users
<1>2. CASE User
  <2>1. thread \in [Threads -> {"idle", "admitted", "closing", "framing"}]
    BY DEF TypeOK
  <2> QED
    BY <1>2, <2>1, WsConnectionAssumption
    DEF User, send_check, send_push, close_check, close_state, close_frame
<1>3. UNCHANGED users \/ User
  BY DEF Next, vars, Handshake, start, handle_read_handshake,
      handle_write_http_response, handle_send_http_request,
      handle_read_http_response, HandshakeUnchanged, handle_handshake_timeout,
      Read, read_failed, read_data, read_ping, read_close, read_violation,
      FrameRead, Write, write_frame, handle_write_frame, WriteUnchanged
<1> QED
  BY <1>1, <1>2, <1>3

LEMMA handle_write_frameParts ==
    ASSUME TypeOK, NEW ok \in BOOLEAN, handle_write_frame(ok)
    PROVE  /\ "handle_write_frame" \in pending
           /\ m_current_msgs' = <<>> /\ UNCHANGED m_send_queue
           /\ wire' = IF ok /\ ~shut THEN wire \o m_current_msgs ELSE wire
           /\ IF ~ok \/ IsTerminal(Last(m_current_msgs))
              THEN m_state' = "closed" /\ shut' = TRUE
              ELSE UNCHANGED <<m_state, shut>>
           /\ Unwritten' = m_send_queue
<1>1. m_send_queue \in Seq(Messages)
  BY DEF TypeOK
<1>2. m_current_msgs' = <<>> /\ UNCHANGED m_send_queue
  BY DEF handle_write_frame
<1>3. Unwritten' = m_send_queue
  BY <1>1, <1>2 DEF Unwritten
<1> QED
  BY <1>2, <1>3 DEF handle_write_frame, terminate

LEMMA IntactStep ==
    ASSUME TypeOK, IdleWhileConnecting, FlagOwned, IntactWhileOpen, [Next]_vars
    PROVE  IntactWhileOpen'
<1> DEFINE Intact(state) ==
      state \in {"connecting", "open"} =>
         ~shut' /\ ~Has(wire', IsClose) /\ ~Has(Unwritten', IsClose)
<1>0. /\ wire \in Seq(Messages) /\ Unwritten \in Seq(Messages)
      /\ m_current_msgs \in Seq(Messages) /\ m_send_queue \in Seq(Messages)
      /\ m_state \in {"connecting", "open", "closing", "closed"}
  BY DEF TypeOK, Unwritten
<1> DEFINE Good ==
      /\ Intact(m_state')
      /\ m_state' = "connecting" => wire' = <<>>
      /\ m_state \in {"closing", "closed"} => m_state' \in {"closing", "closed"}
<1>1. ASSUME Stays PROVE Good
  <2>1. wire' = wire /\ Unwritten' = Unwritten /\ shut' = shut
    BY <1>1 DEF Stays, FramesKept, Unwritten
  <2> QED
    BY <1>1, <2>1 DEF Stays, IntactWhileOpen
<1>2. ASSUME Opens PROVE Good
  <2>1. wire' = wire /\ Unwritten' = Unwritten /\ shut' = shut
    BY <1>2 DEF Opens, FramesKept, Unwritten
  <2> QED
    BY <1>2, <2>1 DEF Opens, IntactWhileOpen
<1>3. ASSUME Ends PROVE Good
  BY <1>3 DEF Ends
<1>4. ASSUME NEW f \in Messages, Queues(f) PROVE Good
  <2>1. wire' = wire /\ shut' = shut /\ Unwritten' = Unwritten \o <<f>>
    BY <1>4, QueuesUnwritten DEF Queues
  <2>2. CASE IsClose(f)
    BY <1>4, <2>2 DEF Queues
  <2>3. CASE ~IsClose(f)
    <3>1. Has(Unwritten', IsClose) <=> Has(Unwritten, IsClose)
      BY <1>0, <2>1, <2>3, HasOne, HasClose
    <3> QED
      BY <1>4, <2>1, <2>3, <3>1 DEF Queues, IntactWhileOpen
  <2> QED
    BY <2>2, <2>3
<1>5. ASSUME write_frame PROVE Good
  BY <1>5, write_frameKeeps DEF IntactWhileOpen
<1>6. ASSUME NEW ok \in BOOLEAN, handle_write_frame(ok) PROVE Good
  <2>1. CASE ~ok \/ IsTerminal(Last(m_current_msgs))
    BY <1>6, <2>1, handle_write_frameParts
  <2>2. CASE ~(~ok \/ IsTerminal(Last(m_current_msgs)))
    <3>1. /\ UNCHANGED <<m_state, shut>> /\ Unwritten' = m_send_queue
          /\ wire' = wire \/ wire' = wire \o m_current_msgs
      BY <1>6, <2>2, handle_write_frameParts
    <3>2. m_state # "connecting"
      BY <1>6, OnlyHandshake DEF Write
    <3>3. Has(Unwritten, IsClose) <=>
             Has(m_current_msgs, IsClose) \/ Has(m_send_queue, IsClose)
      BY <1>0, HasClose DEF Unwritten
    <3>4. Has(wire', IsClose) => Has(wire, IsClose) \/ Has(m_current_msgs, IsClose)
      BY <1>0, <3>1, HasClose
    <3> HIDE DEF Intact
    <3>5. Intact(m_state')
      BY <3>1, <3>3, <3>4 DEF Intact, IntactWhileOpen
    <3> QED
      BY <3>1, <3>2, <3>5
  <2> QED
    BY <2>1, <2>2
<1> HIDE DEF Good
<1>7. Good
  BY <1>1, <1>2, <1>3, <1>4, <1>5, <1>6, LifeStep DEF Write
<1>8. thread'[Owner] = "framing" => m_state' \in {"closing", "closed"}
  BY <1>7, FramingStep DEF Good, IntactWhileOpen
<1> QED
  BY <1>7, <1>8 DEF Good, IntactWhileOpen
-----------------------------------------------------------------------------
(***************************************************************************)
(* Theorems.                                                               *)
(***************************************************************************)
LEMMA InitInvariant == Init => IInv
<1> SUFFICES ASSUME Init PROVE IInv
  OBVIOUS
<1>1. IdleWhileConnecting /\ FlagOwned /\ NoLostWakeup
  BY DEF Init, IdleWhileConnecting, FlagOwned, NoLostWakeup
<1>2. HandlersCounted
  BY WsConnectionAssumption DEF Init, HandlersCounted, CallsToCome
<1>3. TerminalLast /\ NothingAfterAck
  BY DEF Init, TerminalLast, NothingAfterAck, Has
<1>4. IntactWhileOpen
  BY WsConnectionAssumption DEF Init, IntactWhileOpen, Unwritten, Has
<1> QED
  BY <1>1, <1>2, <1>3, <1>4, InitTypeOK DEF IInv

LEMMA InvariantStep == IInv /\ [Next]_vars => IInv'
<1> SUFFICES ASSUME IInv, [Next]_vars PROVE IInv'
  OBVIOUS
<1>1. TypeOK' /\ IdleWhileConnecting'
  BY TypeStep, IdleStep DEF IInv
<1>2. HandlersCounted'
  BY CountStep DEF IInv
<1>3. WritingInv'
  BY WritingStep DEF IInv, WritingInv
<1>4. IntactWhileOpen'
  BY IntactStep DEF IInv
<1> QED
  BY <1>1, <1>2, <1>3, <1>4 DEF IInv, WritingInv

(* The inductive invariant holds of every reachable state.                 *)
THEOREM Invariance == Spec => []IInv
  BY InitInvariant, InvariantStep, PTL DEF Spec

(* Type correctness: no timer is cancelled, no write_frame run that was not*)
(* there.                                                                  *)
THEOREM TypeCorrect == Spec => []TypeOK
<1>1. IInv => TypeOK
  BY DEF IInv
<1> QED
  BY <1>1, Invariance, PTL

(* terminate and close: a server calls the close handler at most once, a   *)
(* client, whose close races with the end of the connection, twice.        *)
THEOREM HandlersCalledOnce == Spec => []HandlersOnce
<1>1. IInv => HandlersOnce
  <2> SUFFICES ASSUME IInv PROVE HandlersOnce
    OBVIOUS
  <2>1. /\ opens \in Nat /\ fails \in Nat /\ closes \in Nat
        /\ CallsToCome \in Nat
        /\ opens + fails <= 1
        /\ closes + CallsToCome <= (IF m_is_server THEN 1 ELSE 2) * opens
    BY DEF IInv, TypeOK, HandlersCounted, CallsToCome
  <2>2. opens \in {0, 1}
    BY <2>1
  <2>3. CASE m_is_server
    BY <2>1, <2>2, <2>3 DEF HandlersOnce
  <2>4. CASE ~m_is_server
    BY <2>1, <2>2, <2>4 DEF HandlersOnce
  <2> QED
    BY <2>3, <2>4
<1> QED
  BY <1>1, Invariance, PTL

(* send, write_frame and handle_write_frame: a frame that is queued on a   *)
(* connection has somebody who will write it.                              *)
THEOREM QueueIsNoticed == Spec => []NoLostWakeup
<1>1. IInv => NoLostWakeup
  BY DEF IInv
<1> QED
  BY <1>1, Invariance, PTL

(* write_frame: nothing is written after a terminal frame.                 *)
THEOREM AckIsLast == Spec => []NothingAfterAck
<1>1. IInv => NothingAfterAck
  BY DEF IInv
<1> QED
  BY <1>1, Invariance, PTL
=============================================================================
