---------------------------- MODULE WsConnection ----------------------------
(***************************************************************************)
(* One websocketpp connection (websocketpp/impl/connection_impl.hpp), on   *)
(* the side of a server or of a client.  Its handlers run on the thread of *)
(* the io_service; other threads call send and, on a client, close.        *)
(*                                                                         *)
(* send checks m_state under m_connection_state_lock and queues the frame  *)
(* after it gave the lock back; close holds it throughout; the handlers    *)
(* that close or terminate the connection do not take it.                  *)
(*                                                                         *)
(* Frames are what is distinguished of them: data of a thread, pongs and   *)
(* close frames, and whether a frame is the last (terminal).  The requests *)
(* and responses of the opening handshake are their verdict.               *)
(***************************************************************************)
EXTENDS Integers, Sequences, SequencesExt

CONSTANTS
    Threads,    \* the threads other than the io_service's
    Owner,      \* the only one that uses the connections of a client
    MaxSends,   \* bound on the calls of send
    MaxFrames   \* bound on the frames the peer sends

ASSUME WsConnectionAssumption ==
    /\ Owner \in Threads
    /\ MaxSends \in Nat
    /\ MaxFrames \in Nat

VARIABLES
    m_is_server,
    m_state,            \* "connecting", "open", "closing" or "closed"
    m_internal_state,
    m_was_clean,
    m_response,         \* the verdict on the HTTP request
    m_handshake_timer,  \* a timer is set
    m_send_queue,
    m_current_msgs,
    m_write_flag,
    pending,            \* completion handlers of reads and writes under way
    posted,             \* calls of write_frame posted to the io_service
    timers,             \* timers that were not cancelled in time
    shut,               \* the socket was shut down
    thread,             \* what each thread is doing
    sends,              \* calls of send so far
    frames,             \* frames read so far
    wire,               \* the frames that were written
    opens, fails, closes    \* calls of the user's handlers

handshake == <<m_internal_state, m_response>>
timing == <<m_handshake_timer, timers>>
writing == <<m_send_queue, m_current_msgs, m_write_flag, posted, wire>>
users == <<thread, sends>>
handlers == <<opens, fails, closes>>
vars == <<m_is_server, m_state, m_was_clean, pending, shut, frames,
          handshake, timing, writing, users, handlers>>

DataFrames == [op : {"data"}, from : Threads, terminal : {FALSE}]
Pong == [op |-> "pong", terminal |-> FALSE]
CloseFrame(terminal) == [op |-> "close", terminal |-> terminal]
Messages == DataFrames \cup {Pong} \cup {CloseFrame(b) : b \in BOOLEAN}

IsClose(f) == f.op = "close"
IsTerminal(f) == f.terminal
Has(s, Test(_)) == \E i \in DOMAIN s : Test(s[i])

Handshakes ==
    {"handle_read_handshake", "handle_write_http_response",
     "handle_send_http_request", "handle_read_http_response"}

TypeOK ==
    /\ m_is_server \in BOOLEAN
    /\ m_state \in {"connecting", "open", "closing", "closed"}
    /\ m_internal_state \in
          {"USER_INIT", "READ_HTTP_REQUEST", "PROCESS_HTTP_REQUEST",
           "WRITE_HTTP_REQUEST", "READ_HTTP_RESPONSE", "PROCESS_CONNECTION"}
    /\ m_response \in {"none", "websocket", "refused", "http"}
    /\ m_was_clean \in BOOLEAN
    /\ m_handshake_timer \in BOOLEAN
    /\ m_send_queue \in Seq(Messages)
    /\ m_current_msgs \in Seq(Messages)
    /\ m_write_flag \in BOOLEAN
    /\ pending \subseteq
          Handshakes \cup {"handle_read_frame", "handle_write_frame"}
    /\ posted \in Nat
    /\ timers \in Nat
    /\ shut \in BOOLEAN
    /\ thread \in [Threads -> {"idle", "admitted", "closing", "framing"}]
    /\ sends \in 0..MaxSends
    /\ frames \in 0..MaxFrames
    /\ wire \in Seq(Messages)
    /\ opens \in Nat
    /\ fails \in Nat
    /\ closes \in Nat

Init ==
    /\ m_is_server \in BOOLEAN
    /\ m_state = "connecting"
    /\ m_internal_state = "USER_INIT"
    /\ m_response = "none"
    /\ m_was_clean = FALSE
    /\ m_handshake_timer = FALSE
    /\ m_send_queue = <<>>
    /\ m_current_msgs = <<>>
    /\ m_write_flag = FALSE
    /\ pending = {}
    /\ posted = 0
    /\ timers = 0
    /\ shut = FALSE
    /\ thread = [t \in Threads |-> "idle"]
    /\ sends = 0
    /\ frames = 0
    /\ wire = <<>>
    /\ opens = 0
    /\ fails = 0
    /\ closes = 0

(* m_connection_state_lock is held across steps by close only. *)
StateLockFree == \A t \in Threads : thread[t] \notin {"closing", "framing"}

-----------------------------------------------------------------------------
(* Parts of the handlers *)

set_timer ==
    /\ m_handshake_timer' = TRUE
    /\ timers' = timers + 1

(* Mutant of CancelledOf: a timer is cancelled although none is set.       *)
CancelledOf_unset(armed) == {armed, armed - 1}

(* cancel() of the timer that is set comes too late if it already expired *)
(* and its handler waits in the io_service; "armed" are the others and it.*)
CancelledOf(armed) ==
    IF m_handshake_timer /\ armed > 0 THEN {armed, armed - 1} ELSE {armed}

cancel_timer(armed) ==
    /\ m_handshake_timer' = FALSE
    /\ timers' \in CancelledOf(armed)

(* Mutant of terminate: one that comes late calls the close handler again. *)
terminate_again(ended, armed) ==
    /\ cancel_timer(armed)
    /\ m_state' = "closed"
    /\ shut' = TRUE
    /\ fails' = IF m_state = "connecting" /\ ~ended THEN fails + 1 ELSE fails
    /\ closes' = IF m_state # "connecting" THEN closes + 1 ELSE closes
    /\ UNCHANGED opens

(* terminate and handle_terminate, which async_shutdown calls at once.  An *)
(* "ended" connection was plain HTTP: no handler is called for it.         *)
terminate(ended, armed) ==
    /\ cancel_timer(armed)
    /\ m_state' = "closed"
    /\ shut' = TRUE
    /\ fails' = IF m_state = "connecting" /\ ~ended THEN fails + 1 ELSE fails
    /\ closes' = IF m_state \in {"open", "closing"} THEN closes + 1 ELSE closes
    /\ UNCHANGED opens

(* write_push, and the post of write_frame that follows it. *)
push(f) ==
    /\ m_send_queue' = Append(m_send_queue, f)
    /\ posted' = IF m_write_flag THEN posted ELSE posted + 1
    /\ UNCHANGED <<m_current_msgs, m_write_flag, wire>>

(* Mutant of send_close_frame: no timer for the answer.                    *)
send_close_frame_untimed(ack, terminal) ==
    /\ m_state' = "closing"
    /\ m_was_clean' = (ack \/ m_was_clean)
    /\ push(CloseFrame(terminal))
    /\ UNCHANGED <<shut, timing, handlers>>

send_close_frame(ack, terminal) ==
    /\ m_state' = "closing"
    /\ m_was_clean' = (ack \/ m_was_clean)
    /\ set_timer
    /\ push(CloseFrame(terminal))
    /\ UNCHANGED <<shut, handlers>>

send_close_ack == send_close_frame(TRUE, m_is_server)

(* The end of the opening handshake: the open handler is called and the    *)
(* first read is issued.                                                   *)
OpenSession ==
    /\ m_internal_state' = "PROCESS_CONNECTION"
    /\ m_state' = "open"
    /\ opens' = opens + 1
    /\ pending' = (pending \ Handshakes) \cup {"handle_read_frame"}
    /\ cancel_timer(timers)
    /\ UNCHANGED <<shut, fails, closes>>

-----------------------------------------------------------------------------
(* The opening handshake *)

(* Mutant of start: no timer for the opening handshake.                    *)
start_untimed(ok) ==
    /\ ok
    /\ m_state = "connecting"
    /\ m_internal_state = "USER_INIT"
    /\ m_internal_state' =
          IF m_is_server THEN "READ_HTTP_REQUEST" ELSE "WRITE_HTTP_REQUEST"
    /\ pending' =
          {IF m_is_server THEN "handle_read_handshake"
           ELSE "handle_send_http_request"}
    /\ UNCHANGED <<m_is_server, m_state, m_was_clean, m_response, shut, frames,
                   timing, writing, users, handlers>>

(* handle_accept and handle_connect: a transport that failed terminates    *)
(* the connection, another one starts it.                                  *)
start(ok) ==
    /\ m_state = "connecting"
    /\ m_internal_state = "USER_INIT"
    /\ \/ /\ ok
          /\ m_internal_state' =
                IF m_is_server THEN "READ_HTTP_REQUEST"
                ELSE "WRITE_HTTP_REQUEST"
          /\ pending' =
                {IF m_is_server THEN "handle_read_handshake"
                 ELSE "handle_send_http_request"}
          /\ set_timer
          /\ UNCHANGED <<m_state, shut, handlers>>
       \/ /\ ~ok
          /\ terminate(FALSE, timers)
          /\ UNCHANGED <<m_internal_state, pending>>
    /\ UNCHANGED <<m_is_server, m_was_clean, m_response, frames, writing,
                   users>>

(* How each of the four handlers below begins: it goes on if the connection*)
(* is connecting and where the handler belongs, has nothing to do if it is *)
(* closed, and terminates it otherwise, as it may after an error.          *)
Proceeds(handler, ok, istate) ==
    /\ handler \in pending
    /\ ok
    /\ m_state = "connecting"
    /\ m_internal_state = istate

Stops(handler, ok, istate) ==
    /\ handler \in pending
    /\ ~Proceeds(handler, ok, istate)
    /\ pending' = pending \ {handler}
    /\ \/ /\ m_state = "closed"
          /\ UNCHANGED <<m_state, shut, timing, handlers>>
       \/ /\ ~(ok /\ m_state = "closed")
          /\ terminate(FALSE, timers)
    /\ UNCHANGED handshake

HandshakeUnchanged ==
    UNCHANGED <<m_is_server, m_was_clean, frames, writing, users>>

handle_read_handshake(ok, request) ==
    /\ LET handler == "handle_read_handshake"
           istate == "READ_HTTP_REQUEST"
       IN \/ Stops(handler, ok, istate)
          \/ /\ Proceeds(handler, ok, istate)
             /\ m_internal_state' = "PROCESS_HTTP_REQUEST"
             /\ m_response' = request
             /\ pending' = (pending \ {handler})
                             \cup {"handle_write_http_response"}
             /\ UNCHANGED <<m_state, shut, timing, handlers>>
    /\ HandshakeUnchanged

handle_write_http_response(ok) ==
    /\ LET handler == "handle_write_http_response"
           istate == "PROCESS_HTTP_REQUEST"
       IN \/ Stops(handler, ok, istate)
          \/ /\ Proceeds(handler, ok, istate)
             /\ m_response = "websocket"
             /\ OpenSession
             /\ UNCHANGED m_response
          \/ /\ Proceeds(handler, ok, istate)
             /\ m_response # "websocket"
             /\ pending' = pending \ {handler}
             /\ terminate(m_response = "http", timers)
             /\ UNCHANGED handshake
    /\ HandshakeUnchanged

handle_send_http_request(ok) ==
    /\ LET handler == "handle_send_http_request"
           istate == "WRITE_HTTP_REQUEST"
       IN \/ Stops(handler, ok, istate)
          \/ /\ Proceeds(handler, ok, istate)
             /\ m_internal_state' = "READ_HTTP_RESPONSE"
             /\ pending' = (pending \ {handler})
                             \cup {"handle_read_http_response"}
             /\ UNCHANGED <<m_response, m_state, shut, timing, handlers>>
    /\ HandshakeUnchanged

handle_read_http_response(ok, valid) ==
    /\ LET handler == "handle_read_http_response"
           istate == "READ_HTTP_RESPONSE"
       IN \/ Stops(handler, ok, istate)
          \/ /\ Proceeds(handler, ok, istate)
             /\ valid
             /\ OpenSession
             /\ UNCHANGED m_response
          \/ /\ Proceeds(handler, ok, istate)
             /\ ~valid
             /\ pending' = pending \ {handler}
             /\ terminate(FALSE, timers)
             /\ UNCHANGED handshake
    /\ HandshakeUnchanged

(* handle_open_handshake_timeout and handle_close_handshake_timeout *)
handle_handshake_timeout ==
    /\ timers > 0
    /\ terminate(FALSE, timers - 1)
    /\ UNCHANGED <<m_is_server, m_was_clean, pending, frames, handshake,
                   writing, users>>

-----------------------------------------------------------------------------
(* Reading *)

(* A read that fails ends the connection, on a closing client because it is*)
(* expected.  A closed connection ignores it, or, depending on the error,  *)
(* calls terminate once more.                                              *)
read_failed ==
    /\ "handle_read_frame" \in pending
    /\ pending' = pending \ {"handle_read_frame"}
    /\ \/ /\ m_state = "closed"
          /\ UNCHANGED <<m_state, shut, timing, handlers>>
       \/ terminate(FALSE, timers)
    /\ UNCHANGED <<m_is_server, m_was_clean, frames, handshake, writing,
                   users>>

(* handle_read_frame takes the frames of a read one by one; here each has  *)
(* a step, because nothing but this thread could tell the difference.      *)
FrameRead ==
    /\ "handle_read_frame" \in pending
    /\ frames < MaxFrames
    /\ frames' = frames + 1
    /\ UNCHANGED <<m_is_server, handshake, users>>

NothingHappens ==
    UNCHANGED <<m_state, m_was_clean, shut, timing, writing, handlers>>

(* Data goes to the user's handler if the session is open, else nowhere.   *)
read_data ==
    /\ FrameRead
    /\ NothingHappens
    /\ UNCHANGED pending

(* A ping is answered through pong, which takes the state lock as send.    *)
read_ping ==
    /\ FrameRead
    /\ StateLockFree
    /\ IF m_state = "open"
       THEN /\ push(Pong)
            /\ UNCHANGED <<m_state, m_was_clean, shut, timing, handlers>>
       ELSE NothingHappens
    /\ UNCHANGED pending

(* process_control_frame of a close frame.  One with an invalid code is    *)
(* acknowledged in every state but closed.                                 *)
read_close(valid) ==
    /\ FrameRead
    /\ \/ /\ m_state = "open" \/ (~valid /\ m_state # "closed")
          /\ send_close_ack
       \/ /\ valid
          /\ m_state = "closing"
          /\ ~m_was_clean
          /\ m_was_clean' = TRUE
          /\ IF m_is_server
             THEN terminate(FALSE, timers)
             ELSE UNCHANGED <<m_state, shut, timing, handlers>>
          /\ UNCHANGED writing
       \/ /\ m_state = "closed" \/ (valid /\ m_state = "closing" /\ m_was_clean)
          /\ NothingHappens
    /\ UNCHANGED pending

(* A frame that violates the protocol: close, on this thread, with a       *)
(* terminal frame; terminate if close refuses.  Nothing more is read.      *)
read_violation ==
    /\ FrameRead
    /\ StateLockFree
    /\ pending' = pending \ {"handle_read_frame"}
    /\ IF m_state = "open"
       THEN send_close_frame(FALSE, TRUE)
       ELSE /\ terminate(FALSE, timers)
            /\ UNCHANGED <<m_was_clean, writing>>

-----------------------------------------------------------------------------
(* Writing *)

WriteUnchanged ==
    UNCHANGED <<m_is_server, m_was_clean, frames, handshake, users>>

(* Mutant of Ready: also what is queued behind a terminal frame.           *)
Ready_all == m_send_queue

(* What write_frame takes: everything up to the first terminal frame. *)
Ready ==
    LET last == SelectInSeq(m_send_queue, IsTerminal)
    IN IF last = 0 THEN m_send_queue ELSE SubSeq(m_send_queue, 1, last)

write_frame ==
    /\ posted > 0
    /\ posted' = posted - 1
    /\ IF m_write_flag \/ m_send_queue = <<>>
       THEN UNCHANGED <<m_send_queue, m_current_msgs, m_write_flag, pending>>
       ELSE /\ m_current_msgs' = m_current_msgs \o Ready
            /\ m_send_queue' =
                  SubSeq(m_send_queue, Len(Ready) + 1, Len(m_send_queue))
            /\ m_write_flag' = TRUE
            /\ pending' = pending \cup {"handle_write_frame"}
    /\ UNCHANGED <<m_state, shut, wire, timing, handlers>>
    /\ WriteUnchanged

(* Mutant of handle_write_frame: nobody looks at the queue afterwards.     *)
handle_write_frame_leaving(ok) ==
    /\ "handle_write_frame" \in pending
    /\ pending' = pending \ {"handle_write_frame"}
    /\ m_current_msgs' = <<>>
    /\ wire' = IF ok /\ ~shut THEN wire \o m_current_msgs ELSE wire
    /\ IF ~ok \/ IsTerminal(Last(m_current_msgs))
       THEN /\ terminate(FALSE, timers)
            /\ UNCHANGED m_write_flag
       ELSE /\ m_write_flag' = FALSE
            /\ UNCHANGED <<m_state, shut, timing, handlers>>
    /\ UNCHANGED <<m_send_queue, posted>>
    /\ WriteUnchanged

(* m_write_flag stays set if the write failed or was the last.  What the   *)
(* peer got of a write that ends after the socket was shut down is unknown;*)
(* wire has the frames written before.                                     *)
handle_write_frame(ok) ==
    /\ "handle_write_frame" \in pending
    /\ pending' = pending \ {"handle_write_frame"}
    /\ m_current_msgs' = <<>>
    /\ wire' = IF ok /\ ~shut THEN wire \o m_current_msgs ELSE wire
    /\ IF ~ok \/ IsTerminal(Last(m_current_msgs))
       THEN /\ terminate(FALSE, timers)
            /\ UNCHANGED <<m_write_flag, posted>>
       ELSE /\ m_write_flag' = FALSE
            /\ posted' = IF m_send_queue # <<>> THEN posted + 1 ELSE posted
            /\ UNCHANGED <<m_state, shut, timing, handlers>>
    /\ UNCHANGED m_send_queue
    /\ WriteUnchanged

-----------------------------------------------------------------------------
(* The other threads *)

UserUnchanged ==
    UNCHANGED <<m_is_server, pending, shut, frames, handshake, handlers>>

Senders == IF m_is_server THEN Threads ELSE {Owner}

(* Mutant of send_check: send does not look at the state.                  *)
send_check_unchecked(t) ==
    /\ t \in Senders
    /\ thread[t] = "idle"
    /\ sends < MaxSends
    /\ StateLockFree
    /\ thread' = [thread EXCEPT ![t] = "admitted"]
    /\ sends' = sends + 1
    /\ UNCHANGED <<m_state, m_was_clean, timing, writing>>
    /\ UserUnchanged

(* send: the check, under the state lock *)
send_check(t) ==
    /\ t \in Senders
    /\ thread[t] = "idle"
    /\ sends < MaxSends
    /\ StateLockFree
    /\ m_state = "open"
    /\ thread' = [thread EXCEPT ![t] = "admitted"]
    /\ sends' = sends + 1
    /\ UNCHANGED <<m_state, m_was_clean, timing, writing>>
    /\ UserUnchanged

(* send: the frame is queued, under the write lock *)
send_push(t) ==
    /\ thread[t] = "admitted"
    /\ push([op |-> "data", from |-> t, terminal |-> FALSE])
    /\ thread' = [thread EXCEPT ![t] = "idle"]
    /\ UNCHANGED <<m_state, m_was_clean, timing, sends>>
    /\ UserUnchanged

(* close: takes the state lock and checks *)
close_check ==
    /\ ~m_is_server
    /\ thread[Owner] = "idle"
    /\ m_state = "open"
    /\ thread' = [thread EXCEPT ![Owner] = "closing"]
    /\ UNCHANGED <<m_state, m_was_clean, timing, writing, sends>>
    /\ UserUnchanged

(* close, in send_close_frame: m_state, whatever it has become meanwhile *)
close_state ==
    /\ thread[Owner] = "closing"
    /\ m_state' = "closing"
    /\ thread' = [thread EXCEPT ![Owner] = "framing"]
    /\ UNCHANGED <<m_was_clean, timing, writing, sends>>
    /\ UserUnchanged

(* close, in send_close_frame: the timer and the frame; gives the lock back*)
close_frame ==
    /\ thread[Owner] = "framing"
    /\ set_timer
    /\ push(CloseFrame(FALSE))
    /\ thread' = [thread EXCEPT ![Owner] = "idle"]
    /\ UNCHANGED <<m_state, m_was_clean, sends>>
    /\ UserUnchanged

-----------------------------------------------------------------------------

Handshake ==
    \E ok \in BOOLEAN :
       \/ start(ok)
       \/ \E request \in {"websocket", "refused", "http"} :
             handle_read_handshake(ok, request)
       \/ handle_write_http_response(ok)
       \/ handle_send_http_request(ok)
       \/ \E valid \in BOOLEAN : handle_read_http_response(ok, valid)

Read ==
    \/ read_failed
    \/ read_data
    \/ read_ping
    \/ \E valid \in BOOLEAN : read_close(valid)
    \/ read_violation

Write ==
    \/ write_frame
    \/ \E ok \in BOOLEAN : handle_write_frame(ok)

User ==
    \/ \E t \in Threads : send_check(t) \/ send_push(t)
    \/ close_check
    \/ close_state
    \/ close_frame

Next ==
    \/ Handshake
    \/ handle_handshake_timeout
    \/ Read
    \/ Write
    \/ User

Spec == Init /\ [][Next]_vars

(* Timers expire and the owner's thread goes on; the peer owes nothing. *)
Fairness ==
    /\ WF_vars(handle_handshake_timeout)
    /\ WF_vars(write_frame)
    /\ WF_vars(close_state)
    /\ WF_vars(close_frame)

FairSpec == Spec /\ Fairness

-----------------------------------------------------------------------------
(* Properties *)

(* The user is told of the end once: open or fail, and close only after    *)
(* open.  A close that was checked before the connection terminated        *)
(* revives it, and the close handler of a client is called again; a server,*)
(* whose threads never call close, calls it once (terminate, close).       *)
HandlersOnce ==
    /\ opens + fails <= 1
    /\ closes <= (IF m_is_server THEN 1 ELSE 2) * opens

(* A queued frame has somebody to write it: the write under way, which     *)
(* looks at the queue when it ends, or a posted write_frame.  The queue of *)
(* a connection that ended may be left (send, write_frame,                 *)
(* handle_write_frame, which decide under the write lock and post outside).*)
NoLostWakeup ==
    m_send_queue # <<>> =>
        \/ posted > 0
        \/ "handle_write_frame" \in pending
        \/ shut

(* A server's answer to a close frame is the last frame it writes, although*)
(* other threads may queue theirs behind it (write_frame,                  *)
(* handle_write_frame).                                                    *)
NothingAfterAck ==
    \A i \in DOMAIN wire : IsTerminal(wire[i]) => i = Len(wire)

(* The inductive invariant.  Nothing is queued, posted or under way before *)
(* the session was opened ...                                              *)
IdleWhileConnecting ==
    m_state = "connecting" =>
        /\ pending \subseteq Handshakes
        /\ m_send_queue = <<>>
        /\ ~m_write_flag
        /\ posted = 0
        /\ \A t \in Threads : thread[t] = "idle"

(* ... each state, and each close between its check and its write of       *)
(* m_state, may still lead to one call of the close handler ...            *)
CallsToCome ==
    (IF m_state \in {"open", "closing"} THEN 1 ELSE 0)
        + (IF thread[Owner] = "closing" THEN 1 ELSE 0)

HandlersCounted ==
    /\ opens + fails <= 1
    /\ m_state = "connecting" => opens + fails = 0
    /\ m_state = "open" => closes = 0
    /\ (m_state \in {"open", "closing"}
          \/ thread[Owner] \in {"closing", "framing"}) => opens = 1
    /\ m_is_server => thread[Owner] \notin {"closing", "framing"}
    /\ closes + CallsToCome <= (IF m_is_server THEN 1 ELSE 2) * opens

(* ... m_write_flag says whose the frames in m_current_msgs are.       *)
FlagOwned ==
    /\ "handle_write_frame" \in pending =>
          m_write_flag /\ m_current_msgs # <<>>
    /\ m_write_flag => "handle_write_frame" \in pending \/ shut
    /\ ~m_write_flag => m_current_msgs = <<>>

Unwritten == m_current_msgs \o m_send_queue

(* ... m_state is changed before a close frame is queued, and when the     *)
(* socket is shut down ...                                                 *)
IntactWhileOpen ==
    /\ m_state \in {"connecting", "open"} =>
          ~shut /\ ~Has(wire, IsClose) /\ ~Has(Unwritten, IsClose)
    /\ m_state = "connecting" => wire = <<>>
    /\ thread[Owner] = "framing" => m_state \in {"closing", "closed"}

(* ... and nothing is written with, or after, a terminal frame.            *)
TerminalLast ==
    /\ \A i \in DOMAIN m_current_msgs :
          IsTerminal(m_current_msgs[i]) => i = Len(m_current_msgs)
    /\ Has(wire, IsTerminal) => shut

IInv ==
    /\ TypeOK
    /\ IdleWhileConnecting
    /\ HandlersCounted
    /\ FlagOwned
    /\ IntactWhileOpen
    /\ NoLostWakeup
    /\ TerminalLast
    /\ NothingAfterAck

(* What started connecting is opened, refused or given up: each stage is   *)
(* under the one timer set at the start (read_handshake,                   *)
(* send_http_request, handle_open_handshake_timeout).                      *)
HandshakeEnds ==
    (m_state = "connecting" /\ m_internal_state # "USER_INIT")
        ~> m_state # "connecting"

(* A closing handshake ends although the peer may never answer             *)
(* (send_close_frame, handle_close_handshake_timeout).                     *)
CloseEnds == m_state = "closing" ~> m_state = "closed"

-----------------------------------------------------------------------------
(* The channel that the connection implements *)

BeforeClose(s) ==
    LET first == SelectInSeq(s, IsClose)
    IN IF first = 0 THEN s ELSE SubSeq(s, 1, first - 1)

ChannelSession ==
    IF shut THEN "closed"
    ELSE IF m_state = "connecting" THEN "connecting"
    ELSE IF Has(wire, IsClose) \/ Has(Unwritten, IsClose) THEN "closing"
    ELSE "open"

ChannelQueue ==
    IF shut \/ Has(wire, IsClose) THEN <<>> ELSE BeforeClose(Unwritten)

Channel ==
    INSTANCE MessageChannel WITH
        Messages <- DataFrames \cup {Pong},
        session <- ChannelSession,
        queue <- ChannelQueue,
        written <- BeforeClose(wire)

(* Data and pongs leave in the order in which the threads queued them,     *)
(* none after a close frame counts as sent, none is lost before the        *)
(* connection ends (send, send_close_frame, write_frame,                   *)
(* handle_write_frame).                                                    *)
ImplementsChannel == Channel!Spec
=============================================================================
