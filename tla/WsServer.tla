------------------------------ MODULE WsServer ------------------------------
(***************************************************************************)
(* The server half of websocketpp, as TradingAggregatorServer and          *)
(* TradingBroadcasterServer use it: one io_service thread (m_server.run()) *)
(* that accepts sessions, dispatches their frames and writes their queued  *)
(* messages.  A session is named by its connection_hdl, a weak pointer: it *)
(* locks while the connection object lives and throws once it is gone.     *)
(*                                                                         *)
(* The module has the state of the sessions and the operations on it.  A   *)
(* server module extends it, says on which of its steps each one happens,  *)
(* and adds what its handlers do.                                          *)
(***************************************************************************)
EXTENDS Naturals, Sequences

CONSTANTS
    Handles,        \* the connection_hdls of the sessions consumers open
    NoHandle,       \* the handle of no session
    MaxRequests     \* bound: requests the consumers send between them

ASSUME WsServerAssumption ==
    /\ NoHandle \notin Handles
    /\ MaxRequests \in Nat

VARIABLES
    session,        \* what websocketpp knows of the session of each handle
    inbox,          \* frames a consumer sent and the server has not read
    outbox,         \* connection::m_send_queue, what send() queued
    requests        \* requests sent so far, capped by MaxRequests

wsServerVars == <<session, inbox, outbox, requests>>

(***************************************************************************)
(* "closed": terminate() has run and the close handler is being called.    *)
(* "released": the handler returned and websocketpp dropped its own        *)
(* shared_ptr to the connection.                                           *)
(***************************************************************************)
SessionStates == {"absent", "open", "closing", "closed", "released"}

(* A request on which JSON::Load throws: a number that std::stol, stod or  *)
(* stoll does not convert.                                                 *)
Malformed == [action |-> "malformed"]

CloseFrame == [action |-> "close-frame"]
Eof == [action |-> "eof"]

WsServerInit ==
    /\ session = [h \in Handles |-> "absent"]
    /\ inbox = [h \in Handles |-> <<>>]
    /\ outbox = [h \in Handles |-> <<>>]
    /\ requests = 0

WsServerTypeOK(Request, Message) ==
    /\ session \in [Handles -> SessionStates]
    /\ inbox \in [Handles -> Seq(Request \cup {CloseFrame, Eof})]
    /\ outbox \in [Handles -> Seq(Message)]
    /\ requests \in 0..MaxRequests

-----------------------------------------------------------------------------
(***************************************************************************)
(* What a consumer does on its side of the socket.  The kernel buffers it: *)
(* the server's thread may be anywhere.                                    *)
(***************************************************************************)
HasLeft(h) == \E i \in DOMAIN inbox[h] : inbox[h][i] \in {CloseFrame, Eof}

sendRequest(h, request) ==
    /\ session[h] = "open"
    /\ ~HasLeft(h)
    /\ requests < MaxRequests
    /\ requests' = requests + 1
    /\ inbox' = [inbox EXCEPT ![h] = Append(@, request)]
    /\ UNCHANGED <<session, outbox>>

(* A closing handshake, an orderly end of stream, or a reset that also    *)
(* discards what the server had not read.                                  *)
disconnect(h) ==
    /\ session[h] = "open"
    /\ ~HasLeft(h)
    /\ \E unread \in {Append(inbox[h], CloseFrame), Append(inbox[h], Eof), <<Eof>>} :
          inbox' = [inbox EXCEPT ![h] = unread]
    /\ UNCHANGED <<session, outbox, requests>>

-----------------------------------------------------------------------------
(***************************************************************************)
(* What the io_service does between two handlers.                          *)
(***************************************************************************)
accept(h) ==
    /\ session[h] = "absent"
    /\ session' = [session EXCEPT ![h] = "open"]
    /\ UNCHANGED <<inbox, outbox, requests>>

(* The next frame of h is a data frame: data is dispatched only to an open *)
(* session, and the frame leaves the buffer before the handler runs.       *)
takeRequest(h) ==
    /\ session[h] = "open"
    /\ inbox[h] # <<>>
    /\ Head(inbox[h]) \notin {CloseFrame, Eof}
    /\ inbox' = [inbox EXCEPT ![h] = Tail(@)]

(* The next frame is the peer's close frame: it is acknowledged, and from  *)
(* here on send() refuses messages.                                        *)
process_close_frame(h) ==
    /\ session[h] = "open"
    /\ inbox[h] # <<>>
    /\ Head(inbox[h]) = CloseFrame
    /\ session' = [session EXCEPT ![h] = "closing"]
    /\ UNCHANGED <<inbox, outbox, requests>>

(* terminate(): the read fails, or the acknowledgement is written or its   *)
(* timer fires.  Queued messages are lost; the close handler runs next.    *)
terminate(h) ==
    /\ \/ session[h] = "open" /\ inbox[h] # <<>> /\ Head(inbox[h]) = Eof
       \/ session[h] = "closing"
    /\ session' = [session EXCEPT ![h] = "closed"]
    /\ inbox' = [inbox EXCEPT ![h] = <<>>]
    /\ outbox' = [outbox EXCEPT ![h] = <<>>]
    /\ UNCHANGED requests

(* Mutant of write_frame: two messages at once are never taken.            *)
write_frame_single(h) ==
    /\ session[h] \in {"open", "closing"}
    /\ Len(outbox[h]) = 1
    /\ outbox' = [outbox EXCEPT ![h] = <<>>]
    /\ UNCHANGED <<session, inbox, requests>>

(* write_frame() takes every message that is queued to the wire.           *)
write_frame(h) ==
    /\ session[h] \in {"open", "closing"}
    /\ outbox[h] # <<>>
    /\ outbox' = [outbox EXCEPT ![h] = <<>>]
    /\ UNCHANGED <<session, inbox, requests>>

-----------------------------------------------------------------------------
(* Mutant of con_send: a message is dropped while another one is queued.   *)
con_send_if_idle(h, message) ==
    outbox' = IF session[h] = "open" /\ outbox[h] = <<>>
              THEN [outbox EXCEPT ![h] = Append(@, message)]
              ELSE outbox

(* Mutant of con_send: the last message is the next one to be written.     *)
con_send_front(h, message) ==
    outbox' = IF session[h] = "open"
              THEN [outbox EXCEPT ![h] = <<message>> \o @]
              ELSE outbox

(***************************************************************************)
(* con->send(message): appended to the send queue of an open session; for  *)
(* any other state an error code is returned, which every caller ignores.  *)
(***************************************************************************)
con_send(h, message) ==
    outbox' = IF session[h] = "open"
              THEN [outbox EXCEPT ![h] = Append(@, message)]
              ELSE outbox

(* The close handler has returned and the connection is let go.            *)
release(h) ==
    session' = IF session[h] = "closed"
               THEN [session EXCEPT ![h] = "released"]
               ELSE session
=============================================================================
