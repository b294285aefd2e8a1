---------------------------- MODULE DataProvider ----------------------------
(***************************************************************************)
(* The DataProvider process: a websocketpp server whose open handler       *)
(* starts, for every session, a std::async task that sends the messages of *)
(* one shared list again and again.  The tasks update the list without a   *)
(* lock while the server thread writes what they queued.                   *)
(*                                                                         *)
(* A task keeps the connection object by a connection_ptr, so it outlives  *)
(* the session: send() then returns an error that nobody looks at.         *)
(*                                                                         *)
(* Times are wall-clock milliseconds since the program began.  A sleep     *)
(* lasts as long as it says, but the clock may be set while it does.       *)
(***************************************************************************)
EXTENDS WsServer, Integers

CONSTANTS
    Messages,       \* the length of m_messages
    m_timestampDifference,  \* of each message: 0, 1, -500, 2 and 3 in the code
    Rounds,         \* bound: NUMBER_OF_MESSAGE_SEND_INTERATIONS, 100 in the code
    Sleep,          \* TIME_TO_WAIT_BEFORE_SENDING_NEW_MESSAGE, 4000 in the code
    Times           \* bound: what the wall clock may show

ASSUME DataProviderAssumption ==
    /\ Messages \in Nat \ {0}
    /\ Rounds \in Nat \ {0}
    /\ Times \subseteq Nat /\ Times # {}

(* No sleep is so short that a difference could make up for it.            *)
ASSUME TimestampAssumption ==
    /\ Sleep \in Nat
    /\ m_timestampDifference \in [1..Messages -> Int]
    /\ \A i, j \in 1..Messages :
          m_timestampDifference[i] - m_timestampDifference[j] < Sleep

VARIABLES
    m_messages,     \* the m_timestamp of each message
    sender,         \* where the task of each session is
    turn,           \* how many messages its loops have done
    now,            \* what its updateTimestamp() read last from the clock
    clockSet,       \* history: the clock was put back while a task slept
    wire            \* what was written to each session

taskVars == <<m_messages, sender, turn, now, clockSet>>
vars == <<wsServerVars, taskVars, wire>>

Turns == Rounds * Messages

(* Price and quantity of a message never change: its index stands for them.*)
Frame == [message : 1..Messages, timestamp : Int]
Text == [action |-> "text"]
IndexAt(n) == (n % Messages) + 1

Running == {"ready", "read", "stamped"}
SenderStates == {"absent", "started", "done", "failed"} \cup Running

Init ==
    /\ WsServerInit
    /\ m_messages = m_timestampDifference
    /\ sender = [h \in Handles |-> "absent"]
    /\ turn = [h \in Handles |-> 0]
    /\ now = [h \in Handles |-> 0]
    /\ clockSet = FALSE
    /\ wire = [h \in Handles |-> <<>>]

TypeOK ==
    /\ WsServerTypeOK({Text}, Frame)
    /\ m_messages \in [1..Messages -> Int]
    /\ sender \in [Handles -> SenderStates]
    /\ turn \in [Handles -> 0..Turns]
    /\ now \in [Handles -> Nat]
    /\ clockSet \in BOOLEAN
    /\ wire \in [Handles -> Seq(Frame)]

-----------------------------------------------------------------------------
(***************************************************************************)
(* The server thread.                                                      *)
(***************************************************************************)

onConnection(h) ==
    /\ accept(h)
    /\ sender' = [sender EXCEPT ![h] = "started"]
    /\ UNCHANGED <<m_messages, turn, now, clockSet, wire>>

(* The handlers only print.                                                *)
onMessage(h) ==
    /\ takeRequest(h)
    /\ UNCHANGED <<session, outbox, requests, taskVars, wire>>

onCloseConnection(h) ==
    /\ session[h] = "closed"
    /\ release(h)
    /\ UNCHANGED <<inbox, outbox, requests, taskVars, wire>>

handle_write_frame(h) ==
    /\ write_frame(h)
    /\ wire' = [wire EXCEPT ![h] = @ \o outbox[h]]
    /\ UNCHANGED taskVars

handle_read_frame(h) ==
    /\ process_close_frame(h) \/ terminate(h)
    /\ UNCHANGED <<taskVars, wire>>

-----------------------------------------------------------------------------
(***************************************************************************)
(* The task of h.                                                          *)
(***************************************************************************)

(* The handle locks while the connection lives.  If the session has ended  *)
(* by then an exception is stored in the future, which nobody gets.        *)
get_con_from_hdl(h) ==
    /\ sender[h] = "started"
    /\ sender' = [sender EXCEPT ![h] =
                     IF session[h] = "released" THEN "failed" ELSE "ready"]
    /\ UNCHANGED <<wsServerVars, m_messages, turn, now, clockSet, wire>>

(* The first or the next sleep is over: system_clock::now(), which shows   *)
(* what time has passed unless it was set meanwhile.                       *)
updateTimestamp_now(h) ==
    /\ sender[h] = "ready"
    /\ \E time \in Times :
          /\ now' = [now EXCEPT ![h] = time]
          /\ clockSet' = (clockSet \/ (turn[h] > 0 /\ time < now[h] + Sleep))
    /\ sender' = [sender EXCEPT ![h] = "read"]
    /\ UNCHANGED <<wsServerVars, m_messages, turn, wire>>

(* Mutant of updateTimestamp_store: the time is assigned to a local.       *)
updateTimestamp_store_local(h) ==
    /\ sender[h] = "read"
    /\ sender' = [sender EXCEPT ![h] = "stamped"]
    /\ UNCHANGED <<wsServerVars, m_messages, turn, now, clockSet, wire>>

(* The sum and its assignment to m_timestamp, which other tasks make too.  *)
updateTimestamp_store(h) ==
    /\ sender[h] = "read"
    /\ m_messages' = [m_messages EXCEPT ![IndexAt(turn[h])] =
                         now[h] + m_timestampDifference[IndexAt(turn[h])]]
    /\ sender' = [sender EXCEPT ![h] = "stamped"]
    /\ UNCHANGED <<wsServerVars, turn, now, clockSet, wire>>

(* Mutant of send: a message that is refused is sent again.                *)
send_until_accepted(h) ==
    LET i == IndexAt(turn[h]) IN
    /\ sender[h] = "stamped"
    /\ session[h] = "open"
    /\ con_send(h, [message |-> i, timestamp |-> m_messages[i]])
    /\ turn' = [turn EXCEPT ![h] = @ + 1]
    /\ sender' = [sender EXCEPT ![h] = IF turn[h] + 1 = Turns THEN "done" ELSE "ready"]
    /\ UNCHANGED <<session, inbox, requests, m_messages, now, clockSet, wire>>

(* Mutant of send: the loops go one message too far.                       *)
send_past_end(h) ==
    LET i == IndexAt(turn[h]) IN
    /\ sender[h] = "stamped"
    /\ con_send(h, [message |-> i, timestamp |-> m_messages[i]])
    /\ turn' = [turn EXCEPT ![h] = @ + 1]
    /\ sender' = [sender EXCEPT ![h] = IF turn[h] = Turns THEN "done" ELSE "ready"]
    /\ UNCHANGED <<session, inbox, requests, m_messages, now, clockSet, wire>>

(* toJson() reads the message, send() queues it or returns an error; the   *)
(* task sleeps, or ends and lets the connection go.                        *)
send(h) ==
    LET i == IndexAt(turn[h]) IN
    /\ sender[h] = "stamped"
    /\ con_send(h, [message |-> i, timestamp |-> m_messages[i]])
    /\ turn' = [turn EXCEPT ![h] = @ + 1]
    /\ sender' = [sender EXCEPT ![h] = IF turn[h] + 1 = Turns THEN "done" ELSE "ready"]
    /\ UNCHANGED <<session, inbox, requests, m_messages, now, clockSet, wire>>

-----------------------------------------------------------------------------
Consumer(h) ==
    /\ sendRequest(h, Text) \/ disconnect(h)
    /\ UNCHANGED <<taskVars, wire>>

Server(h) ==
    \/ onMessage(h)
    \/ onCloseConnection(h)
    \/ handle_write_frame(h)
    \/ handle_read_frame(h)

Sender(h) ==
    \/ get_con_from_hdl(h)
    \/ updateTimestamp_now(h)
    \/ updateTimestamp_store(h)
    \/ send(h)

Next ==
    \E h \in Handles : onConnection(h) \/ Consumer(h) \/ Server(h) \/ Sender(h)

Spec == Init /\ [][Next]_vars

(* Sleeps end, and the io_service runs what is ready in the order it came. *)
Fairness ==
    \A h \in Handles :
        /\ WF_vars(Sender(h))
        /\ WF_vars(handle_write_frame(h))
        /\ WF_vars(onMessage(h) \/ onCloseConnection(h) \/ handle_read_frame(h))

FairSpec == Spec /\ Fairness

-----------------------------------------------------------------------------
(***************************************************************************)
(* What a consumer can rely on.                                            *)
(***************************************************************************)
Sent(h) == wire[h] \o outbox[h]

(* A session gets the list of messages in its order, round after round,    *)
(* without a gap or a repetition up to where it ends, though the task that *)
(* queues them and the thread that writes them know nothing of each other  *)
(* and other tasks walk the same list.                                     *)
FramesInOrder ==
    \A h \in Handles :
        \A k \in 1..Len(Sent(h)) : Sent(h)[k].message = IndexAt(k - 1)

(* No frame is missing: what an open session has been sent is as long as   *)
(* the walk of its task.                                                   *)
FramesComplete ==
    \A h \in Handles : session[h] = "open" => Len(Sent(h)) = turn[h]

(* A session without company gets each message with a time later than that *)
(* of the frame before, though one message is dated back: the sleep before *)
(* it is longer.  (Not when the clock is set, and not when another session *)
(* overwrites the time between updateTimestamp() and toJson().)            *)
FreshWhenAlone ==
    \A h \in Handles :
        (~clockSet /\ \A g \in Handles \ {h} : sender[g] = "absent")
        => \A k \in 1..(Len(Sent(h)) - 1) :
              Sent(h)[k].timestamp < Sent(h)[k + 1].timestamp

(* Every task ends and lets go of its connection, whether the session      *)
(* lasted, ended meanwhile or was over before the task began.              *)
SendersEnd ==
    \A h \in Handles :
        sender[h] = "started" ~> sender[h] \in {"done", "failed"}

(* A session that stays open is written every frame of every round.        *)
AllFramesWritten ==
    \A h \in Handles :
        session[h] = "open" ~> Len(wire[h]) = Turns \/ session[h] # "open"
=============================================================================
