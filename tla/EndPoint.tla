------------------------------ MODULE EndPoint ------------------------------
(***************************************************************************)
(* EndPoint and ClientHandler of TradingAggregator: the websocketpp client *)
(* through which a server process reaches its upstream hosts.  EndPoint    *)
(* owns an io_service thread of its own (m_thread) that runs the handlers  *)
(* of every connection; connect(), close() and getStatus() are called from *)
(* the thread of the server.                                               *)
(*                                                                         *)
(* A handler is split where another thread can see the difference:         *)
(* websocketpp opens a connection before it calls on_open, on_open         *)
(* publishes the status before it assigns the signal, and a data frame     *)
(* passes the state check before the slot is called.                       *)
(***************************************************************************)
EXTENDS Integers

CONSTANTS
    Hosts,          \* upstream hosts whose URI parses
    InvalidHosts,   \* host strings that get_connection() refuses
    FaultyHosts,    \* hosts that may refuse or drop a connection, or send
                    \* a text on which JSON::Load throws
    Slots,          \* what onDataReceived() may install
    NoSlot,         \* the empty std::function a ClientHandler starts with
    DefaultSlot,    \* the do-nothing lambda that on_open() assigns
    MaxConnections, \* bound: values m_next_id takes
    MaxData         \* bound: data frames one connection receives

ASSUME EndPointAssumption ==
    /\ FaultyHosts \subseteq Hosts
    /\ Hosts \cap InvalidHosts = {}
    /\ MaxConnections \in Nat
    /\ MaxData \in Nat
    /\ NoSlot \notin Slots
    /\ DefaultSlot \notin Slots
    /\ NoSlot # DefaultSlot

Ids == 0..(MaxConnections - 1)
NoId == -1

VARIABLES
    m_next_id,           \* the ids below it are the keys of m_connection_list
    m_uri,               \* ClientHandler::m_uri, the host of a connection
    m_state,             \* websocketpp's session state of a connection
    m_status,            \* ClientHandler::m_status
    dataReceivedSignal,  \* ClientHandler::dataReceivedSignal
    received,            \* data frames handed to on_message() so far
    clientThread         \* where the io_service thread is, and for whom

endPointVars == <<m_next_id, m_uri, m_state, m_status, dataReceivedSignal,
                  received, clientThread>>

endPointVarsButThread == <<m_next_id, m_uri, m_state, m_status,
                           dataReceivedSignal, received>>

States == {"none", "connecting", "open", "closing", "closed"}
Statuses == {"unlisted", "Connecting", "Open", "Failed", "Closed"}
Idle == [at |-> "loop", id |-> NoId]

EndPointInit ==
    /\ m_next_id = 0
    /\ m_uri = [id \in Ids |-> "no-host"]
    /\ m_state = [id \in Ids |-> "none"]
    /\ m_status = [id \in Ids |-> "unlisted"]
    /\ dataReceivedSignal = [id \in Ids |-> NoSlot]
    /\ received = [id \in Ids |-> 0]
    /\ clientThread = Idle

EndPointTypeOK ==
    /\ m_next_id \in 0..MaxConnections
    /\ m_uri \in [Ids -> Hosts \cup {"no-host"}]
    /\ m_state \in [Ids -> States]
    /\ m_status \in [Ids -> Statuses]
    /\ dataReceivedSignal \in [Ids -> Slots \cup {NoSlot, DefaultSlot}]
    /\ received \in [Ids -> 0..MaxData]
    /\ \/ clientThread = Idle
       \/ clientThread \in
            [at : {"opening", "on_open", "on_message", "on_malformed"}, id : Ids]

-----------------------------------------------------------------------------
(***************************************************************************)
(* Called by the owner of the endpoint, on its thread.                     *)
(***************************************************************************)

(* Mutant of connect: the error of get_connection() is not looked at.      *)
connect_unchecked(uri, id) ==
    /\ m_next_id < MaxConnections
    /\ id = m_next_id
    /\ m_next_id' = m_next_id + 1
    /\ m_uri' = [m_uri EXCEPT ![id] = uri]
    /\ m_state' = [m_state EXCEPT ![id] = "connecting"]
    /\ m_status' = [m_status EXCEPT ![id] = "Connecting"]
    /\ UNCHANGED <<dataReceivedSignal, received, clientThread>>

(* connect(uri) returning id: a URI that does not parse yields -1 and      *)
(* leaves nothing behind, any other one a new entry of m_connection_list.  *)
connect(uri, id) ==
    \/ /\ uri \in InvalidHosts
       /\ id = NoId
       /\ UNCHANGED endPointVars
    \/ /\ uri \in Hosts
       /\ m_next_id < MaxConnections
       /\ id = m_next_id
       /\ m_next_id' = m_next_id + 1
       /\ m_uri' = [m_uri EXCEPT ![id] = uri]
       /\ m_state' = [m_state EXCEPT ![id] = "connecting"]
       /\ m_status' = [m_status EXCEPT ![id] = "Connecting"]
       /\ UNCHANGED <<dataReceivedSignal, received, clientThread>>

(* Mutant of getStatus: an id that is not listed counts as open.           *)
getStatusUnlistedOpen(id) ==
    IF id \in 0..(m_next_id - 1) THEN m_status[id] ELSE "Open"

(* "unlisted" stands for the empty string.                                 *)
getStatus(id) == IF id \in 0..(m_next_id - 1) THEN m_status[id] ELSE "unlisted"

(* close(id) returns 0 for an id that is not listed and for a connection   *)
(* that is not open; otherwise the closing handshake starts.               *)
closeSucceeds(id) == id \in 0..(m_next_id - 1) /\ m_state[id] = "open"

close(id) ==
    /\ m_state' = [m_state EXCEPT ![id] = "closing"]
    /\ UNCHANGED <<m_next_id, m_uri, m_status, dataReceivedSignal, received,
                   clientThread>>

(* onDataReceived(slot), called by a thread that holds the ClientHandler.  *)
onDataReceived(id, slot) ==
    /\ dataReceivedSignal' = [dataReceivedSignal EXCEPT ![id] = slot]
    /\ UNCHANGED <<m_next_id, m_uri, m_state, m_status, received, clientThread>>

-----------------------------------------------------------------------------
(***************************************************************************)
(* The handlers, on the endpoint's own thread.                             *)
(***************************************************************************)

(* The response of the host is valid: the session is open from here on for *)
(* close() and send(), while getStatus() still says "Connecting".          *)
handle_read_http_response(id) ==
    /\ clientThread = Idle
    /\ m_state[id] = "connecting"
    /\ m_state' = [m_state EXCEPT ![id] = "open"]
    /\ clientThread' = [at |-> "opening", id |-> id]
    /\ UNCHANGED <<m_next_id, m_uri, m_status, dataReceivedSignal, received>>

(* Mutant of on_open: the status is not published.                         *)
on_open_silent(id) ==
    /\ clientThread = [at |-> "opening", id |-> id]
    /\ clientThread' = [at |-> "on_open", id |-> id]
    /\ UNCHANGED <<m_next_id, m_uri, m_state, m_status, dataReceivedSignal,
                   received>>

(* on_open(), first part: m_status = "Open".  Other threads act on it now. *)
on_open(id) ==
    /\ clientThread = [at |-> "opening", id |-> id]
    /\ m_status' = [m_status EXCEPT ![id] = "Open"]
    /\ clientThread' = [at |-> "on_open", id |-> id]
    /\ UNCHANGED <<m_next_id, m_uri, m_state, dataReceivedSignal, received>>

(* Mutant of on_open_default: no default slot is assigned.                 *)
on_open_no_default(id) ==
    /\ clientThread = [at |-> "on_open", id |-> id]
    /\ clientThread' = Idle
    /\ UNCHANGED <<m_next_id, m_uri, m_state, m_status, dataReceivedSignal,
                   received>>

(* on_open(), last statement: the default slot replaces whatever is there. *)
on_open_default(id) ==
    /\ clientThread = [at |-> "on_open", id |-> id]
    /\ dataReceivedSignal' = [dataReceivedSignal EXCEPT ![id] = DefaultSlot]
    /\ clientThread' = Idle
    /\ UNCHANGED <<m_next_id, m_uri, m_state, m_status, received>>

on_fail(id) ==
    /\ clientThread = Idle
    /\ m_state[id] = "connecting"
    /\ m_uri[id] \in FaultyHosts
    /\ m_state' = [m_state EXCEPT ![id] = "closed"]
    /\ m_status' = [m_status EXCEPT ![id] = "Failed"]
    /\ UNCHANGED <<m_next_id, m_uri, dataReceivedSignal, received, clientThread>>

(* The host sends a close frame: it is acknowledged, no handler runs yet.  *)
peer_close(id) ==
    /\ clientThread = Idle
    /\ m_state[id] = "open"
    /\ m_uri[id] \in FaultyHosts
    /\ m_state' = [m_state EXCEPT ![id] = "closing"]
    /\ UNCHANGED <<m_next_id, m_uri, m_status, dataReceivedSignal, received,
                   clientThread>>

(* terminate(): the closing handshake is over or has timed out, or a       *)
(* faulty host's stream ended.                                             *)
on_close(id) ==
    /\ clientThread = Idle
    /\ \/ m_state[id] = "closing"
       \/ m_state[id] = "open" /\ m_uri[id] \in FaultyHosts
    /\ m_state' = [m_state EXCEPT ![id] = "closed"]
    /\ m_status' = [m_status EXCEPT ![id] = "Closed"]
    /\ UNCHANGED <<m_next_id, m_uri, dataReceivedSignal, received, clientThread>>

(* handle_read_frame() finds the session open and calls on_message(); the  *)
(* slot runs in the next step, which belongs to whoever installed it.      *)
on_message(id) ==
    /\ clientThread = Idle
    /\ m_state[id] = "open"
    /\ received[id] < MaxData
    /\ received' = [received EXCEPT ![id] = @ + 1]
    /\ clientThread' = [at |-> "on_message", id |-> id]
    /\ UNCHANGED <<m_next_id, m_uri, m_state, m_status, dataReceivedSignal>>

(* The same for a text on which JSON::Load throws, such as one with a      *)
(* number that std::stoll does not convert.  It is not counted: whoever    *)
(* reads it ends the process, and the default slot does not.               *)
on_malformed(id) ==
    /\ clientThread = Idle
    /\ m_state[id] = "open"
    /\ m_uri[id] \in FaultyHosts
    /\ clientThread' = [at |-> "on_malformed", id |-> id]
    /\ UNCHANGED endPointVarsButThread
=============================================================================
