------------------------ MODULE BroadcastFeedProofs ------------------------
(***************************************************************************)
(* Broadcaster implements BroadcastFeed: for every number of sessions,     *)
(* channels, hosts, requests, connections and data frames, a frame is      *)
(* handled once, for the subscription whose slot was called, and what is   *)
(* gathered leaves by twos.                                                *)
(***************************************************************************)
EXTENDS BroadcasterProofs

(* A handler runs for a connection that has begun and has not ended.       *)
HandlerOfLive ==
    clientThread # Idle => m_state[clientThread.id] \in {"open", "closing"}

(* A slot runs inside on_message.                                          *)
CallInHandler == slot # NotRunning => clientThread.at = "on_message"

(* What connect() has yet to hand out is untouched.                        *)
FreshIds == \A id \in Ids : id >= m_next_id => m_state[id] = "none"

FeedInv == HandlerOfLive /\ CallInHandler /\ FreshIds

LEMMA InitFeedInv == Init => FeedInv
  BY DEF Init, EndPointInit, FeedInv, HandlerOfLive, CallInHandler, FreshIds

LEMMA ThreadTypes ==
    ASSUME TypeOK
    PROVE  /\ m_next_id \in 0..MaxConnections
           /\ m_state \in [Ids -> States]
           /\ received \in [Ids -> 0..MaxData]
           /\ dataReceivedSignal \in [Ids -> Slots \cup {NoSlot, DefaultSlot}]
           /\ \/ clientThread = Idle
              \/ clientThread \in
                   [at : {"opening", "on_open", "on_message", "on_malformed"},
                    id : Ids]
           /\ slot = NotRunning \/ slot \in Running
           /\ session \in [Handles -> SessionStates]
           /\ outbox \in [Handles -> Seq(Messages)]
           /\ m_sendFutures \in Seq(Tasks)
           /\ \A i \in Ids : i \in Int
  BY EndPointAssumption DEF TypeOK, EndPointTypeOK, WsServerTypeOK, Ids

(* Where the threads and connections of the endpoint can move.             *)
Steady == UNCHANGED <<m_next_id, m_state, clientThread>>

Emits(id) ==
    \/ emitDataReceived(id) \/ emit_posted(id) \/ emit_batch(id)
    \/ emit_freed(id)

Moves(id) ==
    \/ handle_read_http_response(id) \/ on_open(id) \/ on_open_default(id)
    \/ on_fail(id) \/ on_close(id) \/ peer_close(id)
    \/ on_message(id) \/ on_malformed(id)

Throws ==
    \/ \E id \in Ids : on_message_throws(id)
    \/ \E h \in Handles : on_message_request_throws(h)

LEMMA ThrowsOnly ==
    ASSUME Throws
    PROVE  /\ crashed' = TRUE
           /\ UNCHANGED <<endPointVars, session, outbox, m_sendFutures,
                          m_broadcastArray, slot>>
  BY DEF Throws, on_message_throws, on_message_request_throws, wsServerVars,
      slotVars

LEMMA SubscribeSlot ==
    ASSUME NEW i \in DOMAIN m_sendFutures, SubscribeTask(i)
    PROVE  /\ UNCHANGED <<m_next_id, m_uri, m_state, m_status, received,
                          clientThread>>
           /\ UNCHANGED <<session, outbox, m_broadcastArray>>
           /\ \/ UNCHANGED slot
              \/ slot # NotRunning /\ slot' = [slot EXCEPT !.freed = TRUE]
  BY DEF SubscribeTask, subscribe_start, subscribe_install, subscribe_dangling,
      subscribe_lost, install, onDataReceived, endPointVars, wsServerVars,
      slotVars

LEMMA ServerSlot ==
    ASSUME TypeOK, Handler
    PROVE  UNCHANGED <<m_broadcastArray, slot, received, clientThread, crashed>>
<1> USE DEF slotVars, endPointVars
<1>1. CASE destroy_join
  BY <1>1 DEF destroy_join
<1>2. UNCHANGED <<m_broadcastArray, slot, crashed>>
  BY DEF Handler, handle_add_aggregator_done, forward_send, forward_done,
      handle_clear_aggregator_skip, handle_clear_aggregator_wait,
      handle_clear_aggregator_closed, destroy_close, destroy_join,
      on_close_Connection_done
<1> QED
  BY <1>1, <1>2, HandlerCases DEF Connects, Closes

LEMMA SessionSteps ==
    ASSUME TypeOK, NEW h \in Handles,
           Consumer(h) \/ on_connection(h) \/ Dispatch(h) \/ io_write(h)
    PROVE  /\ UNCHANGED <<m_broadcastArray, slot>>
           /\ UNCHANGED endPointVars \/ Connects
<1>1. CASE on_message_request(h)
  BY <1>1, onMessageCases DEF AddBegun, LoopBegun, Subscribed
<1>2. CASE on_message_request_throws(h)
  BY <1>2, ThrowsOnly DEF Throws
<1> QED
  BY <1>1, <1>2
  DEF Consumer, on_connection, Dispatch, io_write, io_close_frame,
      on_close_Connection, Unserved, slotVars

LEMMA EndPointSteps ==
    ASSUME NEW id \in Ids,
           Connected(id) \/ Closed(id) \/ ClientHandler(id) \/ Host(id)
    PROVE  \/ Moves(id) /\ UNCHANGED Elsewhere
           \/ Emits(id)
           \/ on_message_throws(id)
  BY DEF Connected, Closed, ClientHandler, Host, Moves, Emits

LEMMA EmitsMoves ==
    ASSUME NEW id \in Ids, Emits(id)
    PROVE  /\ UNCHANGED <<m_next_id, m_state, received, dataReceivedSignal,
                          session, m_sendFutures>>
           /\ clientThread = [at |-> "on_message", id |-> id]
           /\ \/ clientThread' = clientThread
              \/ clientThread' = Idle /\ slot' = NotRunning
  BY DEF Emits, emitDataReceived, emit_posted, emit_batch, emit_freed, endCall,
      append, sendLatest, endPointVars, endPointVarsButThread, wsServerVars

LEMMA FeedInvStep ==
    ASSUME TypeOK, FeedInv, [Next]_vars
    PROVE  FeedInv'
<1> USE DEF FeedInv, HandlerOfLive, CallInHandler, FreshIds
<1>t. /\ m_next_id \in Nat
      /\ m_state \in [Ids -> States]
      /\ \/ clientThread = Idle
         \/ clientThread \in
              [at : {"opening", "on_open", "on_message", "on_malformed"}, id : Ids]
      /\ \A i \in Ids : i \in Int
  BY ThreadTypes, EndPointAssumption
<1>1. ASSUME UNCHANGED slot,
             Steady \/ Connects \/ Closes
      PROVE  FeedInv'
  <2>1. CASE Steady
    BY <1>1, <2>1 DEF Steady
  <2>2. CASE Connects
    <3>1. /\ m_next_id \in Ids /\ m_next_id' = m_next_id + 1
          /\ m_state' = [m_state EXCEPT ![m_next_id] = "connecting"]
          /\ UNCHANGED clientThread
      BY <2>2 DEF Connects
    <3>2. m_state[m_next_id] = "none"
      BY <1>t, <3>1
    <3>3. clientThread # Idle => clientThread.id # m_next_id
      BY <3>2
    <3> QED
      BY <1>1, <1>t, <3>1, <3>3
  <2>3. CASE Closes
    BY <1>1, <1>t, <2>3 DEF Closes
  <2> QED
    BY <1>1, <2>1, <2>2, <2>3
<1>2. CASE Handler
  <2>1. CASE destroy_join
    BY <1>t, <2>1 DEF destroy_join, slotVars
  <2> QED
    BY <1>1, <1>2, <2>1, HandlerCases, ServerSlot DEF Steady, endPointVars
<1>3. ASSUME NEW h \in Handles,
             Consumer(h) \/ on_connection(h) \/ Dispatch(h) \/ io_write(h)
      PROVE  FeedInv'
  BY <1>1, <1>3, SessionSteps DEF Steady, endPointVars
<1>4. ASSUME NEW id \in Ids, Emits(id)
      PROVE  FeedInv'
  <2>1. /\ UNCHANGED <<m_next_id, m_state>>
        /\ clientThread = [at |-> "on_message", id |-> id]
        /\ \/ clientThread' = clientThread
           \/ clientThread' = Idle /\ slot' = NotRunning
    BY <1>4, EmitsMoves
  <2> QED
    BY <2>1 DEF Idle
<1>5. ASSUME NEW id \in Ids, Moves(id), UNCHANGED Elsewhere
      PROVE  FeedInv'
  <2>0. UNCHANGED slot
    BY <1>5 DEF Elsewhere, slotVars
  <2>1. CASE handle_read_http_response(id) \/ on_open(id)
    BY <1>t, <2>0, <2>1 DEF handle_read_http_response, on_open, Idle
  <2>2. CASE on_fail(id) \/ on_close(id) \/ peer_close(id)
    BY <1>t, <2>0, <2>2 DEF on_fail, on_close, peer_close
  <2>3. CASE on_open_default(id)
    BY <1>t, <2>0, <2>3 DEF on_open_default, Idle
  <2>4. CASE on_message(id) \/ on_malformed(id)
    BY <1>t, <2>0, <2>4 DEF on_message, on_malformed, endPointVarsButThread, Idle
  <2> QED
    BY <1>5, <2>1, <2>2, <2>3, <2>4 DEF Moves
<1>6. ASSUME NEW i \in DOMAIN m_sendFutures, SubscribeTask(i)
      PROVE  FeedInv'
  BY <1>6, SubscribeSlot
<1>7. CASE UNCHANGED vars
  BY <1>1, <1>7 DEF vars, endPointVars, slotVars, Steady
<1>8. ASSUME NEW id \in Ids, on_message_throws(id) PROVE FeedInv'
  BY <1>1, <1>8, ThrowsOnly DEF Throws, Steady, endPointVars
<1> QED
  BY <1>2, <1>3, <1>4, <1>5, <1>6, <1>7, <1>8, EndPointSteps DEF Next

LEMMA FeedInvariance == Spec => [](IInv /\ FeedInv)
<1>1. Init => IInv /\ FeedInv
  BY InitInvariant, InitFeedInv
<1>2. IInv /\ FeedInv /\ [Next]_vars => IInv' /\ FeedInv'
  BY InvariantStep, FeedInvStep DEF IInv
<1> QED
  BY <1>1, <1>2, PTL DEF Spec

(***************************************************************************)
(* The parts of the mapping.                                               *)
(***************************************************************************)
LEMMA SubscriberOf ==
    ASSUME NEW h \in Handles
    PROVE  /\ subscriberOf[h] = "absent" <=> session[h] = "absent"
           /\ subscriberOf[h] = "present" <=> session[h] = "open"
           /\ session[h] \in {"closing", "closed", "released"}
                => subscriberOf[h] = "gone"
  BY DEF subscriberOf

LEMMA SubscriberMoves ==
    ASSUME NEW h \in Handles, NEW s, session \in [Handles -> SessionStates],
           session' = [session EXCEPT ![h] = s]
    PROVE  subscriberOf' = [subscriberOf EXCEPT ![h] = subscriberOf'[h]]
  BY DEF subscriberOf

LEMMA SentIsQueued ==
    ASSUME NEW h \in Handles, NEW m, con_send(h, m)
    PROVE  Feed!Queued(h, m)
  BY SubscriberOf DEF con_send, Feed!Queued

LEMMA FeedMoves ==
    ASSUME TypeOK, NEW id \in Ids, NEW s \in Slots \cup {NoSlot, DefaultSlot},
           dataReceivedSignal' = [dataReceivedSignal EXCEPT ![id] = s]
    PROVE  feedOf' = [feedOf EXCEPT ![id] = IF s \in Slots THEN s ELSE NoSlot]
  BY ThreadTypes DEF feedOf

(* All that a step leaves alone if it is none of the promise's.            *)
LEMMA Kept ==
    /\ UNCHANGED session => UNCHANGED subscriberOf
    /\ UNCHANGED m_sendFutures => UNCHANGED wantedOf
    /\ UNCHANGED <<m_state, clientThread>> => UNCHANGED sourceOf
    /\ UNCHANGED dataReceivedSignal => UNCHANGED feedOf
    /\ UNCHANGED <<clientThread, slot>> => UNCHANGED callOf
    /\ UNCHANGED <<received, clientThread, slot>> => UNCHANGED handled
<1>1. UNCHANGED <<clientThread, slot>> => \A id : Pending(id)' = Pending(id)
  BY DEF Pending
<1>2. UNCHANGED m_sendFutures => UNCHANGED wantedOf
  BY DEF wantedOf
<1>3. UNCHANGED <<received, clientThread, slot>> => UNCHANGED handled
  BY <1>1 DEF handled
<1> QED
  BY <1>2, <1>3 DEF subscriberOf, sourceOf, feedOf, callOf

(* What a connection is a source for does not change when it is begun, or  *)
(* is being closed.                                                        *)
LEMMA SourceKept ==
    ASSUME TypeOK, FeedInv, UNCHANGED endPointVars \/ Connects \/ Closes
    PROVE  UNCHANGED <<sourceOf, feedOf>>
<1>1. UNCHANGED <<dataReceivedSignal, clientThread>>
  BY DEF endPointVars, Connects, Closes
<1>2. m_state \in [Ids -> States] /\ \A id \in Ids : id \in Int
  BY ThreadTypes
<1>3. CASE UNCHANGED endPointVars
  BY <1>3, Kept DEF endPointVars
<1>4. CASE Connects
  <2>1. /\ m_next_id \in Ids /\ m_state[m_next_id] = "none"
        /\ m_state' = [m_state EXCEPT ![m_next_id] = "connecting"]
    BY <1>2, <1>4 DEF Connects, FeedInv, FreshIds
  <2> QED
    BY <1>1, <1>2, <2>1, Kept DEF sourceOf
<1>5. CASE Closes
  BY <1>1, <1>2, <1>5, Kept DEF Closes, sourceOf
<1> QED
  BY <1>3, <1>4, <1>5

LEMMA InitRefined == Init => Feed!FeedInit
<1> SUFFICES ASSUME Init PROVE Feed!FeedInit
  OBVIOUS
<1> USE EndPointAssumption, BroadcasterAssumption
<1>1. subscriberOf = [h \in Handles |-> "absent"]
  BY DEF Init, WsServerInit, subscriberOf
<1>2. wantedOf = {}
  <2>1. m_sendFutures = <<>>
    BY DEF Init
  <2> QED
    BY <2>1 DEF wantedOf
<1>3. sourceOf = [id \in Ids |-> "off"] /\ feedOf = [id \in Ids |-> NoSlot]
  BY DEF Init, EndPointInit, sourceOf, feedOf
<1>4. callOf = Feed!NoCall
  BY DEF Init, callOf, Feed!NoCall, NotRunning
<1>5. handled = [id \in Ids |-> 0]
  BY DEF Init, EndPointInit, handled, Pending, Idle
<1> QED
  BY <1>1, <1>2, <1>3, <1>4, <1>5 DEF Init, WsServerInit, Feed!FeedInit

(***************************************************************************)
(* The tasks: what is wanted is the slot of one that has not ended.        *)
(***************************************************************************)
LEMMA WantedOf ==
    ASSUME NEW s
    PROVE  s \in wantedOf <=>
             \E i \in DOMAIN m_sendFutures :
                m_sendFutures[i].at # "ended" /\ m_sendFutures[i].slot = s
  BY DEF wantedOf

LEMMA WantedOfNext ==
    ASSUME NEW s
    PROVE  s \in wantedOf' <=>
             \E i \in DOMAIN m_sendFutures' :
                m_sendFutures'[i].at # "ended" /\ m_sendFutures'[i].slot = s
  BY DEF wantedOf

LEMMA TaskSettles ==
    ASSUME TypeOK, TasksOfListed, NEW i \in DOMAIN m_sendFutures, SubscribeTask(i)
    PROVE  /\ m_sendFutures[i].slot \in wantedOf
           /\ wantedOf' \in {wantedOf, wantedOf \ {m_sendFutures[i].slot}}
<1> DEFINE s == m_sendFutures[i].slot
<1>1. /\ m_sendFutures[i].at # "ended"
      /\ DOMAIN m_sendFutures' = DOMAIN m_sendFutures
      /\ \A j \in DOMAIN m_sendFutures \ {i} : m_sendFutures'[j] = m_sendFutures[j]
      /\ \/ m_sendFutures'[i] \in {m_sendFutures[i], Ended}
         \/ \E ids : m_sendFutures'[i] = Task(s, "installing", ids)
  BY TaskStep
<1>2. s \in wantedOf
  BY <1>1, WantedOf
<1>3. m_sendFutures'[i].at # "ended" => m_sendFutures'[i].slot = s
  BY <1>1 DEF Ended, Task
<1>4. \A t : t \in wantedOf' => t \in wantedOf
  BY <1>1, <1>2, <1>3, WantedOf, WantedOfNext
<1>5. \A t : t \in wantedOf /\ t # s => t \in wantedOf'
  BY <1>1, WantedOf, WantedOfNext
<1> QED
  BY <1>2, <1>4, <1>5

LEMMA TasksMarkedWanted ==
    ASSUME TypeOK, handle_clear_aggregator_closed \/ destroy_join
    PROVE  UNCHANGED wantedOf
<1>1. \A i \in DOMAIN m_sendFutures : m_sendFutures[i] \in Tasks
  BY DEF TypeOK
<1>2. ASSUME NEW task \in Tasks, task.at \in {"installing", "dangling"}
      PROVE  /\ [task EXCEPT !.at = "dangling"].at = "dangling"
             /\ [task EXCEPT !.at = "dangling"].slot = task.slot
             /\ [task EXCEPT !.ids = {}].at = task.at
             /\ [task EXCEPT !.ids = {}].slot = task.slot
  BY <1>2 DEF Tasks, Ended
<1>3. /\ DOMAIN m_sendFutures' = DOMAIN m_sendFutures
      /\ \A i \in DOMAIN m_sendFutures :
            /\ m_sendFutures'[i].at # "ended" <=> m_sendFutures[i].at # "ended"
            /\ m_sendFutures[i].at # "ended" =>
                  m_sendFutures'[i].slot = m_sendFutures[i].slot
  <2>1. CASE handle_clear_aggregator_closed
    BY <1>1, <1>2, <2>1 DEF handle_clear_aggregator_closed
  <2>2. CASE destroy_join
    BY <1>1, <1>2, <2>2 DEF destroy_join
  <2> QED
    BY <2>1, <2>2
<1>4. \A s : s \in wantedOf' <=> s \in wantedOf
  BY <1>3, WantedOf, WantedOfNext
<1> QED
  BY <1>4

(* A subscription is wanted once its tasks are started.                    *)
LEMMA SubscribedWanted ==
    ASSUME TypeOK, NEW slots \in Seq(Slots), slots # <<>>, NEW s \in Slots,
           \A j \in DOMAIN slots : slots[j] = s, subscribeMessages(slots)
    PROVE  wantedOf' = wantedOf \cup {s}
<1> DEFINE new == [i \in DOMAIN slots |-> Task(slots[i], "starting", {})]
           old == Len(m_sendFutures)
<1>1. /\ new \in Seq(Tasks) /\ Len(new) = Len(slots) /\ 1 \in 1..Len(new)
      /\ \A j \in 1..Len(new) : new[j] = Task(s, "starting", {})
  <2>1. \A t \in Slots : Task(t, "starting", {}) \in Tasks
    BY DEF Task, Tasks
  <2>2. DOMAIN slots = 1..Len(slots) /\ Len(slots) \in Nat /\ Len(slots) # 0
    OBVIOUS
  <2> QED
    BY <2>1, <2>2
<1>2. m_sendFutures' = m_sendFutures \o new /\ m_sendFutures \in Seq(Tasks)
  BY DEF subscribeMessages, TypeOK
<1> HIDE DEF new
<1>3. /\ old \in Nat /\ DOMAIN m_sendFutures = 1..old
      /\ DOMAIN m_sendFutures' = 1..(old + Len(new))
      /\ \A i \in 1..old : m_sendFutures'[i] = m_sendFutures[i]
      /\ \A i \in (old + 1)..(old + Len(new)) :
            m_sendFutures'[i] = new[i - old]
      /\ Len(new) \in Nat
  <2>1. ASSUME NEW f \in Seq(Tasks), NEW g \in Seq(Tasks)
        PROVE  /\ DOMAIN f = 1..Len(f) /\ Len(f) \in Nat /\ Len(g) \in Nat
               /\ DOMAIN (f \o g) = 1..(Len(f) + Len(g))
               /\ \A i \in 1..Len(f) : (f \o g)[i] = f[i]
               /\ \A i \in (Len(f) + 1)..(Len(f) + Len(g)) :
                     (f \o g)[i] = g[i - Len(f)]
    OBVIOUS
  <2> QED
    BY <1>1, <1>2, <2>1
<1> HIDE DEF old
<1>4. Task(s, "starting", {}).at # "ended" /\ Task(s, "starting", {}).slot = s
  BY DEF Task
<1>5. ASSUME NEW t \in wantedOf' PROVE t \in wantedOf \cup {s}
  <2>1. PICK i \in DOMAIN m_sendFutures' :
          m_sendFutures'[i].at # "ended" /\ m_sendFutures'[i].slot = t
    BY <1>5, WantedOfNext
  <2>2. CASE i \in 1..old
    BY <1>3, <2>1, <2>2, WantedOf
  <2>3. CASE i \notin 1..old
    <3>1. i \in (old + 1)..(old + Len(new)) /\ i - old \in 1..Len(new)
      BY <1>3, <2>1, <2>3
    <3> QED
      BY <1>1, <1>3, <1>4, <2>1, <3>1
  <2> QED
    BY <2>2, <2>3
<1>6. ASSUME NEW t \in wantedOf PROVE t \in wantedOf'
  <2>1. PICK i \in DOMAIN m_sendFutures :
          m_sendFutures[i].at # "ended" /\ m_sendFutures[i].slot = t
    BY <1>6, WantedOf
  <2>2. i \in DOMAIN m_sendFutures' /\ m_sendFutures'[i] = m_sendFutures[i]
    BY <1>3
  <2> QED
    BY <2>1, <2>2, WantedOfNext
<1>7. s \in wantedOf'
  <2>1. /\ old + 1 \in DOMAIN m_sendFutures'
        /\ m_sendFutures'[old + 1] = new[1]
    BY <1>1, <1>3
  <2> QED
    BY <1>1, <1>4, <2>1, WantedOfNext
<1> QED
  BY <1>5, <1>6, <1>7

(***************************************************************************)
(* The steps of the server's thread, each under the invariant.             *)
(***************************************************************************)
LEMMA Stutters ==
    ASSUME UNCHANGED <<subscriberOf, wantedOf, sourceOf, feedOf, callOf,
                       m_broadcastArray, handled, outbox, crashed>>
    PROVE  UNCHANGED Feed!feedVars
  BY DEF Feed!feedVars

LEMMA ThrowsRefined == Throws => Feed!Crash
  BY ThrowsOnly, Kept DEF Feed!Crash, endPointVars

LEMMA NotifyRefined ==
    ASSUME NEW h \in Handles, con_send(h, Processed),
           UNCHANGED <<subscriberOf, wantedOf, sourceOf, feedOf, callOf,
                       m_broadcastArray, handled, crashed>>
    PROVE  Feed!Notify(h)
  BY SentIsQueued DEF Feed!Notify

LEMMA ClearRefined ==
    ASSUME TypeOK, FeedInv, destroy_join
    PROVE  Feed!Clear
<1> USE EndPointAssumption
<1>t. /\ m_next_id \in Nat /\ m_state \in [Ids -> States]
      /\ \A id \in Ids : id \in Int /\ id >= 0
  BY ThreadTypes DEF Ids
<1>1. /\ clientThread = Idle
      /\ \A id \in 0..(m_next_id - 1) : m_state[id] = "closed"
      /\ m_state' = [id \in Ids |-> "none"]
      /\ dataReceivedSignal' = [id \in Ids |-> NoSlot]
      /\ UNCHANGED <<session, outbox, m_broadcastArray, slot, received,
                     clientThread, crashed>>
  BY DEF destroy_join, wsServerVars, slotVars
<1>2. callOf = Feed!NoCall
  BY <1>1 DEF FeedInv, CallInHandler, Idle, callOf, Feed!NoCall, NotRunning
<1>3. ASSUME NEW id \in Ids PROVE sourceOf[id] # "on"
  <2>1. CASE id \in 0..(m_next_id - 1)
    BY <1>1, <2>1 DEF sourceOf
  <2>2. CASE id \notin 0..(m_next_id - 1)
    <3>1. id >= m_next_id
      BY <1>t, <2>2
    <3>2. m_state[id] = "none"
      BY <3>1 DEF FeedInv, FreshIds
    <3> QED
      BY <3>2 DEF sourceOf
  <2> QED
    BY <2>1, <2>2
<1>4. sourceOf' = [id \in Ids |-> "off"]
  BY <1>1 DEF sourceOf
<1>5. feedOf' = [id \in Ids |-> NoSlot]
  BY <1>1 DEF feedOf
<1>6. UNCHANGED <<subscriberOf, wantedOf, callOf, handled>>
  BY <1>1, Kept, TasksMarkedWanted
<1> QED
  BY <1>1, <1>2, <1>3, <1>4, <1>5, <1>6 DEF Feed!Clear

LEMMA ServerRefined ==
    ASSUME IInv, FeedInv, Handler
    PROVE  \/ \E h \in Handles : Feed!Notify(h)
           \/ Feed!Clear
           \/ UNCHANGED Feed!feedVars
<1>t. TypeOK /\ serving \in IF serverThread = "loop" THEN {NoHandle} ELSE Handles
  BY DEF IInv, TypeOK
<1>1. CASE destroy_join
  BY <1>t, <1>1, ClearRefined
<1>2. CASE ~destroy_join
  <2>1. UNCHANGED <<m_broadcastArray, slot, received, clientThread, crashed>>
    BY <1>t, ServerSlot
  <2>2. UNCHANGED <<sourceOf, feedOf>>
    BY <1>t, <1>2, HandlerCases, SourceKept
  <2>3. UNCHANGED <<callOf, handled>>
    BY <2>1, Kept
  <2>4. CASE handle_add_aggregator_done
    <3>1. serving \in Handles
      BY <1>t, <2>4 DEF handle_add_aggregator_done
    <3>2. con_send(serving, Processed) /\ UNCHANGED <<session, m_sendFutures>>
      BY <2>4 DEF handle_add_aggregator_done
    <3> QED
      BY <2>1, <2>2, <2>3, <3>1, <3>2, Kept, NotifyRefined
  <2>5. CASE handle_clear_aggregator_closed
    <3>1. serving \in Handles
      BY <1>t, <2>5 DEF handle_clear_aggregator_closed
    <3>2. con_send(serving, Processed) /\ UNCHANGED session
      BY <2>5 DEF handle_clear_aggregator_closed
    <3> QED
      BY <1>t, <2>1, <2>2, <2>3, <2>5, <3>1, <3>2, Kept, TasksMarkedWanted,
         NotifyRefined
  <2>6. CASE on_close_Connection_done
    <3>1. release(serving) /\ UNCHANGED <<outbox, m_sendFutures>>
      BY <2>6 DEF on_close_Connection_done
    <3>2. UNCHANGED subscriberOf
      <4>1. ASSUME NEW h \in Handles PROVE subscriberOf'[h] = subscriberOf[h]
        <5>1. \/ session[h] = session'[h]
              \/ session[h] = "closed" /\ session'[h] = "released"
          BY <1>t, <3>1, ThreadTypes DEF release
        <5> QED
          BY <5>1 DEF subscriberOf
      <4> QED
        BY <4>1 DEF subscriberOf
    <3> QED
      BY <2>1, <2>2, <2>3, <3>1, <3>2, Kept, Stutters
  <2>7. CASE \/ forward_send \/ forward_done \/ handle_clear_aggregator_skip
             \/ handle_clear_aggregator_wait \/ destroy_close
    <3>1. UNCHANGED <<session, outbox, m_sendFutures>>
      BY <2>7
      DEF forward_send, forward_done, handle_clear_aggregator_skip,
          handle_clear_aggregator_wait, destroy_close, wsServerVars
    <3> QED
      BY <2>1, <2>2, <2>3, <3>1, Kept, Stutters
  <2> QED
    BY <1>2, <2>4, <2>5, <2>6, <2>7 DEF Handler
<1> QED
  BY <1>1, <1>2

(***************************************************************************)
(* The sessions.                                                           *)
(***************************************************************************)
LEMMA JoinRefined ==
    ASSUME TypeOK, NEW h \in Handles, on_connection(h)
    PROVE  Feed!Join(h)
<1>1. /\ session[h] = "absent"
      /\ session' = [session EXCEPT ![h] = "open"]
      /\ UNCHANGED <<outbox, m_sendFutures, m_broadcastArray, crashed>>
      /\ UNCHANGED <<m_state, dataReceivedSignal, received, clientThread, slot>>
  BY DEF on_connection, accept, Unserved, endPointVars, slotVars
<1>2. subscriberOf' = [subscriberOf EXCEPT ![h] = "present"]
  <2>1. session \in [Handles -> SessionStates]
    BY ThreadTypes
  <2>2. subscriberOf'[h] = "present"
    BY <1>1, <2>1 DEF subscriberOf
  <2> QED
    BY <1>1, <2>1, <2>2, SubscriberMoves
<1> QED
  BY <1>1, <1>2, Kept, SubscriberOf DEF Feed!Join

(* The end of an open session loses what is queued; that of one in its     *)
(* closing handshake only the rest.                                        *)
LEMMA SessionEndRefined ==
    ASSUME TypeOK, NEW h \in Handles, session[h] \in {"open", "closing"},
           NEW s \in {"closing", "closed"},
           session' = [session EXCEPT ![h] = s],
           outbox' \in {outbox, [outbox EXCEPT ![h] = <<>>]},
           UNCHANGED <<m_sendFutures, m_broadcastArray, crashed, m_state,
                       dataReceivedSignal, received, clientThread, slot>>
    PROVE  Feed!Leave(h) \/ Feed!Flush(h) \/ UNCHANGED Feed!feedVars
<1>1. session \in [Handles -> SessionStates]
  BY ThreadTypes
<1>2. subscriberOf' = [subscriberOf EXCEPT ![h] = "gone"]
  <2>1. subscriberOf'[h] = "gone"
    BY <1>1 DEF subscriberOf
  <2> QED
    BY <1>1, <2>1, SubscriberMoves
<1>3. CASE session[h] = "open"
  BY <1>2, <1>3, SubscriberOf, Kept DEF Feed!Leave
<1>4. CASE session[h] = "closing"
  <2>1. UNCHANGED subscriberOf
    BY <1>2, <1>4, SubscriberOf DEF subscriberOf
  <2> QED
    BY <2>1, Kept, Stutters DEF Feed!Flush
<1> QED
  BY <1>3, <1>4

LEMMA SubscribeRefined ==
    ASSUME TypeOK, NEW h \in Handles, session[h] = "open",
           NEW slots \in Seq(Slots), slots # <<>>, NEW s \in Slots, s.hdl = h,
           \A j \in DOMAIN slots : slots[j] = s, subscribeMessages(slots),
           UNCHANGED <<session, outbox, m_broadcastArray, slot, crashed>>
    PROVE  Feed!Subscribe(s)
<1>1. wantedOf' = wantedOf \cup {s}
  BY SubscribedWanted
<1>2. UNCHANGED <<m_state, dataReceivedSignal, received, clientThread>>
  BY DEF subscribeMessages, endPointVars
<1> QED
  BY <1>1, <1>2, Kept, SubscriberOf DEF Feed!Subscribe

LEMMA RequestRefined ==
    ASSUME TypeOK, FeedInv, NEW h \in Handles, on_message_request(h)
    PROVE  (\E s \in Slots : Feed!Subscribe(s)) \/ UNCHANGED Feed!feedVars
<1> DEFINE request == Head(inbox[h])
<1>1. /\ session[h] = "open"
      /\ UNCHANGED <<session, outbox, m_broadcastArray, slot, crashed>>
  BY onMessageCases
<1>2. request \in Requests
  <2>1. inbox[h] \in Seq(Requests \cup {CloseFrame, Eof}) /\ inbox[h] # <<>>
        /\ request \notin {CloseFrame, Eof}
    BY DEF on_message_request, takeRequest, TypeOK, WsServerTypeOK
  <2> QED
    BY <2>1
<1>3. ASSUME UNCHANGED m_sendFutures, UNCHANGED endPointVars \/ Connects
      PROVE  UNCHANGED Feed!feedVars
  <2>1. UNCHANGED <<sourceOf, feedOf>>
    BY <1>3, SourceKept
  <2>2. UNCHANGED <<received, clientThread>>
    BY <1>3 DEF endPointVars, Connects
  <2> QED
    BY <1>1, <1>3, <2>1, <2>2, Kept, Stutters
<1>4. CASE handle_add_aggregator(h, request.host)
  <2>1. PICK id \in Ids \cup {NoId} : connect(request.host, id)
    BY <1>4 DEF handle_add_aggregator
  <2>2. UNCHANGED m_sendFutures
    BY <1>4 DEF handle_add_aggregator
  <2>3. UNCHANGED endPointVars \/ Connects
    BY <2>1, ConnectCases
  <2> QED
    BY <1>3, <2>2, <2>3
<1>5. CASE handle_clear_aggregator(h) \/ forward(h, request.action)
  BY <1>3, <1>5 DEF handle_clear_aggregator, forward
<1>6. CASE /\ request.action = "subscribe"
           /\ subscribeMessages(<<[hdl |-> h, channel |-> request.channel]>>)
  <2> DEFINE s == [hdl |-> h, channel |-> request.channel]
  <2>1. s \in Slots /\ s.hdl = h
    <3>1. request.channel \in Channels
      BY <1>2, <1>6 DEF Requests
    <3> QED
      BY <3>1, BroadcasterAssumption
  <2>2. subscribeMessages(<<s>>)
    BY <1>6
  <2> HIDE DEF s
  <2>3. <<s>> \in Seq(Slots) /\ <<s>> # <<>> /\ \A j \in DOMAIN <<s>> : <<s>>[j] = s
    BY <2>1
  <2> QED
    BY <1>1, <2>1, <2>2, <2>3, SubscribeRefined
<1>7. ASSUME NEW s, s = [hdl |-> h, channel |-> "other"],
             subscribeMessages(<<s, s>>)
      PROVE  \E to \in Slots : Feed!Subscribe(to)
  <2>1. s \in Slots /\ s.hdl = h
    BY <1>7, BroadcasterAssumption
  <2>2. /\ <<s, s>> \in Seq(Slots) /\ <<s, s>> # <<>>
        /\ \A j \in DOMAIN <<s, s>> : <<s, s>>[j] = s
    BY <2>1
  <2> QED
    BY <1>1, <1>7, <2>1, <2>2, SubscribeRefined
<1> HIDE DEF request
<1> QED
  BY <1>4, <1>5, <1>6, <1>7 DEF on_message_request, request

LEMMA SessionRefined ==
    ASSUME TypeOK, FeedInv, NEW h \in Handles,
           Consumer(h) \/ on_connection(h) \/ Dispatch(h) \/ io_write(h)
    PROVE  \/ Feed!Join(h) \/ Feed!Leave(h) \/ Feed!Flush(h)
           \/ \E s \in Slots : Feed!Subscribe(s)
           \/ Feed!Crash
           \/ UNCHANGED Feed!feedVars
<1> USE DEF Unserved, endPointVars, slotVars
<1>1. CASE Consumer(h)
  <2>1. UNCHANGED <<session, outbox>> /\ UNCHANGED Unserved
    BY <1>1 DEF Consumer, sendRequest, disconnect
  <2> QED
    BY <2>1, Kept, Stutters
<1>2. CASE on_connection(h)
  BY <1>2, JoinRefined
<1>3. CASE on_message_request(h)
  BY <1>3, RequestRefined
<1>4. CASE io_close_frame(h)
  <2>1. /\ session[h] = "open"
        /\ session' = [session EXCEPT ![h] = "closing"]
        /\ UNCHANGED outbox /\ UNCHANGED Unserved
    BY <1>4 DEF io_close_frame, process_close_frame
  <2> QED
    BY <2>1, SessionEndRefined
<1>5. CASE on_close_Connection(h)
  <2>1. /\ session[h] \in {"open", "closing"}
        /\ session' = [session EXCEPT ![h] = "closed"]
        /\ outbox' = [outbox EXCEPT ![h] = <<>>]
        /\ UNCHANGED <<endPointVars, m_sendFutures, slotVars, crashed>>
    BY <1>5 DEF on_close_Connection, terminate
  <2> QED
    BY <2>1, SessionEndRefined
<1>6. CASE io_write(h)
  <2>1. /\ outbox' = [outbox EXCEPT ![h] = <<>>]
        /\ UNCHANGED session /\ UNCHANGED Unserved
    BY <1>6 DEF io_write, write_frame
  <2> QED
    BY <2>1, Kept DEF Feed!Flush
<1>7. CASE on_message_request_throws(h)
  BY <1>7, ThrowsRefined DEF Throws
<1> QED
  BY <1>1, <1>2, <1>3, <1>4, <1>5, <1>6, <1>7 DEF Dispatch

(***************************************************************************)
(* The connections.                                                        *)
(***************************************************************************)
LEMMA MovesRefined ==
    ASSUME TypeOK, FeedInv, NEW id \in Ids, Moves(id), UNCHANGED Elsewhere
    PROVE  Feed!Begin(id) \/ Feed!End(id) \/ UNCHANGED Feed!feedVars
<1>0. /\ UNCHANGED <<session, outbox, m_sendFutures, m_broadcastArray, slot,
                     crashed>>
      /\ UNCHANGED <<subscriberOf, wantedOf>>
  BY Kept DEF Elsewhere, wsServerVars, slotVars
<1>t. /\ m_state \in [Ids -> States] /\ received \in [Ids -> 0..MaxData]
      /\ slot # NotRunning => clientThread.at = "on_message"
      /\ \A i \in Ids : received[i] \in Int
  BY ThreadTypes, EndPointAssumption DEF FeedInv, CallInHandler
<1>1. CASE handle_read_http_response(id)
  <2>1. /\ clientThread = Idle /\ clientThread' = [at |-> "opening", id |-> id]
        /\ m_state[id] = "connecting"
        /\ m_state' = [m_state EXCEPT ![id] = "open"]
        /\ UNCHANGED <<dataReceivedSignal, received>>
    BY <1>1 DEF handle_read_http_response
  <2>2. slot = NotRunning
    BY <1>t, <2>1 DEF Idle
  <2>3. UNCHANGED sourceOf
    BY <1>t, <2>1 DEF sourceOf, Idle
  <2>4. UNCHANGED <<callOf, handled>>
    BY <1>0, <2>1, <2>2 DEF callOf, handled, Pending, Idle
  <2> QED
    BY <1>0, <2>1, <2>3, <2>4, Kept, Stutters
<1>2. ASSUME m_state' = [m_state EXCEPT ![id] = "closed"], clientThread = Idle,
             UNCHANGED <<dataReceivedSignal, received, clientThread>>
      PROVE  Feed!End(id)
  <2>1. sourceOf' = [sourceOf EXCEPT ![id] = "ended"]
    BY <1>t, <1>2 DEF sourceOf, Idle
  <2> QED
    BY <1>0, <1>2, <2>1, Kept DEF Feed!End
<1>3. CASE on_fail(id) \/ on_close(id)
  BY <1>2, <1>3 DEF on_fail, on_close
<1>4. CASE peer_close(id)
  <2>1. /\ m_state[id] = "open"
        /\ m_state' = [m_state EXCEPT ![id] = "closing"]
        /\ UNCHANGED <<dataReceivedSignal, received, clientThread>>
    BY <1>4 DEF peer_close
  <2>2. UNCHANGED sourceOf
    BY <1>t, <2>1 DEF sourceOf
  <2> QED
    BY <1>0, <2>1, <2>2, Kept, Stutters
<1>5. CASE on_open_default(id)
  <2>1. /\ clientThread = [at |-> "on_open", id |-> id] /\ clientThread' = Idle
        /\ dataReceivedSignal' = [dataReceivedSignal EXCEPT ![id] = DefaultSlot]
        /\ UNCHANGED <<m_state, received>>
    BY <1>5 DEF on_open_default
  <2>2. slot = NotRunning
    BY <1>t, <2>1
  <2>3. m_state[id] \in {"open", "closing"}
    BY <2>1 DEF FeedInv, HandlerOfLive, Idle
  <2>4. sourceOf[id] = "off" /\ sourceOf' = [sourceOf EXCEPT ![id] = "on"]
    BY <1>t, <2>1, <2>3 DEF sourceOf, Idle
  <2>5. feedOf' = [feedOf EXCEPT ![id] = NoSlot]
    BY <2>1, FeedMoves, EndPointAssumption
  <2>6. UNCHANGED <<callOf, handled>>
    BY <1>0, <2>1, <2>2 DEF callOf, handled, Pending, Idle
  <2> QED
    BY <1>0, <2>4, <2>5, <2>6 DEF Feed!Begin
<1>6. CASE on_message(id)
  <2>1. /\ clientThread = Idle /\ clientThread' = [at |-> "on_message", id |-> id]
        /\ received' = [received EXCEPT ![id] = @ + 1]
        /\ UNCHANGED <<m_state, dataReceivedSignal>>
    BY <1>6 DEF on_message
  <2>2. slot = NotRunning
    BY <1>t, <2>1 DEF Idle
  <2>3. UNCHANGED <<sourceOf, callOf>>
    BY <1>0, <2>1, <2>2 DEF sourceOf, callOf, Idle
  <2>4. UNCHANGED handled
    <3>1. \A i \in Ids : ~Pending(i) /\ (Pending(i)' <=> i = id)
      BY <1>0, <2>1, <2>2 DEF Pending, Idle
    <3>2. received'[id] - 1 = received[id] /\ \A i \in Ids \ {id} : received'[i] = received[i]
      BY <1>t, <2>1
    <3> QED
      BY <3>1, <3>2 DEF handled
  <2> QED
    BY <1>0, <2>1, <2>3, <2>4, Kept, Stutters
<1>7. CASE on_open(id)
  <2>1. /\ clientThread = [at |-> "opening", id |-> id]
        /\ clientThread' = [at |-> "on_open", id |-> id]
        /\ UNCHANGED <<m_state, dataReceivedSignal, received>>
    BY <1>7 DEF on_open
  <2>2. slot = NotRunning
    BY <1>t, <2>1
  <2>3. UNCHANGED sourceOf
    BY <2>1 DEF sourceOf
  <2>4. UNCHANGED <<callOf, handled>>
    BY <1>0, <2>1, <2>2 DEF callOf, handled, Pending
  <2> QED
    BY <1>0, <2>1, <2>3, <2>4, Kept, Stutters
<1>8. CASE on_malformed(id)
  <2>1. /\ clientThread = Idle /\ clientThread' = [at |-> "on_malformed", id |-> id]
        /\ UNCHANGED <<m_state, dataReceivedSignal, received>>
    BY <1>8 DEF on_malformed, endPointVarsButThread
  <2>2. slot = NotRunning
    BY <1>t, <2>1 DEF Idle
  <2>3. UNCHANGED sourceOf
    BY <2>1 DEF sourceOf, Idle
  <2>4. UNCHANGED <<callOf, handled>>
    BY <1>0, <2>1, <2>2 DEF callOf, handled, Pending, Idle
  <2> QED
    BY <1>0, <2>1, <2>3, <2>4, Kept, Stutters
<1> QED
  BY <1>1, <1>3, <1>4, <1>5, <1>6, <1>7, <1>8 DEF Moves

(***************************************************************************)
(* The tasks.                                                              *)
(***************************************************************************)
LEMMA TaskRefined ==
    ASSUME IInv, NEW i \in DOMAIN m_sendFutures, SubscribeTask(i)
    PROVE  \/ \E id \in Ids, s \in Slots : Feed!Feed(id, s)
           \/ \E s \in Slots : Feed!Settle(s)
           \/ Feed!Crash
           \/ UNCHANGED Feed!feedVars
<1> DEFINE s == m_sendFutures[i].slot
<1>t. TypeOK /\ TasksOfListed
  BY DEF IInv
<1>1. /\ s \in Slots
      /\ \/ UNCHANGED dataReceivedSignal
         \/ \E id \in m_ids \cap Ids :
               dataReceivedSignal' = [dataReceivedSignal EXCEPT ![id] = s]
  BY <1>t, TaskStep
<1>2. s \in wantedOf /\ wantedOf' \in {wantedOf, wantedOf \ {s}}
  BY <1>t, TaskSettles
<1>3. /\ UNCHANGED <<m_state, received, clientThread, session, outbox,
                     m_broadcastArray>>
      /\ \/ UNCHANGED slot
         \/ slot # NotRunning /\ slot' = [slot EXCEPT !.freed = TRUE]
  BY SubscribeSlot
<1>4. UNCHANGED <<callOf, handled>>
  <2>1. CASE UNCHANGED slot
    BY <1>3, <2>1, Kept
  <2>2. CASE slot # NotRunning /\ slot' = [slot EXCEPT !.freed = TRUE]
    <3>1. /\ slot.of = slot'.of /\ slot.at = slot'.at
          /\ slot.at \in {"posting", "sleeping"} /\ slot' # NotRunning
      BY <1>t, <2>2, SlotFields DEF Running, NotRunning
    <3>2. \A id : Pending(id)' = Pending(id)
      BY <1>3, <2>2, <3>1 DEF Pending
    <3> QED
      BY <1>3, <2>2, <3>1, <3>2 DEF callOf, handled
  <2> QED
    BY <1>3, <2>1, <2>2
<1>5. UNCHANGED <<subscriberOf, sourceOf>>
  BY <1>3, Kept
<1>6. CASE UNCHANGED crashed /\ UNCHANGED dataReceivedSignal
  BY <1>1, <1>2, <1>3, <1>4, <1>5, <1>6, Kept, Stutters DEF Feed!Settle
<1>7. ASSUME UNCHANGED crashed, NEW id \in Ids,
             dataReceivedSignal' = [dataReceivedSignal EXCEPT ![id] = s]
      PROVE  Feed!Feed(id, s)
  <2>1. feedOf' = [feedOf EXCEPT ![id] = s]
    BY <1>t, <1>1, <1>7, FeedMoves
  <2> QED
    BY <1>2, <1>3, <1>4, <1>5, <1>7, <2>1 DEF Feed!Feed
<1>8. CASE ~UNCHANGED crashed
  <2>1. crashed' = TRUE /\ UNCHANGED <<dataReceivedSignal, m_sendFutures>>
    BY <1>8
    DEF SubscribeTask, subscribe_start, subscribe_install, subscribe_dangling,
        subscribe_lost, endPointVars
  <2> QED
    BY <1>3, <1>4, <1>5, <2>1, Kept DEF Feed!Crash
<1> HIDE DEF s
<1> QED
  BY <1>1, <1>6, <1>7, <1>8

(***************************************************************************)
(* The calls of the slots.                                                 *)
(***************************************************************************)
LEMMA HandledNow ==
    ASSUME TypeOK, NEW id \in Ids, Pending(id), UNCHANGED received,
           \A i \in Ids : ~Pending(i)'
    PROVE  /\ handled' = [handled EXCEPT ![id] = @ + 1]
           /\ Frame(id) = Feed!NextFrame(id)
<1>1. received[id] \in Int
  BY EndPointAssumption, ThreadTypes
<1>2. handled[id] = received[id] - 1
  BY DEF handled
<1>3. \A i \in Ids \ {id} : handled[i] = received[i]
  BY DEF handled, Pending
<1>4. /\ handled' = [i \in Ids |-> received[i]]
      /\ handled = [i \in Ids |-> handled[i]]
  BY DEF handled
<1>5. handled' = [handled EXCEPT ![id] = @ + 1]
  BY <1>1, <1>2, <1>3, <1>4
<1> QED
  BY <1>1, <1>2, <1>5 DEF Frame, Feed!NextFrame

(* A slot that has not appended or sent its frame yet.                     *)
LEMMA CalledNow ==
    ASSUME TypeOK, FeedInv, NEW id \in Ids, NEW s \in Slots, Pending(id),
           \/ slot = NotRunning /\ dataReceivedSignal[id] = s
           \/ slot # NotRunning /\ slot.of = s
    PROVE  Feed!CalledFor(id, s)
<1>1. CASE slot = NotRunning
  BY <1>1 DEF Feed!CalledFor, callOf, Feed!NoCall, NotRunning, feedOf
<1>2. CASE slot # NotRunning
  BY <1>2 DEF Feed!CalledFor, callOf, Feed!Call, Pending
<1> QED
  BY <1>1, <1>2

(* What the end of a call, and a call that has appended, leave of it.      *)
LEMMA CallLeft ==
    /\ endCall => callOf' = Feed!NoCall /\ \A i : ~Pending(i)'
    /\ \A id, s, freed :
         append(id, s, freed) /\ clientThread = [at |-> "on_message", id |-> id]
         => callOf' = Feed!Call(id, s, "gathered") /\ \A i : ~Pending(i)'
<1>1. endCall => callOf' = Feed!NoCall /\ \A i : ~Pending(i)'
  BY DEF endCall, callOf, Pending, Feed!NoCall, NotRunning, Idle
<1>2. ASSUME NEW id, NEW s, NEW freed, append(id, s, freed),
             clientThread = [at |-> "on_message", id |-> id]
      PROVE  callOf' = Feed!Call(id, s, "gathered") /\ \A i : ~Pending(i)'
  <2>1. /\ slot' = [of |-> s, at |-> "sleeping", freed |-> freed]
        /\ UNCHANGED clientThread
    BY <1>2 DEF append
  <2>2. slot'.at = "sleeping" /\ slot'.of = s /\ slot' # NotRunning
    BY <2>1 DEF NotRunning
  <2> QED
    BY <1>2, <2>1, <2>2 DEF callOf, Pending, Feed!Call
<1> QED
  BY <1>1, <1>2

LEMMA EmitsRefined ==
    ASSUME TypeOK, FeedInv, NEW id \in Ids, Emits(id)
    PROVE  \/ \E s \in Slots :
                Feed!Gather(id, s) \/ Feed!Send(id, s) \/ Feed!Answer(id, s)
           \/ Feed!Linger(id) \/ Feed!Drop(id) \/ Feed!HandOut \/ Feed!Crash
<1> USE DEF Feed!Handled
<1>1. /\ UNCHANGED <<subscriberOf, wantedOf, feedOf, received>>
      /\ clientThread = [at |-> "on_message", id |-> id]
      /\ UNCHANGED <<session, m_state, dataReceivedSignal>>
      /\ clientThread' \in {clientThread, Idle}
  BY EmitsMoves, Kept
<1>2. m_state[id] \in {"open", "closing"}
  BY <1>1 DEF FeedInv, HandlerOfLive, Idle
<1>3. sourceOf[id] = "on" /\ UNCHANGED sourceOf
  BY <1>1, <1>2 DEF sourceOf, Idle
<1>t. /\ dataReceivedSignal[id] \in Slots \cup {NoSlot, DefaultSlot}
      /\ slot = NotRunning \/ slot \in Running
  BY ThreadTypes
<1>4. ASSUME NEW s \in Slots, s.channel = "broadcast", Pending(id),
             NEW freed, append(id, s, freed), UNCHANGED crashed,
             \/ slot = NotRunning /\ dataReceivedSignal[id] = s
             \/ slot # NotRunning /\ slot.of = s
      PROVE  Feed!Gather(id, s)
  <2>1. /\ m_broadcastArray' = Append(m_broadcastArray, Frame(id))
        /\ UNCHANGED outbox
    BY <1>4 DEF append
  <2>2. callOf' = Feed!Call(id, s, "gathered") /\ \A i \in Ids : ~Pending(i)'
    BY <1>1, <1>4, CallLeft
  <2>3. /\ handled' = [handled EXCEPT ![id] = @ + 1]
        /\ Frame(id) = Feed!NextFrame(id)
    BY <1>1, <1>4, <2>2, HandledNow
  <2>4. Feed!CalledFor(id, s)
    BY <1>4, CalledNow
  <2> QED
    BY <1>1, <1>3, <1>4, <2>1, <2>2, <2>3, <2>4 DEF Feed!Gather
<1>5. ASSUME NEW s \in Slots, s.channel \in {"latest-price", "other"}, Pending(id),
             con_send(s.hdl, [frame |-> Frame(id)]), endCall,
             UNCHANGED <<m_broadcastArray, crashed>>,
             \/ slot = NotRunning /\ dataReceivedSignal[id] = s
             \/ slot # NotRunning /\ slot.of = s
      PROVE  Feed!Send(id, s)
  <2>1. callOf' = Feed!NoCall /\ \A i \in Ids : ~Pending(i)'
    BY <1>5, CallLeft
  <2>2. /\ handled' = [handled EXCEPT ![id] = @ + 1]
        /\ Frame(id) = Feed!NextFrame(id)
    BY <1>1, <1>5, <2>1, HandledNow
  <2>3. Feed!CalledFor(id, s)
    BY <1>5, CalledNow
  <2>4. Feed!Queued(s.hdl, [frame |-> Feed!NextFrame(id)])
    BY <1>5, <2>2, SlotHandle, SentIsQueued
  <2> QED
    BY <1>1, <1>3, <1>5, <2>1, <2>2, <2>3, <2>4 DEF Feed!Send
<1>6. CASE emitDataReceived(id)
  <2> DEFINE s == dataReceivedSignal[id]
  <2>1. slot = NotRunning /\ Pending(id) /\ callOf = Feed!NoCall
    BY <1>6 DEF emitDataReceived, Pending, callOf, Feed!NoCall, NotRunning
  <2>2. ASSUME s \notin Slots \/ s.channel = "other", endCall,
               UNCHANGED <<outbox, m_broadcastArray, crashed>>
        PROVE  Feed!Drop(id)
    <3>1. callOf' = Feed!NoCall /\ \A i \in Ids : ~Pending(i)'
      BY <2>2, CallLeft
    <3>2. handled' = [handled EXCEPT ![id] = @ + 1]
      BY <1>1, <2>1, <3>1, HandledNow
    <3>3. feedOf[id] # NoSlot => feedOf[id].channel = "other"
      BY <2>2 DEF feedOf
    <3> QED
      BY <1>1, <1>3, <2>1, <2>2, <3>1, <3>2, <3>3 DEF Feed!Drop
  <2>3. CASE s = DefaultSlot
    <3>1. endCall /\ UNCHANGED <<outbox, m_broadcastArray, crashed>>
      BY <1>6, <2>3, EndPointAssumption DEF emitDataReceived
    <3> QED
      BY <2>2, <2>3, <3>1, EndPointAssumption
  <2>4. ASSUME crashed' = TRUE,
               UNCHANGED <<outbox, m_broadcastArray, slot, clientThread>>
        PROVE  Feed!Crash
    BY <1>1, <1>3, <2>4, Kept DEF Feed!Crash
  <2>5. CASE s = NoSlot \/ (s \in Slots /\ ~Alive(s.hdl))
    <3>1. crashed' = TRUE /\ UNCHANGED <<outbox, m_broadcastArray, slot, clientThread>>
      BY <1>6, <2>5, EndPointAssumption DEF emitDataReceived
    <3> QED
      BY <2>4, <3>1
  <2>6. CASE s \in Slots /\ Alive(s.hdl)
    <3>1. UNCHANGED crashed
      BY <1>6, <2>6, EndPointAssumption DEF emitDataReceived
    <3>2. CASE /\ slot' = [of |-> s, at |-> "posting", freed |-> FALSE]
               /\ UNCHANGED <<outbox, m_broadcastArray, clientThread>>
      <4>1. slot'.at = "posting" /\ slot'.of = s /\ slot' # NotRunning
        BY <3>2 DEF NotRunning
      <4>2. \A i : Pending(i)' <=> Pending(i)
        BY <2>1, <3>2, <4>1 DEF Pending
      <4>3. UNCHANGED handled
        BY <1>1, <4>2 DEF handled
      <4>4. feedOf[id] = s /\ s # NoSlot
        BY <2>6, EndPointAssumption DEF feedOf
      <4>5. callOf' = Feed!Call(id, s, "called")
        BY <1>1, <3>2, <4>1 DEF callOf, Feed!Call
      <4> QED
        BY <1>1, <1>3, <2>1, <3>1, <3>2, <4>3, <4>4, <4>5 DEF Feed!Linger
    <3>3. CASE s.channel = "broadcast" /\ append(id, s, FALSE)
      BY <1>4, <2>1, <2>6, <3>1, <3>3
    <3>4. CASE s.channel = "latest-price" /\ sendLatest(id, s)
      BY <1>5, <2>1, <2>6, <3>1, <3>4 DEF sendLatest
    <3>5. CASE /\ s.channel = "other"
               /\ \/ con_send(s.hdl, [frame |-> Frame(id)])
                  \/ UNCHANGED outbox
               /\ endCall
               /\ UNCHANGED m_broadcastArray
      BY <1>5, <2>1, <2>2, <2>6, <3>1, <3>5
    <3> QED
      BY <1>6, <2>6, <3>2, <3>3, <3>4, <3>5, EndPointAssumption
      DEF emitDataReceived
  <2> QED
    BY <1>t, <2>3, <2>5, <2>6
<1>7. CASE emit_posted(id)
  <2> DEFINE s == slot.of
  <2>1. /\ slot # NotRunning /\ s \in Slots /\ Pending(id)
        /\ UNCHANGED crashed
    BY <1>t, <1>7 DEF emit_posted, Pending, Running
  <2>2. CASE s.channel = "broadcast" /\ append(id, s, slot.freed)
    BY <1>4, <2>1, <2>2
  <2>3. CASE s.channel = "latest-price" /\ sendLatest(id, s)
    BY <1>5, <2>1, <2>3 DEF sendLatest
  <2>4. CASE /\ s.channel = "unsubscribe"
             /\ con_send(s.hdl, Processed)
             /\ endCall
             /\ UNCHANGED m_broadcastArray
    <3>1. callOf' = Feed!NoCall /\ \A i \in Ids : ~Pending(i)'
      BY <2>4, CallLeft
    <3>2. handled' = [handled EXCEPT ![id] = @ + 1]
      BY <1>1, <2>1, <3>1, HandledNow
    <3>3. Feed!CalledFor(id, s)
      BY <2>1, CalledNow
    <3>4. Feed!Queued(s.hdl, Processed)
      BY <2>1, <2>4, SlotHandle, SentIsQueued
    <3>5. Feed!Answer(id, s)
      BY <1>1, <1>3, <2>1, <2>4, <3>1, <3>2, <3>3, <3>4 DEF Feed!Answer
    <3> QED
      BY <2>1, <3>5
  <2> QED
    BY <1>7, <2>1, <2>2, <2>3, <2>4 DEF emit_posted
<1>8. CASE emit_batch(id)
  <2>1. /\ slot # NotRunning /\ slot.at = "sleeping" /\ slot.of \in Slots
        /\ endCall /\ UNCHANGED crashed
    BY <1>t, <1>8 DEF emit_batch, Running
  <2>2. /\ callOf = Feed!Call(id, slot.of, "gathered")
        /\ callOf # Feed!NoCall /\ callOf.at = "gathered" /\ callOf.to = slot.of
    BY <1>1, <2>1 DEF callOf, Feed!Call, Feed!NoCall
  <2>3. callOf' = Feed!NoCall /\ \A i \in Ids : ~Pending(i)'
    BY <2>1, CallLeft
  <2>4. \A i \in Ids : ~Pending(i)
    BY <2>1 DEF Pending
  <2>5. UNCHANGED handled
    BY <1>1, <2>3, <2>4 DEF handled
  <2>6. IF Len(m_broadcastArray) = 2
        THEN /\ Feed!Queued(slot.of.hdl, [batch |-> m_broadcastArray])
             /\ m_broadcastArray' = <<>>
        ELSE UNCHANGED <<outbox, m_broadcastArray>>
    BY <1>8, <2>1, SlotHandle, SentIsQueued DEF emit_batch
  <2> QED
    BY <1>1, <1>3, <2>1, <2>2, <2>3, <2>5, <2>6 DEF Feed!HandOut
<1>9. CASE emit_freed(id)
  <2>1. crashed' = TRUE /\ UNCHANGED <<outbox, m_broadcastArray, slot, clientThread>>
    BY <1>9 DEF emit_freed, endPointVars, wsServerVars, slotVars
  <2> QED
    BY <1>1, <1>3, <2>1, Kept DEF Feed!Crash
<1> QED
  BY <1>6, <1>7, <1>8, <1>9 DEF Emits

(***************************************************************************)
(* Every step.                                                             *)
(***************************************************************************)
LEMMA StepRefined ==
    ASSUME IInv, FeedInv, [Next]_vars
    PROVE  [Feed!FeedNext]_(Feed!feedVars)
<1>t. TypeOK
  BY DEF IInv
<1>1. CASE UNCHANGED vars
  <2>1. /\ UNCHANGED <<session, m_sendFutures, m_state, clientThread, slot,
                       dataReceivedSignal, received>>
        /\ UNCHANGED <<m_broadcastArray, outbox, crashed>>
    BY <1>1 DEF vars, endPointVars, wsServerVars, slotVars
  <2> QED
    BY <2>1, Kept, Stutters
<1>2. CASE ~crashed /\ Handler
  BY <1>2, ServerRefined DEF Feed!FeedNext
<1>3. ASSUME ~crashed, NEW h \in Handles,
             Consumer(h) \/ on_connection(h) \/ Dispatch(h) \/ io_write(h)
      PROVE  [Feed!FeedNext]_(Feed!feedVars)
  BY <1>t, <1>3, SessionRefined DEF Feed!FeedNext
<1>4. ASSUME ~crashed, NEW id \in Ids,
             Connected(id) \/ Closed(id) \/ ClientHandler(id) \/ Host(id)
      PROVE  [Feed!FeedNext]_(Feed!feedVars)
  <2>1. CASE Moves(id) /\ UNCHANGED Elsewhere
    BY <1>t, <1>4, <2>1, MovesRefined DEF Feed!FeedNext
  <2>2. CASE Emits(id)
    BY <1>t, <1>4, <2>2, EmitsRefined DEF Feed!FeedNext
  <2>3. CASE on_message_throws(id)
    BY <1>4, <2>3, ThrowsRefined DEF Throws, Feed!FeedNext
  <2> QED
    BY <1>4, <2>1, <2>2, <2>3, EndPointSteps
<1>5. ASSUME ~crashed, NEW i \in DOMAIN m_sendFutures, SubscribeTask(i)
      PROVE  [Feed!FeedNext]_(Feed!feedVars)
  BY <1>5, TaskRefined DEF Feed!FeedNext
<1> QED
  BY <1>1, <1>2, <1>3, <1>4, <1>5 DEF Next

(* Whoever subscribes, steals a slot, leaves or clears meanwhile, each     *)
(* frame an endpoint's thread takes is handled once, in order, for the     *)
(* subscription whose slot was called for it; frames to broadcast leave by *)
(* twos; and only a subscription, or the end of the EndPoint, replaces the *)
(* slot of a connection that is open.                                      *)
THEOREM FeedImplemented == Spec => ImplementsBroadcastFeed
<1>1. IInv /\ FeedInv /\ [Next]_vars => [Feed!FeedNext]_(Feed!feedVars)
  BY StepRefined
<1> QED
  BY <1>1, InitRefined, FeedInvariance, PTL
  DEF Spec, ImplementsBroadcastFeed, Feed!FeedSpec
=============================================================================
