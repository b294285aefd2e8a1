# Verification of the trading services

TLA+ modules, TLC configurations and TLAPS proofs for the C++ services of this
repository: `TradingAggregator`, `TradingBroadcaster`, `StorageApi` and
`DataProvider`.  Paths below are relative to the repository's root (`src/`).

    tlc -config AggregatorFaults.cfg MCAggregator.tla      (one run)
    tlapm AggregatorProofs.tla                             (the proofs)

`PROJECT.json` lists the runs, the source lines each definition stands for, the
mutations each property was seen to reject, the hazards and the findings.

## 1. The system

    consumer --ws--> TradingBroadcaster --ws--> TradingAggregator --ws--> DataProvider
                          |                          |
                          +----------- HTTP ---------+--> StorageApi

Each box is a process.  A session runs from left to right; data flows back.

| Component | State it keeps | Operations | Talks to |
|---|---|---|---|
| `TradingAggregatorServer` | `m_client_ids` (providers to close), `m_connections` (per session), `m_sendFutures` | `onConnection`, `onMessage` (add-provider, clear-providers, clear-prices, subscribe), `onCloseConnection`, `sendMessages` task and its slot | its `EndPoint`, `StorageHttpClient`, consumers |
| `EndPoint` / `ClientHandler` (one copy in each server) | `m_connection_list`, `m_next_id`; per connection `m_status`, `dataReceivedSignal` | `connect`, `close`, `send`, `getStatus`, `get_metadata`, destructor; `on_open`, `on_fail`, `on_close`, `on_message`, `onDataReceived`, `emitDataReceived` | the upstream host; calls the slots of its owner |
| `TradingBroadcasterServer` | `m_endpoints` (endpoint -> ids), `m_ids`, `m_broadcastArray`, `m_clearedPrices`, `m_symbols`, `m_sendFutures` | add- and clear-trading-aggregators, add-provider, clear-providers, clear-prices, subscribe/unsubscribe, status; slots for broadcast, latest-price, unsubscribe, others | `EndPoint`s it creates and destroys, `StorageHttpClient`, consumers |
| `StorageHttpServer` | `symbols` (constant), `m_prices` | GET symbols/prices, POST and DELETE prices; one thread | `Price`, `Symbol` |
| `StorageHttpClient` | none | `getSymbol`, `postSymbol`, `deleteAllPrices`: blocking request, one `read_some` | storage server |
| `DataProvider` | `m_messages`, `m_sendFutures` | a sender task per session, 100 rounds of the list | consumers (the aggregators) |
| `Price`, `Symbol`, `DataProviderMessage` | records | `toJson`, `fromJson` | JSON class |
| mains, `Utils`, `Ai`, vendored code | - | start-up, an external command | - |

### What is hard, and what makes each component correct

*Concurrency.*  A server process has at least three kinds of threads: the server
thread in `m_server.run()`, in which handlers sleep, poll and wait; one
thread per `EndPoint`, which runs `ClientHandler`'s handlers and the slots; and
one `std::async` thread per provider or subscription.  `m_connectionsMutex` is
only ever taken by the server thread, so it orders nothing between them.

*Lifetime.*  Slots capture a `connection_hdl`, a weak pointer, and call
`get_con_from_hdl`, which throws once the session is gone.  The exception leaves
`m_thread`'s function: `std::terminate`.  The broadcaster also destroys an
`EndPoint` under tasks that hold references into it.

*Texts.*  `json.h` converts numbers with `std::stol`, `std::stod` and `std::stoll`
(lines 582-596), which throw on `{"a":-}` or on a number that is too long.  Both servers
parse what consumers and hosts send them where nobody catches that; only the storage
service does, and answers 500.

*Waiting.*  Both servers wait for flags and states that other threads set, or
that nobody sets, on the only thread that reads requests and writes replies.

- Aggregator: an open provider can always be found by the next clear; a feed goes
  to the session that asked and to no other, whole and in order; a session that
  closed is not fed; but for malformed texts, the process survives every order of events but a known one;
  requests are served when hosts behave.
- Broadcaster: frames are batched by two, each frame once and in order; the
  connections nobody lists stay silent; the process ends for known reasons only;
  the endpoint's destruction ends.
- Storage: a price is stored for known symbols only, under the symbol of the path;
  each call takes effect once, at one moment, and returns the answer of that
  moment; every call returns.
- DataProvider: each session gets every message of every round, in order; a task
  ends although its session is gone.
- A websocketpp connection: the user is told once that it opened or failed and that
  it ended; frames leave in the order in which they were queued, none is forgotten in
  the queue, none follows the last one; both handshakes end.

## 2. Modules

| Module | What it models | Code it stands for |
|---|---|---|
| `WsServer` | websocketpp as the servers see it: sessions, unread frames, send queue, closing handshake, the life of a hdl | `connection_impl.hpp`, as listed in `PROJECT.json` |
| `EndPoint` | `EndPoint` and `ClientHandler`, the same in both servers | `TradingAggregator/EndPoint.cpp`, `ClientHandler.cpp` |
| `FeedRelay` | *abstract*: what the aggregator promises its consumers | |
| `Aggregator` | `TradingAggregatorServer`, composed with the two above | `TradingAggregatorServer.cpp` |
| `BroadcastFeed` | *abstract*: what the broadcaster promises its subscribers | |
| `Broadcaster` | `TradingBroadcasterServer`, what its `EndPoint` has that the other has not, composed with `WsServer` and `EndPoint` | `TradingBroadcasterServer.cpp`, `TradingBroadcaster/EndPoint.cpp` |
| `DataProvider` | the `DataProvider` process, composed with `WsServer` | `DataProvider.cpp`, `DataProviderMessage.cpp` |
| `PriceStore` | *abstract*: what `StorageApi` promises its callers | |
| `Storage` | the `StorageApi` process and its callers | `StorageHttpServer.cpp`, `StorageHttpClient.cpp`, `Price.cpp` |
| `MessageChannel` | *abstract*: what a connection promises the threads that send on it | |
| `WsConnection` | one websocketpp connection, of a server or a client, with its opening and closing handshakes, read loop, write queue and timers | `connection_impl.hpp`, `connection.hpp`, `transport/asio/connection.hpp` |
| `MCAggregator`, `MCBroadcaster`, `MCDataProvider`, `MCStorage`, `MCWsConnection` | instances for TLC | |
| `AggregatorProofs`, `BroadcasterProofs`, `DataProviderProofs`, `StorageProofs`, `WsConnectionProofs` | theorems and proofs about the module of that name | |
| `FeedRelayProofs`, `BroadcastFeedProofs`, `MessageChannelProofs` | the proofs that `Aggregator`, `Broadcaster` and `WsConnection` implement the abstract module of that name, on top of the proofs of the module's invariant | |

`WsServer` and `EndPoint` hold state and operations without a `Next`.  A server
module extends both, says on which of its steps an operation happens, and leaves
what the step does not touch `UNCHANGED`.  `Aggregator`, `Broadcaster`, `Storage` and
`WsConnection` are shown to implement `FeedRelay`, `BroadcastFeed`, `PriceStore` and `MessageChannel`
(`ImplementsFeedRelay`, `ImplementsBroadcastFeed`, `ImplementsPriceStore`, `ImplementsChannel`), by TLC
on an instance and by a proof for all.  `WsConnection` has, step by step, what `WsServer` sums up.

### How state and actions correspond to the code

- `session[h]` is websocketpp's state of the session with hdl `h`.  *closed*: `terminate()`
  ran and the close handler is being called; *released*: the handler returned
  and the last `shared_ptr` of the library is gone, so a hdl locks only if
  somebody else holds the connection (`Alive`).
- `inbox[h]` is what the consumer wrote and the server did not read; a reset may
  discard it.  `outbox[h]` is `m_send_queue`; `write_frame` empties it, which
  only the server's io_service does (`dispatch` posts to it).
- `clientThread` is where the endpoint's thread is.  The opening of a connection is three
  steps, because other threads may come in between: websocketpp sets the session's state
  (`handle_read_http_response`, `connection_impl.hpp:1635`; `close()` and `send()` see it), `on_open` stores
  `m_status`, which `getStatus()` and `~EndPoint` read, and it assigns the default slot last
  (`on_open_default`).  `on_message` is two or more, because the check of the session state comes before the
  slot's call, and the broadcaster's slots sleep and call the storage service.
  `on_close` is one step: the library state and `m_status` change on one thread,
  and no reader compares the two.
- *Malformed* is a text on which `JSON::Load` throws.  As a request (`WsServer!Malformed`) it ends the
  process (`onMessage_throws`, `on_message_request_throws`); as a text of a host
  (`on_malformed`) it ends the broadcaster, which loads every text in `ClientHandler::on_message`, and
  the aggregator when a session's slot loads it, not when the default slot ignores it.
- `serverThread`, `serving`, `clientId`, `toClose`/`remaining` are the program
  counter and the locals of the handler that the server thread is in.  A handler
  is split at each sleep, at each poll and at each call that another thread can observe.
- `installing`/`holding` (aggregator) and `m_sendFutures` (broadcaster) are the
  `std::async` tasks.  `holding` is a task that has a `connection_ptr`, which keeps a
  session alive.
- `m_ids` (broadcaster) are the ids of `m_endpoints`' only entry; nobody adds a second.
  `slot` is the slot being run; `freed` says that a task replaced the
  `std::function` meanwhile.
- `FeedRelay` sees of all this the consumers that are *present* (session open), the
  ids each asked for (`m_connections`), those that are connected or being connected
  (*live*), whom each feeds (the slot, if it is a session's), the frames whose slot
  was called (`handled`: a frame in `on_message` does not count yet) and the send
  queues.  The close of a provider is its `End`, the late default slot its `Forget`, a
  handler's polls and the tasks' first half are stutters.
- `BroadcastFeed` sees the subscribers that are *present* (session open), the subscriptions whose tasks have
  not ended (`wantedOf`), the connections that are *on* (opened, and `on_open` is through), the subscription
  each of them feeds (its slot, unless that is the empty or the default one), the call under way (`callOf`:
  *called* while the slot posts, *gathered* while it sleeps), `m_broadcastArray`, the frames handled (the one in
  `on_message` counts once it is appended, sent or dropped: `Pending`) and the send queues.  A task's
  installation is a `Feed`, `destroy_join` is the `Clear`, the slot's steps are `Linger`, `Gather`, `HandOut`,
  `Send`, `Answer` and `Drop`; connecting, closing and forwarding are stutters.
- `crashed` is the end of the process.  Every action of the servers needs `~crashed`.

`DataProvider`: `sender[h]` and `turn[h]` are the program counter of the task of session
`h` and how many messages its two loops have done.  `updateTimestamp` is two steps,
the reading of the clock (`now`) and the assignment of its sum with `m_timestampDifference` to the
shared `m_messages`, and `send` is a third, because other tasks may come in between.  The sleep of 4 s
between two readings of a task is `Sleep`.  The clock is the wall clock: it may show any of
`Times`, and `clockSet` remembers that it showed less time than a sleep had taken, which takes
somebody to set it back.  `wire` is what the server's io_service has written.

`Storage`: `caller[c]` is where `sendRequest` is, `connection[c]` the server's side of
its connection.  `onHttp` is the step that changes the prices; it is the moment at which
`PriceStore!TakeEffect` happens.  A posted body on which the parser throws (`Malformed`) is answered with
`internal_server_error` (`StorageHttpServer.cpp:135`) and changes no price; one that is no object (`NotJson`) makes
`fromJson` throw a string literal, which that `catch` does not catch, and ends the service.  An answer is written in `handle_write_http_response`, so
a connection may be *lost* after the call took effect and before it was answered.
`read_some` may return the first piece of an answer (`Garbled`).

`WsConnection`: `pending` are the completion handlers of the reads and writes under way,
`posted` the calls of `write_frame` waiting in the io_service, `timers` the timers that will
call back: a cancel may come after the timer expired, and then does nothing.  `thread`
says where `send` and `close` of another thread are: *admitted* is between
`send`'s check under the state lock and its push under the write lock, *closing* and
*framing* are inside `close`.  Only `close` holds the state lock across steps.
`wire` has the writes that ended before the socket was shut down.  On a server every
thread may send; on a client the one thread that has the connection sends and
closes, which is how `EndPoint` uses it.  `MessageChannel` sees the data and the pongs, up to the first close frame: what
`send` queues behind one, because it gave the state lock back, is not part of the channel.

### Abstractions

- Messages are records of what the properties need: the status word, or the
  connection and the number of a data frame.  Symbols, prices, texts and logging
  are left out.
- `JSON::Load` has three outcomes: a value, null for what is no JSON (to the servers a request with no known
  action, or data that is forwarded as it is dumped), and an exception for a number it does not convert.
  A string without its closing quote makes `json.h` read behind the end of the text (its loop at 516 only looks
  for the quote); what that finds is not a choice between known outcomes and is left out.
- Storage calls return nothing that either server uses: in the aggregator they are
  inside the step, in the broadcaster's slots they end a step (`"posting"`),
  because `m_clearedPrices` is written after them.
- Sleeps last any time, in `DataProvider` at least what they ask for.
- Assignments of `std::function`s and accesses to `std::map`s are atomic.  The
  code races on them; what a torn access does is not a choice between known
  outcomes.  Where a race frees what a thread uses, the outcomes are "nothing
  noticed" and "the process ends" (`emit_freed`, `subscribe_lost`).
- `m_close`, `m_symbols`, `m_messages`, `m_subscription` are written and never
  read by what is modelled.
- The servers' modules take `close()` of one thread and `terminate()` of the other as two
  steps in some order.  `WsConnection` has the race between them: `terminate` does not take the lock, so
  `close` may set a connection that just ended to *closing* again, and a client's close handler
  is called a second time (`HandlersOnce` says so and that no more happens).  In these programs
  the second call of `ClientHandler::on_close` sets `m_status` to the same value again.
- `Broadcaster`: a task that reaches a destroyed endpoint either ends the process or reaches nothing.
- `Storage`: a request arrives whole or its connection is lost; bodies are a
  symbol and an amount, no JSON, or malformed.
- `DataProvider`: a frame is the index of a message and a time, in milliseconds since the
  constructor's reading (in the code since 1970, so a time that is dated back does not wrap below zero); the unchanging
  fields are left out; the 100 rounds, the differences and the sleep are constants.
- `WsConnection`: an HTTP request or response is the verdict on it; each frame has a step of its
  own; extension negotiation cannot fail, since no configuration here has an extension.

## 3. The runs

Sessions, hosts and frames are few because nothing in the code counts above two:
a second session is what one can interfere with, a second connection what a
loop can forget, a third frame what a batch of two can overflow into.
`MaxRequests` bounds what consumers send between them, `MaxConnections` the ids, and
`MaxData` the frames per connection.  In the broadcaster an `add` is sent only while the two
connections it may make fit (`IdsLeft`).  Three calls of the storage service (`MaxCalls`) let one change the
prices between two others; two messages and one round (`Messages`, `Rounds`) have every step of a
sender's loops, and a clock that shows 0 or 2 where a sleep takes 2 (`Milliseconds`) has a reading that
is right after a sleep and one that was set back; the second message is dated back by 1, less than a sleep, as the code's third is; two calls of `send` and two frames of the peer (`MaxSends`, `MaxFrames`) make a frame
queued behind a close frame and a second close frame possible.
`CHECK_DEADLOCK` is off: consumers may stop asking, a connection ends, and some waits of the
program never do.

| Run | Bounds | Distinct states | Shows |
|---|---|---|---|
| `aggregator_faults` | 2 sessions (symmetric), a faulty and an unparsable host, 2 requests of all kinds (malformed ones, too), 2 frames and a malformed one | 1,544,541 | `OpenTracked`, `CrashExplained`, `OpenSlotsAlive`, `FeedsGoToAsker`, `ProcceedAfterClose`, `ImplementsFeedRelay` and `IInv` |
| `aggregator_live` | 2 sessions, 2 requests, good host | 44,096 | every request is read, every message written, no session starves another |
| `aggregator_wait` | 1 session, dropping host | *violated* | `ClearWaitEnds` |
| `aggregator_slot` | 1 session, 1 request | *violated* | `DefaultOnlyWhenUnconnected` |
| `broadcaster_faults` | 1 session, 3 requests of all kinds but the two that clear prices (malformed ones, too), 3 ids, faulty and unparsable host | 2,848,992 | `CrashExplained` and `SecondConnectionUnused` |
| `broadcaster_feeds` | 2 sessions (symmetric), every channel, 4 frames | 662,091 | `BatchesInOrder`, `FramesOnce`, `ImplementsBroadcastFeed` and `IInv` |
| `broadcaster_live` | 1 session, 3 requests, 3 ids, 2 frames | 122,181 | `DestroyEnds`, `ClearAggregatorEnds`, `BatchLeaves`, `MessagesWritten` |
| `broadcaster_steal` | 2 sessions, 1 channel | *violated* | `SubscriberKeepsFeed` |
| `broadcaster_clear` | 1 session, 2 adds and a clear | *violated* | `ProcessedAfterClose` |
| `storage_calls` | a thread of a server and a program, 2 known symbols and an unknown one, a malformed body, 3 calls | 248,580 | `ImplementsPriceStore`, `RepostFails`, `CallsReturn` |
| `provider_frames` | 2 sessions, 2 messages, 1 round, 2 times | 338,719 | `FramesInOrder`, `FramesComplete`, `FreshWhenAlone`, `SendersEnd`, `AllFramesWritten` |
| `connection_lifecycle` | either side, 2 threads, 2 sends, 2 frames read | 132,728 | `ImplementsChannel`, `HandlersOnce`, `NoLostWakeup`, `NothingAfterAck`, `HandshakeEnds`, `CloseEnds` and `IInv` |

Symmetry permutes sessions and is used in safety runs only.

### Fairness

`Fairness` has the same parts in both trading servers:

- weak fairness of what a thread does once it is in a handler, and of the tasks: threads
  are scheduled.
- strong fairness of `Dispatch(h)` and `io_write(h)`: they are ready only
  when the server thread is in its loop, which it leaves and enters again; asio
  runs what is ready in the order it became so.
- strong fairness of the end of a connection attempt and of a closing handshake:
  websocketpp has a timer for each (`handle_open_handshake_timeout`,
  `handle_close_handshake_timeout`, `connection_impl.hpp` 1666-1696).

The other modules need weak fairness only:

- `Storage`: the callers' blocking calls, and the server's handlers; a request that arrived
  stays there until it is handled.
- `DataProvider`: each session's task (its sleeps end, whatever the clock shows), the writes, and the other
  handlers of the server.
- `WsConnection`: timers that were not cancelled expire, posted calls run, and
  a thread inside `close` goes on.  Reads and writes may never complete: `HandshakeEnds` and
  `CloseEnds` rest on the timers alone.

Consumers, hosts and peers owe nothing: they may never send, close or answer with data.
`RequestsServed` needs hosts that accept and stay, and `aggregator_wait` is
what happens otherwise.  In `aggregator_faults` a failing host also keeps
`handle_add_provider` polling for ever; no text of the repository speaks of that.

### Findings

1. `aggregator_wait`: `handle_clear_provider` waits for a local flag
   (`TradingAggregatorServer.cpp:125`) once one provider cannot be closed.
2. `aggregator_slot`: `on_open` (`ClientHandler.cpp:14`) overwrites a slot that was connected
   after it published `"Open"`: the feed is lost.
3. `broadcaster_steal`: the second subscriber takes the feed of the first
   (`TradingBroadcasterServer.cpp:47`).
4. `broadcaster_clear`: 'processed' is sent after the first close
   (`TradingBroadcasterServer.cpp:242`), while others are open or being connected.

Observed besides, and stated as what does hold: a clear of the broadcaster that finds no open aggregator
waits for ever, like that of the aggregator (`TradingBroadcasterServer.cpp:248`; `ClearAggregatorEnds` needs an
open one); a client's close handler may be called twice, where
`connection.hpp:66` promises "exactly once" (`HandlersOnce`); `postSymbol` asks for a route the storage
service has not (`RepostFails`); a piece of an answer may be taken for the whole (`PriceStore!Return`);
two sessions of the provider overwrite each other's times (`FreshWhenAlone`).

`CrashExplained` holds of both servers and says under which
circumstances an exception ends the process, malformed texts among them; what it excludes is an end by any order of
well-formed events that is not listed.  `DestroyEnds` holds, and its
premise says when the destruction does not end: `~EndPoint` reads `m_status` (`EndPoint.cpp:19`) and passes by a
connection still being attempted, and one that websocketpp has opened while `on_open` has not yet stored
the status; its `join` then waits for a connection nobody closes.

## 4. The proofs

### The aggregator

`AggregatorProofs` proves, for every set of sessions and hosts and every bound,
with no assumption but those of the modules (`EndPointAssumption`,
`WsServerAssumption`, `AggregatorAssumption`: the special values differ from
the others, the bounds are naturals, and there are as many ids as requests):

| Theorem | States |
|---|---|
| `TypeCorrect` | `Spec => []TypeOK` |
| `Invariance` | `Spec => []IInv` |
| `OpenConnectionsTracked` | `Spec => []OpenTracked` |
| `SlotsOfOpenConnectionsAlive` | `Spec => []OpenSlotsAlive` |
| `CrashesExplained` | `Spec => []CrashExplained` |
| `NoForeignData` | `Spec => []FeedsGoToAsker` |
| `ClearCloses` | `Spec => ProcceedAfterClose` |

**The argument.**  None of the properties is inductive alone.  `IInv` is their
conjunction with four facts about where the threads are:

- `ConnectionsListed`: ids below `m_next_id`, and no others, have a connection; a
  slot is only in a connection that was opened.  Without it a fresh id could
  already be fed.
- `ClientThreadInHandler`: while a handler runs on the endpoint's thread its
  connection is not *closed*, and an open connection without a slot is the one that has
  just been opened or whose `on_open` is running.  This is why an empty function is never called.
- `ServerThreadServes`: which session the handler works for, and that a session is
  *closed* only while the close handler runs for it.  It links a session's end to
  the clear that precedes its release.
- `FeedsOfLiveSessions`: whoever a connection feeds, now (`dataReceivedSignal`) or
  when its tasks have run (`installing`, `holding`), asked for it and, if it is
  gone, the connection is not open.  The tasks must be part of it: a
  late task is what could bring an expired hdl back.

With `OpenTracked` - a clear under way still has before it every connection that is
open - the step that releases a session finds nothing open, and
`FeedsOfLiveSessions` is kept.  `CrashExplained` follows: if the
connection of a running slot were open, its session would not be gone; so it
is closing, or the text it handles is malformed.  `ClearCloses` is `OpenTracked` in the state before the answer.

Each invariant part has a lemma `...Step` with a case per action; the
theorems combine them.  `IInv` is also an invariant of `aggregator_faults`, as that of the broadcaster is of `broadcaster_feeds`.

`FeedRelayProofs` proves `RelayImplemented`, the whole of `ImplementsFeedRelay`.  It needs two
facts more, `RelayInv`: nobody has asked for an id that `connect` did not hand out
yet, so a new source is its asker's alone (`Ask`); and no frame comes before `on_open` is through,
so the default slot that replaces a session's forgets no frame (`Forget`).  Each
group of actions has a lemma `...Refined` that names the abstract step; `FeedsOfLiveSessions` is
what makes the installation of a slot a `Feed`.  `Crash` only asks that a consumer be present or a source
feed one, since malformed texts may come from either at any moment; when the process may end is the subject of
`CrashExplained`, not of the refinement.

### The broadcaster

`BroadcasterProofs` proves, for every set of sessions, channels and hosts and every bound
(`BroadcasterAssumption`, `EndPointAssumption` and `WsServerAssumption`):

| Theorem | States |
|---|---|
| `TypeCorrect` | `Spec => []TypeOK` |
| `Invariance` | `Spec => []IInv` |
| `CrashesForKnownReasons` | `Spec => []CrashExplained` |
| `UnlistedConnectionsSilent` | `Spec => []SecondConnectionUnused` |
| `BatchesOrdered` | `Spec => []BatchesInOrder` |
| `FramesHandedOutOnce` | `Spec => []FramesOnce` |

`IInv` adds to them:

- `ArrayDrained`: two frames in `m_broadcastArray` belong to the slot that is in its sleep and
  will send them.  Without it `append` could make a third.
- `SignalsAssigned`: an open connection has a slot, or it has just been opened and its `on_open` is about to assign one.  It is why
  no empty function is called.
- `SlotsOfSessions`: who is in a slot, or in the slot a task carries, was connected once; so a slot
  whose session is not alive belongs to one that was released, the reason of `CrashExplained` that speaks of a subscriber that is gone.
- `TasksOfListed`, `ForwardedToListed`: the ids a task has left to visit, and those a request is still to be
  forwarded to, are listed as long as they can be reached.  They carry
  `SecondConnectionUnused`, which speaks of the ids that are not listed.
- `FramesPast`: no frame in a queue or in the array is newer than the last one received on its connection, and
  the one `on_message` is handling is in none of them until its slot has appended or sent it (`Pending`).
  A frame that is queued or appended is therefore later than all others of its connection, and in no other message.
- `ArrayInOrder`: the frames of a connection stand in the array in their order; so a batch is in order when it leaves.

What a step does to the frames is one of four cases (`EmitCases`, `FrameStep`): it queues no frame, appends one, sends
one alone or hands out the array.  `QuietStep`, `AppendsStep`, `SendsFrameStep` and `SendsBatchStep` keep
`FramesPast`, `ArrayInOrder`, `BatchesInOrder` and `FramesOnce` in each.  A batch is compared with what is
queued before it through the array it was: that is why `BatchesInOrder` and `FramesOnce` speak of
`m_broadcastArray`, too.

`BroadcastFeedProofs` proves `FeedImplemented`, the whole of `ImplementsBroadcastFeed`.  It needs `FeedInv`, besides
`IInv`: a handler runs for a connection that is open or closing (`HandlerOfLive`), so a frame is that of a source that is on; a slot
runs inside `on_message` only (`CallInHandler`), so the array cannot be handed out for a call that ended and
the end of an `EndPoint` finds no call under way (`Clear`); and an id not handed out yet has no connection
(`FreshIds`).  The lemmas `...Refined` name the abstract step of each group of actions.  A subscription stays wanted while
a task carries it, which is what lets a late task `Feed` (`TaskSettles`).

### The storage service

`StorageProofs` proves `IInv` (types, and that caller, connection and answer of a call agree),
`RepostFails` as an action property, and `Implementation`, which is the whole of
`ImplementsPriceStore`: the initial states map to initial states and each action to
the step of `PriceStore` named there or to a stutter.  A lost connection maps to
nothing; the return of its caller maps to `Return`.  `PriceStore` refuses a malformed body
and leaves the prices as they are, which is the branch at `StorageHttpServer.cpp:135`.

### The data provider

`DataProviderProofs` proves `FramesInOrder`, `FramesComplete` and `FreshWhenAlone`
for any number of sessions, messages and rounds.  `FreshWhenAlone` rests on `TimestampAssumption`: the differences of two
messages are less than a sleep apart, as they are in the code (503 ms at most, against 4000).  `IInv` adds `TasksWalk` (a task that runs has
messages left, one that has not begun is at the first, and before its first message nothing was sent) and
`OwnTime`: while a task is alone and the clock is not set, what it read for each frame it has sent, that is the frame's time without its
difference, is no later than its last reading, and earlier by a sleep once it has read again; and it finds in the list what it
stored.  A frame is then later than the one before it by at least a sleep less what their differences take away.

### A websocketpp connection

`WsConnectionProofs` proves `HandlersOnce`, `NoLostWakeup`, `NothingAfterAck` and types for any number of threads,
calls and frames.  `IInv` adds:

- `IdleWhileConnecting`: before the session opens nothing is queued, posted or sent, so the write path need not
  know of the opening handshake.
- `HandlersCounted`: the calls of the close handler, and those still to come (`CallsToCome`: one for a session that
  is open or closing, one for a `close` that passed its check), are at most one on a server
  and two on a client.  This is the count that `terminate` moves from one side to the other.
- `FlagOwned`: `m_write_flag` is set as long as a write is under way, and for ever after the last one; if it is
  clear, `m_current_msgs` is empty.  `NoLostWakeup` follows step by step.
- `TerminalLast`: a terminal frame is the last of what is being written, and once written the
  socket is shut down: nothing can follow.  It rests on `ReadyTakes`, that `write_frame` takes a prefix of the queue up to
  the first terminal frame.
- `IntactWhileOpen`: as long as the session connects or is open the socket is not shut down and no close frame is queued or
  written; `close` changes `m_state` before it queues its frame.

`MessageChannelProofs` proves `ChannelImplemented`, the whole of `ImplementsChannel`.  The channel is *closing* from the moment
a close frame is queued, not from `m_state`: between the two a thread that passed `send`'s check is still accepted.
The heart of it is `BeforeClose`, what stands before the first close frame: it distributes over `\o` unless the left part
has one, `write_frame` leaves `m_current_msgs \o m_send_queue` as it was (`ReadyTakes`), and
`handle_write_frame` moves a prefix of it to the wire (`Deliver`, or `End` when the last frame was terminal).
`IntactWhileOpen` is why a message sent while the session is open has no close frame before it, and `FlagOwned` why
`write_frame` finds `m_current_msgs` empty and keeps the order when it fills it.

**Only model-checked**: liveness (`RequestsServed`, `MessagesWritten`, `DestroyEnds`, `ClearAggregatorEnds`, `BatchLeaves`,
`CallsReturn`, `SendersEnd`, `AllFramesWritten`, `HandshakeEnds`, `CloseEnds`), which rests on fairness and so on
`ENABLED`.  Every invariant and action property of a passing run is a theorem.

## 5. Not modelled

- The mains and `Utils` read two ports before anything runs; `Ai` starts an external command.
- `Symbol::fromJson` and `DataProviderMessage::fromJson` are never called.  `record_sent_message` and
  `handleSubscriptionMessage` neither.
- `EndPoint`'s destructor in the aggregator never runs, because `m_server.run()` does not return.
- Of websocketpp: framing and masking, HTTP texts, TLS, paused reading, deferred HTTP responses, pings of
  our own: no program here uses them or depends on more than their verdict.
- JSON, curl and asio are vendored and pure data, or an operating-system interface.  They
  are by far most of the lines in the tree, which is why the share of all lines that the definitions
  stand for is small although every service is modelled.
- What a torn `std::function` or `std::map` does: see the abstractions.

## 6. Plan

Done, in this order: `WsServer`, `EndPoint`, `Aggregator`, `Broadcaster`, `PriceStore` and `Storage`, `DataProvider`,
`MessageChannel` and `WsConnection`, `FeedRelay`, `BroadcastFeed`, each with its runs and proofs.  Next:

1. `TradingSystem`: a broadcaster session as the consumer of `FeedRelay`, so that
   a forwarded `add-provider` and the status that comes back are one behaviour.
