--------------------------- MODULE BroadcastFeed ---------------------------
(***************************************************************************)
(* What the TradingBroadcaster promises its subscribers: a source feeds    *)
(* only what somebody subscribed to, and keeps feeding it until another    *)
(* subscription, or the end of all sources, replaces it; each frame of a   *)
(* source is handled once, in order, and goes where it fed when the frame  *)
(* was called for; what is gathered for broadcasting leaves by twos.       *)
(***************************************************************************)
EXTENDS Naturals, Sequences

CONSTANTS
    Subscribers,
    Sources,        \* connections to aggregators
    Subscriptions,  \* records of a hdl, who subscribed, and a channel
    Nobody,
    Notice          \* what requests are answered with

VARIABLES
    subscriber,     \* "absent", "present" or "gone"
    wanted,         \* the subscriptions that are still to take effect
    source,         \* "off", "on" or "ended"
    feeds,          \* the subscription each source feeds, if any
    call,           \* the subscription that is being called, if any
    gathered,       \* the frames waiting to be broadcast, of all sources
    count,          \* frames of each source that were handled
    queue,          \* messages on their way to each subscriber
    up              \* the process runs

feedVars ==
    <<subscriber, wanted, source, feeds, call, gathered, count, queue, up>>

NoCall == [at |-> "none"]
Call(s, to, at) == [source |-> s, to |-> to, at |-> at]
NextFrame(s) == [id |-> s, n |-> count[s] + 1]

FeedInit ==
    /\ subscriber = [c \in Subscribers |-> "absent"]
    /\ wanted = {}
    /\ source = [s \in Sources |-> "off"]
    /\ feeds = [s \in Sources |-> Nobody]
    /\ call = NoCall
    /\ gathered = <<>>
    /\ count = [s \in Sources |-> 0]
    /\ queue = [c \in Subscribers |-> <<>>]
    /\ up = TRUE

Queued(c, m) ==
    queue' = IF subscriber[c] = "present"
             THEN [queue EXCEPT ![c] = Append(@, m)]
             ELSE queue

-----------------------------------------------------------------------------
(* Subscribers *)

Join(c) ==
    /\ subscriber[c] = "absent"
    /\ subscriber' = [subscriber EXCEPT ![c] = "present"]
    /\ UNCHANGED <<wanted, source, feeds, call, gathered, count, queue, up>>

(* What was queued may be lost with the subscriber. *)
Leave(c) ==
    /\ subscriber[c] = "present"
    /\ subscriber' = [subscriber EXCEPT ![c] = "gone"]
    /\ queue' \in {queue, [queue EXCEPT ![c] = <<>>]}
    /\ UNCHANGED <<wanted, source, feeds, call, gathered, count, up>>

(* All that is queued leaves. *)
Flush(c) ==
    /\ queue' = [queue EXCEPT ![c] = <<>>]
    /\ UNCHANGED <<subscriber, wanted, source, feeds, call, gathered, count, up>>

Notify(c) ==
    /\ Queued(c, Notice)
    /\ UNCHANGED <<subscriber, wanted, source, feeds, call, gathered, count, up>>

Subscribe(to) ==
    /\ subscriber[to.hdl] = "present"
    /\ wanted' = wanted \cup {to}
    /\ UNCHANGED <<subscriber, source, feeds, call, gathered, count, queue, up>>

(* A subscription has nothing left to take effect on. *)
Settle(to) ==
    /\ wanted' = wanted \ {to}
    /\ UNCHANGED <<subscriber, source, feeds, call, gathered, count, queue, up>>

(* The last subscription is the one that a source feeds. *)
Feed(s, to) ==
    /\ to \in wanted
    /\ wanted' \in {wanted, wanted \ {to}}
    /\ feeds' = [feeds EXCEPT ![s] = to]
    /\ UNCHANGED <<subscriber, source, call, gathered, count, queue, up>>

-----------------------------------------------------------------------------
(* Sources *)

(* A source that begins forgets whom it was to feed. *)
Begin(s) ==
    /\ source[s] = "off"
    /\ source' = [source EXCEPT ![s] = "on"]
    /\ feeds' = [feeds EXCEPT ![s] = Nobody]
    /\ UNCHANGED <<subscriber, wanted, call, gathered, count, queue, up>>

End(s) ==
    /\ source' = [source EXCEPT ![s] = "ended"]
    /\ UNCHANGED <<subscriber, wanted, feeds, call, gathered, count, queue, up>>

(* All sources are given up, when none is on. *)
Clear ==
    /\ call = NoCall
    /\ \A s \in Sources : source[s] # "on"
    /\ source' = [s \in Sources |-> "off"]
    /\ feeds' = [s \in Sources |-> Nobody]
    /\ UNCHANGED <<subscriber, wanted, call, gathered, count, queue, up>>

-----------------------------------------------------------------------------
(* The frames of a source that is on *)

Handled(s) ==
    /\ source[s] = "on"
    /\ count' = [count EXCEPT ![s] = @ + 1]
    /\ UNCHANGED <<subscriber, wanted, source, feeds, up>>

(* The call takes long: it goes on with whom it was made for. *)
Linger(s) ==
    /\ call = NoCall
    /\ feeds[s] # Nobody
    /\ call' = Call(s, feeds[s], "called")
    /\ UNCHANGED <<subscriber, wanted, source, feeds, gathered, count, queue, up>>

CalledFor(s, to) ==
    \/ call = NoCall /\ feeds[s] = to
    \/ call = Call(s, to, "called")

Gather(s, to) ==
    /\ CalledFor(s, to)
    /\ to.channel = "broadcast"
    /\ gathered' = Append(gathered, NextFrame(s))
    /\ call' = Call(s, to, "gathered")
    /\ UNCHANGED queue
    /\ Handled(s)

(* Two frames leave together, to whom the second one was called for. *)
HandOut ==
    /\ call # NoCall
    /\ call.at = "gathered"
    /\ call' = NoCall
    /\ IF Len(gathered) = 2
       THEN /\ Queued(call.to.hdl, [batch |-> gathered])
            /\ gathered' = <<>>
       ELSE UNCHANGED <<queue, gathered>>
    /\ UNCHANGED <<subscriber, wanted, source, feeds, count, up>>

Send(s, to) ==
    /\ CalledFor(s, to)
    /\ to.channel \in {"latest-price", "other"}
    /\ Queued(to.hdl, [frame |-> NextFrame(s)])
    /\ call' = NoCall
    /\ UNCHANGED gathered
    /\ Handled(s)

Answer(s, to) ==
    /\ CalledFor(s, to)
    /\ to.channel = "unsubscribe"
    /\ Queued(to.hdl, Notice)
    /\ call' = NoCall
    /\ UNCHANGED gathered
    /\ Handled(s)

(* A frame that concerns nobody, or a subscription to no known channel. *)
Drop(s) ==
    /\ call = NoCall
    /\ feeds[s] # Nobody => feeds[s].channel = "other"
    /\ UNCHANGED <<call, gathered, queue>>
    /\ Handled(s)

Crash ==
    /\ up' = FALSE
    /\ UNCHANGED <<subscriber, wanted, source, feeds, call, gathered, count, queue>>

FeedNext ==
    /\ up
    /\ \/ \E c \in Subscribers : Join(c) \/ Leave(c) \/ Flush(c) \/ Notify(c)
       \/ \E to \in Subscriptions : Subscribe(to) \/ Settle(to)
       \/ \E s \in Sources, to \in Subscriptions :
             Feed(s, to) \/ Gather(s, to) \/ Send(s, to) \/ Answer(s, to)
       \/ \E s \in Sources : Begin(s) \/ End(s) \/ Linger(s) \/ Drop(s)
       \/ Clear
       \/ HandOut
       \/ Crash

FeedSpec == FeedInit /\ [][FeedNext]_feedVars
=============================================================================
