----------------------------- MODULE FeedRelay -----------------------------
(***************************************************************************)
(* What the TradingAggregator promises its consumers: every source they    *)
(* ask for is theirs alone; once a source feeds its consumer, each of its  *)
(* frames is queued for it as it comes, without a gap, between the notices *)
(* the server sends; and the notice that the sources were closed is true.  *)
(* All that holds while the process runs: a text that cannot be read, or   *)
(* that comes for a consumer that is gone, may end it.                     *)
(***************************************************************************)
EXTENDS Naturals, Sequences

CONSTANTS
    Consumers,
    Sources,        \* connections to providers, each used once
    Nobody,
    Notices,        \* what a consumer may be told
    AllClosed       \* the notice that no source is left

VARIABLES
    consumer,       \* "absent", "present" or "gone"
    asked,          \* the sources each consumer asked for
    live,           \* the sources that are connected or being connected
    feeds,          \* the consumer each source feeds, if any
    count,          \* frames each source has sent
    queue,          \* notices and frames on their way to each consumer
    up              \* the process runs

relayVars == <<consumer, asked, live, feeds, count, queue, up>>

Frame(s, n) == [id |-> s, n |-> n]

RelayInit ==
    /\ consumer = [c \in Consumers |-> "absent"]
    /\ asked = [c \in Consumers |-> {}]
    /\ live = {}
    /\ feeds = [s \in Sources |-> Nobody]
    /\ count = [s \in Sources |-> 0]
    /\ queue = [c \in Consumers |-> <<>>]
    /\ up = TRUE

Queued(c, m) ==
    queue' = IF consumer[c] = "present"
             THEN [queue EXCEPT ![c] = Append(@, m)]
             ELSE queue

Join(c) ==
    /\ consumer[c] = "absent"
    /\ consumer' = [consumer EXCEPT ![c] = "present"]
    /\ UNCHANGED <<asked, live, feeds, count, queue, up>>

(* What was queued may be lost with the consumer. *)
Leave(c) ==
    /\ consumer[c] = "present"
    /\ consumer' = [consumer EXCEPT ![c] = "gone"]
    /\ queue' \in {queue, [queue EXCEPT ![c] = <<>>]}
    /\ UNCHANGED <<asked, live, feeds, count, up>>

(* All that is queued leaves. *)
Flush(c) ==
    /\ queue' = [queue EXCEPT ![c] = <<>>]
    /\ UNCHANGED <<consumer, asked, live, feeds, count, up>>

Ask(c, s) ==
    /\ consumer[c] = "present"
    /\ \A d \in Consumers : s \notin asked[d]
    /\ asked' = [asked EXCEPT ![c] = @ \cup {s}]
    /\ live' = live \cup {s}
    /\ UNCHANGED <<consumer, feeds, count, queue, up>>

Notify(c, m) ==
    /\ m = AllClosed => live = {}
    /\ Queued(c, m)
    /\ UNCHANGED <<consumer, asked, live, feeds, count, up>>

Feed(c, s) ==
    /\ s \in asked[c]
    /\ feeds' = [feeds EXCEPT ![s] = c]
    /\ UNCHANGED <<consumer, asked, live, count, queue, up>>

(* A feed may only be forgotten before its first frame. *)
Forget(s) ==
    /\ count[s] = 0
    /\ feeds' = [feeds EXCEPT ![s] = Nobody]
    /\ UNCHANGED <<consumer, asked, live, count, queue, up>>

(* The next frame of s comes. *)
Relay(s) ==
    /\ count' = [count EXCEPT ![s] = @ + 1]
    /\ IF feeds[s] = Nobody
       THEN UNCHANGED queue
       ELSE Queued(feeds[s], Frame(s, count[s] + 1))
    /\ UNCHANGED <<consumer, asked, live, feeds, up>>

End(s) ==
    /\ live' = live \ {s}
    /\ UNCHANGED <<consumer, asked, feeds, count, queue, up>>

(* It takes a text of somebody to end the process: of a consumer that is   *)
(* present, or of a source that feeds one.                                 *)
Crash ==
    /\ \/ \E c \in Consumers : consumer[c] = "present"
       \/ \E s \in Sources : feeds[s] # Nobody
    /\ up' = FALSE
    /\ UNCHANGED <<consumer, asked, live, feeds, count, queue>>

RelayNext ==
    /\ up
    /\ \/ \E s \in Sources : End(s) \/ Forget(s) \/ Relay(s)
       \/ Crash
       \/ \E c \in Consumers :
            \/ Flush(c) \/ Join(c) \/ Leave(c)
            \/ \E s \in Sources : Ask(c, s) \/ Feed(c, s)
            \/ \E m \in Notices : Notify(c, m)

RelaySpec == RelayInit /\ [][RelayNext]_relayVars
=============================================================================
