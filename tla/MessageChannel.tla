--------------------------- MODULE MessageChannel ---------------------------
(***************************************************************************)
(* What a websocketpp connection promises to the threads that send on it:  *)
(* one queue of accepted messages that leave in the order in which they    *)
(* were accepted, none accepted once the closing handshake has begun, and  *)
(* none lost before the connection ends.                                   *)
(***************************************************************************)
EXTENDS Naturals, Sequences

CONSTANT Messages

VARIABLES
    session,    \* "connecting", "open", "closing" or "closed"
    queue,      \* accepted and not yet written
    written     \* the messages that left

vars == <<session, queue, written>>

Init ==
    /\ session = "connecting"
    /\ queue = <<>>
    /\ written = <<>>

(* The opening handshake succeeds. *)
Open ==
    /\ session = "connecting"
    /\ session' = "open"
    /\ UNCHANGED <<queue, written>>

(* A message is accepted. *)
Accept(m) ==
    /\ session = "open"
    /\ queue' = Append(queue, m)
    /\ UNCHANGED <<session, written>>

(* The oldest messages leave together. *)
Deliver ==
    /\ session \in {"open", "closing"}
    /\ \E n \in 1..Len(queue) :
          /\ written' = written \o SubSeq(queue, 1, n)
          /\ queue' = SubSeq(queue, n + 1, Len(queue))
    /\ UNCHANGED session

(* A closing handshake begins: what was accepted may still leave. *)
Shut ==
    /\ session = "open"
    /\ session' = "closing"
    /\ UNCHANGED <<queue, written>>

(* The connection ends, after a last write or with what it holds. *)
End ==
    /\ session # "closed"
    /\ session' = "closed"
    /\ queue' = <<>>
    /\ written' \in {written, written \o queue}

Next ==
    \/ Open
    \/ \E m \in Messages : Accept(m)
    \/ Deliver
    \/ Shut
    \/ End

Spec == Init /\ [][Next]_vars
=============================================================================
