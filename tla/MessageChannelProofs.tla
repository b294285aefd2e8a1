------------------------ MODULE MessageChannelProofs ------------------------
(***************************************************************************)
(* WsConnection implements MessageChannel: for every number of threads,    *)
(* messages and frames, data and pongs leave in the order in which they    *)
(* were queued, none behind a close frame counts as sent, and none is lost *)
(* before the connection ends.                                             *)
(***************************************************************************)
EXTENDS WsConnectionProofs

(***************************************************************************)
(* What comes before the first close frame of a sequence.                  *)
(***************************************************************************)
LEMMA BeforeCloseAll ==
    ASSUME NEW s \in Seq(Messages), ~Has(s, IsClose)
    PROVE  BeforeClose(s) = s
<1>1. {i \in 1..Len(s) : IsClose(s[i])} = {}
  BY DEF Has
<1> QED
  BY <1>1 DEF BeforeClose, SelectInSeq

LEMMA FirstClose ==
    ASSUME NEW s \in Seq(Messages), Has(s, IsClose)
    PROVE  \E k \in 1..Len(s) :
              /\ IsClose(s[k])
              /\ \A i \in 1..(k - 1) : ~IsClose(s[i])
              /\ BeforeClose(s) = SubSeq(s, 1, k - 1)
<1> DEFINE I == {i \in 1..Len(s) : IsClose(s[i])}
           first == Min(I)
<1>1. I # {} /\ I \in SUBSET Nat
  BY DEF Has
<1>2. SelectInSeq(s, IsClose) = first
  BY <1>1 DEF SelectInSeq
<1>3. first \in I /\ \A i \in I : first <= i
  <2> HIDE DEF I
  <2> QED
    BY <1>1, MinChosen
<1> HIDE DEF first
<1>4. first \in 1..Len(s) /\ IsClose(s[first])
  BY <1>3
<1>5. \A i \in 1..(first - 1) : i \notin I
  BY <1>3, <1>4
<1>6. \A i \in 1..(first - 1) : ~IsClose(s[i])
  BY <1>4, <1>5
<1>7. BeforeClose(s) = SubSeq(s, 1, first - 1)
  BY <1>2, <1>4 DEF BeforeClose
<1> QED
  BY <1>4, <1>6, <1>7

LEMMA FirstCloseUnique ==
    ASSUME NEW s \in Seq(Messages), NEW k \in 1..Len(s), IsClose(s[k]),
           \A i \in 1..(k - 1) : ~IsClose(s[i])
    PROVE  BeforeClose(s) = SubSeq(s, 1, k - 1)
<1>1. Has(s, IsClose)
  BY DEF Has
<1>2. PICK j \in 1..Len(s) :
        /\ IsClose(s[j])
        /\ \A i \in 1..(j - 1) : ~IsClose(s[i])
        /\ BeforeClose(s) = SubSeq(s, 1, j - 1)
  BY <1>1, FirstClose
<1>3. ~(j < k) /\ ~(k < j)
  BY <1>2
<1>4. j = k
  BY <1>3
<1> QED
  BY <1>2, <1>4

LEMMA BeforeCloseType ==
    ASSUME NEW s \in Seq(Messages)
    PROVE  BeforeClose(s) \in Seq(Messages)
<1>1. CASE Has(s, IsClose)
  <2>1. PICK k \in 1..Len(s) : BeforeClose(s) = SubSeq(s, 1, k - 1)
    BY <1>1, FirstClose
  <2> QED
    BY <2>1
<1>2. CASE ~Has(s, IsClose)
  BY <1>2, BeforeCloseAll
<1> QED
  BY <1>1, <1>2

(* The elements and the prefixes of a sequence that is put together.       *)
LEMMA ConcatElements ==
    ASSUME NEW s \in Seq(Messages), NEW t \in Seq(Messages)
    PROVE  /\ s \o t \in Seq(Messages)
           /\ Len(s) \in Nat /\ Len(t) \in Nat
           /\ Len(s \o t) = Len(s) + Len(t)
           /\ \A i \in 1..Len(s) : (s \o t)[i] = s[i]
           /\ \A i \in 1..Len(t) : (s \o t)[Len(s) + i] = t[i]
           /\ \A i \in (Len(s) + 1)..(Len(s) + Len(t)) :
                 (s \o t)[i] = t[i - Len(s)]
  OBVIOUS

LEMMA PrefixOfConcat ==
    ASSUME NEW s \in Seq(Messages), NEW t \in Seq(Messages)
    PROVE  /\ \A k \in 0..Len(s) : SubSeq(s \o t, 1, k) = SubSeq(s, 1, k)
           /\ \A k \in 0..Len(t) :
                 SubSeq(s \o t, 1, Len(s) + k) = s \o SubSeq(t, 1, k)
           /\ SubSeq(s \o t, Len(s) + 1, Len(s \o t)) = t
<1> DEFINE st == s \o t
<1>0. /\ st \in Seq(Messages)
      /\ Len(s) \in Nat /\ Len(t) \in Nat /\ Len(st) = Len(s) + Len(t)
      /\ \A i \in 1..Len(s) : st[i] = s[i]
      /\ \A i \in 1..Len(t) : st[Len(s) + i] = t[i]
      /\ \A i \in (Len(s) + 1)..(Len(s) + Len(t)) : st[i] = t[i - Len(s)]
  BY ConcatElements
<1> HIDE DEF st
<1>1. ASSUME NEW k \in 0..Len(s) PROVE SubSeq(st, 1, k) = SubSeq(s, 1, k)
  <2>1. /\ SubSeq(st, 1, k) \in Seq(Messages) /\ SubSeq(s, 1, k) \in Seq(Messages)
        /\ Len(SubSeq(st, 1, k)) = k /\ Len(SubSeq(s, 1, k)) = k
        /\ \A i \in 1..k : SubSeq(st, 1, k)[i] = SubSeq(s, 1, k)[i]
    BY <1>0
  <2> QED
    BY <2>1, SeqEqual
<1>2. ASSUME NEW k \in 0..Len(t)
      PROVE  SubSeq(st, 1, Len(s) + k) = s \o SubSeq(t, 1, k)
  <2> DEFINE n == Len(s) + k
             left == SubSeq(st, 1, n)
             front == SubSeq(t, 1, k)
             right == s \o front
  <2>1. /\ n \in 0..Len(st)
        /\ left \in Seq(Messages) /\ Len(left) = n
        /\ \A i \in 1..n : left[i] = st[i]
    BY <1>0
  <2>2. /\ front \in Seq(Messages) /\ Len(front) = k
        /\ \A i \in 1..k : front[i] = t[i]
    BY <1>0
  <2> HIDE DEF front
  <2>3. /\ right \in Seq(Messages) /\ Len(right) = n
        /\ \A i \in 1..Len(s) : right[i] = s[i]
        /\ \A i \in (Len(s) + 1)..n : right[i] = front[i - Len(s)]
    <3>1. /\ right \in Seq(Messages) /\ Len(right) = Len(s) + k
          /\ \A i \in 1..Len(s) : right[i] = s[i]
          /\ \A i \in (Len(s) + 1)..(Len(s) + k) :
                right[i] = front[i - Len(s)]
      BY <2>2, ConcatElements
    <3> QED
      BY <3>1
  <2> HIDE DEF left, right
  <2>4. ASSUME NEW i \in 1..n PROVE left[i] = right[i]
    <3>1. CASE i \in 1..Len(s)
      BY <1>0, <2>1, <2>3, <3>1
    <3>2. CASE i \notin 1..Len(s)
      <4>1. i \in (Len(s) + 1)..n /\ i - Len(s) \in 1..k /\ i \in 1..n
        BY <1>0, <3>2
      <4>2. i \in (Len(s) + 1)..(Len(s) + Len(t))
        BY <1>0, <4>1
      <4>3. left[i] = t[i - Len(s)] /\ right[i] = t[i - Len(s)]
        BY <1>0, <2>1, <2>2, <2>3, <4>1, <4>2
      <4> QED
        BY <4>3
    <3> QED
      BY <3>1, <3>2
  <2>5. left = right
    BY <2>1, <2>3, <2>4, SeqEqual
  <2> QED
    BY <2>5 DEF left, right, front
<1>3. SubSeq(st, Len(s) + 1, Len(st)) = t
  <2> DEFINE back == SubSeq(st, Len(s) + 1, Len(st))
  <2>1. /\ back \in Seq(Messages) /\ Len(back) = Len(t)
        /\ \A i \in 1..Len(t) : back[i] = t[i]
    BY <1>0
  <2> QED
    BY <2>1, SeqEqual
<1> QED
  BY <1>1, <1>2, <1>3 DEF st

LEMMA BeforeCloseConcat ==
    ASSUME NEW s \in Seq(Messages), NEW t \in Seq(Messages)
    PROVE  BeforeClose(s \o t) =
              IF Has(s, IsClose) THEN BeforeClose(s) ELSE s \o BeforeClose(t)
<1> DEFINE st == s \o t
<1>0. /\ st \in Seq(Messages)
      /\ Len(s) \in Nat /\ Len(t) \in Nat /\ Len(st) = Len(s) + Len(t)
      /\ \A i \in 1..Len(s) : st[i] = s[i]
      /\ \A i \in 1..Len(t) : st[Len(s) + i] = t[i]
      /\ \A i \in (Len(s) + 1)..(Len(s) + Len(t)) : st[i] = t[i - Len(s)]
  BY ConcatElements
<1> HIDE DEF st
<1>1. CASE Has(s, IsClose)
  <2>1. PICK k \in 1..Len(s) :
          /\ IsClose(s[k])
          /\ \A i \in 1..(k - 1) : ~IsClose(s[i])
          /\ BeforeClose(s) = SubSeq(s, 1, k - 1)
    BY <1>1, FirstClose
  <2>2. /\ k \in 1..Len(st) /\ k - 1 \in 0..Len(s) /\ st[k] = s[k]
        /\ \A i \in 1..(k - 1) : i \in 1..Len(s) /\ st[i] = s[i]
    BY <1>0
  <2>3. BeforeClose(st) = SubSeq(st, 1, k - 1)
    <3>1. IsClose(st[k]) /\ \A i \in 1..(k - 1) : ~IsClose(st[i])
      BY <2>1, <2>2
    <3> QED
      BY <1>0, <2>2, <3>1, FirstCloseUnique
  <2>4. SubSeq(st, 1, k - 1) = SubSeq(s, 1, k - 1)
    BY <2>2, PrefixOfConcat DEF st
  <2> QED
    BY <1>1, <2>1, <2>3, <2>4 DEF st
<1>2. CASE ~Has(s, IsClose) /\ Has(t, IsClose)
  <2>1. PICK k \in 1..Len(t) :
          /\ IsClose(t[k])
          /\ \A i \in 1..(k - 1) : ~IsClose(t[i])
          /\ BeforeClose(t) = SubSeq(t, 1, k - 1)
    BY <1>2, FirstClose
  <2> DEFINE m == Len(s) + k
  <2>2. /\ m \in 1..Len(st) /\ k - 1 \in 0..Len(t) /\ st[m] = t[k]
        /\ m - 1 = Len(s) + (k - 1)
    BY <1>0
  <2>3. ASSUME NEW i \in 1..(m - 1) PROVE ~IsClose(st[i])
    <3>1. CASE i \in 1..Len(s)
      BY <1>0, <1>2, <3>1 DEF Has
    <3>2. CASE i \notin 1..Len(s)
      <4>1. /\ i \in (Len(s) + 1)..(Len(s) + Len(t))
            /\ i - Len(s) \in 1..(k - 1)
        BY <1>0, <3>2
      <4> QED
        BY <1>0, <2>1, <4>1
    <3> QED
      BY <3>1, <3>2
  <2> HIDE DEF m
  <2>4. BeforeClose(st) = SubSeq(st, 1, m - 1)
    <3>1. IsClose(st[m])
      BY <2>1, <2>2
    <3> QED
      BY <1>0, <2>2, <2>3, <3>1, FirstCloseUnique
  <2>5. SubSeq(st, 1, m - 1) = s \o SubSeq(t, 1, k - 1)
    <3>1. SubSeq(st, 1, Len(s) + (k - 1)) = s \o SubSeq(t, 1, k - 1)
      <4>1. \A j \in 0..Len(t) :
              SubSeq(st, 1, Len(s) + j) = s \o SubSeq(t, 1, j)
        BY PrefixOfConcat DEF st
      <4> QED
        BY <2>2, <4>1
    <3> QED
      BY <2>2, <3>1
  <2> QED
    BY <1>2, <2>1, <2>4, <2>5 DEF st
<1>3. CASE ~Has(s, IsClose) /\ ~Has(t, IsClose)
  <2>1. ~Has(st, IsClose)
    BY <1>3, HasClose DEF st
  <2> QED
    BY <1>0, <1>3, <2>1, BeforeCloseAll DEF st
<1> QED
  BY <1>1, <1>2, <1>3

LEMMA BeforeCloseOne ==
    ASSUME NEW f \in Messages, IsClose(f)
    PROVE  BeforeClose(<<f>>) = <<>>
<1>1. BeforeClose(<<f>>) = SubSeq(<<f>>, 1, 1 - 1)
  <2> DEFINE s == <<f>>
  <2>1. /\ s \in Seq(Messages) /\ 1 \in 1..Len(s) /\ IsClose(s[1])
        /\ \A i \in 1..(1 - 1) : ~IsClose(s[i])
    OBVIOUS
  <2> HIDE DEF s
  <2>2. BeforeClose(s) = SubSeq(s, 1, 1 - 1)
    BY <2>1, FirstCloseUnique
  <2> QED
    BY <2>2 DEF s
<1> QED
  BY <1>1

(***************************************************************************)
(* The channel in a state of the connection.                               *)
(***************************************************************************)
Quiet == ~Has(wire, IsClose) /\ ~Has(Unwritten, IsClose)

LEMMA SequenceTypes ==
    ASSUME TypeOK
    PROVE  /\ wire \in Seq(Messages)
           /\ m_current_msgs \in Seq(Messages)
           /\ m_send_queue \in Seq(Messages)
           /\ Unwritten \in Seq(Messages)
  BY DEF TypeOK, Unwritten

LEMMA SessionOf ==
    ASSUME ~shut, m_state # "connecting"
    PROVE  /\ Quiet => ChannelSession = "open"
           /\ ~Quiet => ChannelSession = "closing"
  BY DEF ChannelSession, Quiet

LEMMA SessionOfNext ==
    ASSUME ~shut', m_state' # "connecting"
    PROVE  /\ Quiet' => ChannelSession' = "open"
           /\ ~Quiet' => ChannelSession' = "closing"
  BY DEF ChannelSession, Quiet

LEMMA SameStutters ==
    ASSUME UNCHANGED <<wire, shut>>, Unwritten' = Unwritten,
           m_state' = "connecting" <=> m_state = "connecting"
    PROVE  UNCHANGED Channel!vars
  BY DEF Channel!vars, ChannelSession, ChannelQueue

LEMMA ShutStutters ==
    ASSUME shut, shut', UNCHANGED wire
    PROVE  UNCHANGED Channel!vars
  BY DEF Channel!vars, ChannelSession, ChannelQueue

(* The connection ends and what it wrote last either left or did not.      *)
LEMMA EndRefined ==
    ASSUME ~shut, shut',
           BeforeClose(wire') \in
              {BeforeClose(wire), BeforeClose(wire) \o ChannelQueue}
    PROVE  Channel!End
<1>1. ChannelSession # "closed" /\ ChannelSession' = "closed"
  BY DEF ChannelSession
<1>2. ChannelQueue' = <<>>
  BY DEF ChannelQueue
<1> QED
  BY <1>1, <1>2 DEF Channel!End

LEMMA InitRefined == Init => Channel!Init
<1> SUFFICES ASSUME Init PROVE Channel!Init
  OBVIOUS
<1>1. wire = <<>> /\ Unwritten = <<>> /\ ~shut /\ m_state = "connecting"
  BY DEF Init, Unwritten
<1>2. <<>> \in Seq(Messages) /\ ~Has(<<>>, IsClose)
  BY DEF Has
<1>3. BeforeClose(<<>>) = <<>>
  BY <1>2, BeforeCloseAll
<1> QED
  BY <1>1, <1>3 DEF Channel!Init, ChannelSession, ChannelQueue

(***************************************************************************)
(* The steps that do not write.                                            *)
(***************************************************************************)
LEMMA StaysRefined ==
    ASSUME Stays
    PROVE  UNCHANGED Channel!vars
<1>1. UNCHANGED <<wire, shut>> /\ Unwritten' = Unwritten
  BY DEF Stays, FramesKept, Unwritten
<1>2. m_state' = "connecting" <=> m_state = "connecting"
  BY DEF Stays
<1> QED
  BY <1>1, <1>2, SameStutters

LEMMA OpensRefined ==
    ASSUME IntactWhileOpen, Opens
    PROVE  Channel!Open
<1>1. UNCHANGED <<wire, shut>> /\ Unwritten' = Unwritten
  BY DEF Opens, FramesKept, Unwritten
<1>2. m_state = "connecting" /\ m_state' = "open" /\ ~shut /\ Quiet
  BY DEF Opens, IntactWhileOpen, Quiet
<1>3. ChannelSession = "connecting" /\ ChannelSession' = "open"
  BY <1>1, <1>2 DEF ChannelSession, Quiet
<1>4. UNCHANGED ChannelQueue
  BY <1>1 DEF ChannelQueue
<1> QED
  BY <1>1, <1>3, <1>4 DEF Channel!Open

LEMMA EndsRefined ==
    ASSUME Ends
    PROVE  Channel!End \/ UNCHANGED Channel!vars
<1>1. shut' /\ UNCHANGED wire
  BY DEF Ends, FramesKept
<1>2. CASE shut
  BY <1>1, <1>2, ShutStutters
<1>3. CASE ~shut
  BY <1>1, <1>3, EndRefined
<1> QED
  BY <1>2, <1>3

LEMMA QueuesRefined ==
    ASSUME TypeOK, NEW f \in Messages, Queues(f)
    PROVE  \/ Channel!Accept(f) /\ f \in DataFrames \cup {Pong}
           \/ Channel!Shut
           \/ UNCHANGED Channel!vars
<1>1. /\ UNCHANGED <<wire, shut>>
      /\ m_state # "connecting" /\ m_state' # "connecting"
  BY DEF Queues
<1>2. /\ Unwritten \in Seq(Messages) /\ wire \in Seq(Messages)
      /\ Unwritten' = Unwritten \o <<f>>
  BY QueuesUnwritten, SequenceTypes
<1>3. <<f>> \in Seq(Messages) /\ (Has(<<f>>, IsClose) <=> IsClose(f))
  BY HasOne
<1>4. Has(Unwritten', IsClose) <=> Has(Unwritten, IsClose) \/ IsClose(f)
  BY <1>2, <1>3, HasClose
<1>5. BeforeClose(Unwritten') =
         IF Has(Unwritten, IsClose) THEN BeforeClose(Unwritten)
         ELSE Unwritten \o BeforeClose(<<f>>)
  BY <1>2, <1>3, BeforeCloseConcat
<1>6. CASE shut
  BY <1>1, <1>6, ShutStutters
<1>7. CASE ~shut /\ ~Quiet
  <2>1. ~Quiet' /\ ~shut'
    BY <1>1, <1>4, <1>7 DEF Quiet
  <2>2. ChannelSession' = ChannelSession
    BY <1>1, <1>7, <2>1, SessionOf, SessionOfNext
  <2>3. ChannelQueue' = ChannelQueue
    BY <1>1, <1>5, <1>7 DEF ChannelQueue, Quiet
  <2> QED
    BY <1>1, <2>2, <2>3 DEF Channel!vars
<1>8. CASE ~shut /\ Quiet
  <2>1. ChannelSession = "open" /\ ~shut'
    BY <1>1, <1>8, SessionOf
  <2>2. ChannelQueue = Unwritten
    BY <1>2, <1>8, BeforeCloseAll DEF ChannelQueue, Quiet
  <2>3. ChannelQueue' = Unwritten \o BeforeClose(<<f>>)
    BY <1>1, <1>5, <1>8 DEF ChannelQueue, Quiet
  <2>4. CASE IsClose(f)
    <3>1. ~Quiet'
      BY <1>4, <2>4 DEF Quiet
    <3>2. ChannelSession' = "closing"
      BY <1>1, <2>1, <3>1, SessionOfNext
    <3>3. ChannelQueue' = ChannelQueue
      BY <1>2, <2>2, <2>3, <2>4, BeforeCloseOne
    <3> QED
      BY <1>1, <2>1, <3>2, <3>3 DEF Channel!Shut
  <2>5. CASE ~IsClose(f)
    <3>1. Quiet'
      BY <1>1, <1>4, <1>8, <2>5 DEF Quiet
    <3>2. ChannelSession' = "open"
      BY <1>1, <2>1, <3>1, SessionOfNext
    <3>3. ChannelQueue' = Append(ChannelQueue, f)
      <4>1. BeforeClose(<<f>>) = <<f>>
        BY <1>3, <2>5, BeforeCloseAll
      <4>2. Append(Unwritten, f) = Unwritten \o <<f>>
        BY <1>2, AppendIsConcat
      <4> QED
        BY <2>2, <2>3, <4>1, <4>2
    <3>4. f \in DataFrames \cup {Pong}
      BY <2>5 DEF Messages, CloseFrame, IsClose
    <3> QED
      BY <1>1, <2>1, <3>2, <3>3, <3>4 DEF Channel!Accept
  <2> QED
    BY <2>4, <2>5
<1> QED
  BY <1>6, <1>7, <1>8

(***************************************************************************)
(* The steps that write.                                                   *)
(***************************************************************************)
LEMMA NotConnecting ==
    ASSUME IdleWhileConnecting, "handle_write_frame" \in pending
    PROVE  m_state # "connecting"
  BY DEF IdleWhileConnecting, Handshakes

LEMMA write_frameRefined ==
    ASSUME TypeOK, FlagOwned, write_frame
    PROVE  UNCHANGED Channel!vars
  BY write_frameKeeps, SameStutters

(* Only a close frame is terminal, so a write that ends without a close    *)
(* frame leaves the connection as it was.                                  *)
LEMMA NotTerminal ==
    ASSUME NEW s \in Seq(Messages), s # <<>>, ~Has(s, IsClose)
    PROVE  ~IsTerminal(Last(s))
<1>1. Len(s) \in DOMAIN s /\ Last(s) = s[Len(s)] /\ Last(s) \in Messages
  BY DEF Last
<1>2. ~IsClose(Last(s))
  BY <1>1 DEF Has
<1>3. ASSUME NEW f \in Messages PROVE IsTerminal(f) => IsClose(f)
  <2>1. CASE f \in DataFrames
    <3>1. f.terminal \in {FALSE}
      BY <2>1 DEF DataFrames
    <3> QED
      BY <3>1 DEF IsTerminal
  <2>2. CASE f = Pong
    BY <2>2 DEF IsTerminal, Pong
  <2>3. CASE \E b \in BOOLEAN : f = CloseFrame(b)
    BY <2>3 DEF IsClose, CloseFrame
  <2> QED
    BY <2>1, <2>2, <2>3 DEF Messages
<1> QED
  BY <1>1, <1>2, <1>3

(* A write of frames in front of the first close frame delivers them.      *)
LEMMA FramesDelivered ==
    ASSUME TypeOK, m_current_msgs # <<>>, ~Has(m_current_msgs, IsClose),
           ~Has(wire, IsClose), ~shut, ~shut',
           m_state # "connecting", m_state' = m_state,
           Unwritten' = m_send_queue, wire' = wire \o m_current_msgs
    PROVE  Channel!Deliver
<1> DEFINE cur == m_current_msgs
           rest == BeforeClose(m_send_queue)
           n == Len(cur)
<1>1. /\ cur \in Seq(Messages) /\ m_send_queue \in Seq(Messages)
      /\ wire \in Seq(Messages) /\ rest \in Seq(Messages)
  BY SequenceTypes, BeforeCloseType
<1>2. ~Has(wire', IsClose)
  BY <1>1, HasClose
<1>3. BeforeClose(wire) = wire /\ BeforeClose(wire') = wire \o cur
  <2>1. wire' \in Seq(Messages)
    BY <1>1
  <2> QED
    BY <1>1, <1>2, <2>1, BeforeCloseAll
<1>4. Has(Unwritten, IsClose) <=> Has(m_send_queue, IsClose)
  BY <1>1, HasClose DEF Unwritten
<1>5. ChannelSession \in {"open", "closing"} /\ UNCHANGED ChannelSession
  <2>1. Has(Unwritten', IsClose) <=> Has(Unwritten, IsClose)
    BY <1>4
  <2>2. Quiet' <=> Quiet
    BY <1>2, <2>1 DEF Quiet
  <2> QED
    BY <2>2, SessionOf, SessionOfNext
<1>6. ChannelQueue = cur \o rest
  <2>1. BeforeClose(Unwritten) = cur \o rest
    BY <1>1, BeforeCloseConcat DEF Unwritten
  <2> QED
    BY <2>1 DEF ChannelQueue
<1>7. ChannelQueue' = rest
  BY <1>2 DEF ChannelQueue
<1> HIDE DEF cur, rest
<1>8. n \in 1..Len(cur \o rest)
  <2>1. n \in Nat /\ n # 0 /\ Len(rest) \in Nat /\ Len(cur \o rest) = n + Len(rest)
    BY <1>1 DEF cur
  <2> QED
    BY <2>1
<1>9. /\ SubSeq(cur \o rest, 1, n) = cur
      /\ SubSeq(cur \o rest, n + 1, Len(cur \o rest)) = rest
  <2>1. SubSeq(cur \o rest, 1, n) = SubSeq(cur, 1, n)
    <3>1. n \in 0..Len(cur)
      BY <1>1
    <3> QED
      BY <1>1, <3>1, PrefixOfConcat
  <2>2. SubSeq(cur, 1, n) = cur
    BY <1>1, SubSeqFull
  <2>3. SubSeq(cur \o rest, Len(cur) + 1, Len(cur \o rest)) = rest
    BY <1>1, PrefixOfConcat
  <2> QED
    BY <2>1, <2>2, <2>3
<1> QED
  BY <1>3, <1>5, <1>6, <1>7, <1>8, <1>9 DEF Channel!Deliver

(* A write that has the first close frame delivers what is in front of it. *)
LEMMA LastDelivered ==
    ASSUME TypeOK, Has(m_current_msgs, IsClose),
           ~Has(wire, IsClose), ~shut, ~shut',
           m_state # "connecting", m_state' = m_state,
           wire' = wire \o m_current_msgs
    PROVE  Channel!Deliver \/ UNCHANGED Channel!vars
<1> DEFINE before == BeforeClose(m_current_msgs)
           n == Len(before)
<1>1. /\ m_current_msgs \in Seq(Messages) /\ m_send_queue \in Seq(Messages)
      /\ wire \in Seq(Messages) /\ before \in Seq(Messages)
  BY SequenceTypes, BeforeCloseType
<1>2. BeforeClose(wire) = wire /\ BeforeClose(wire') = wire \o before
  BY <1>1, BeforeCloseAll, BeforeCloseConcat
<1>3. Has(wire', IsClose) /\ Has(Unwritten, IsClose)
  BY <1>1, HasClose DEF Unwritten
<1>4. ChannelSession = "closing" /\ ChannelSession' = "closing"
  BY <1>3, SessionOf, SessionOfNext DEF Quiet
<1>5. ChannelQueue = before /\ ChannelQueue' = <<>>
  <2>1. BeforeClose(Unwritten) = before
    BY <1>1, BeforeCloseConcat DEF Unwritten
  <2> QED
    BY <1>3, <2>1 DEF ChannelQueue
<1> HIDE DEF before
<1>6. CASE before = <<>>
  <2>1. wire \o before = wire
    BY <1>1, <1>6
  <2> QED
    BY <1>2, <1>4, <1>5, <1>6, <2>1 DEF Channel!vars
<1>7. CASE before # <<>>
  <2>1. n \in 1..Len(before)
    BY <1>1, <1>7
  <2>2. SubSeq(before, 1, n) = before
    BY <1>1, SubSeqFull
  <2>3. SubSeq(before, n + 1, Len(before)) = <<>>
    BY <1>1
  <2> QED
    BY <1>2, <1>4, <1>5, <2>1, <2>2, <2>3 DEF Channel!Deliver
<1> QED
  BY <1>6, <1>7

LEMMA handle_write_frameRefined ==
    ASSUME TypeOK, IdleWhileConnecting, FlagOwned,
           NEW ok \in BOOLEAN, handle_write_frame(ok)
    PROVE  Channel!Deliver \/ Channel!End \/ UNCHANGED Channel!vars
<1> DEFINE cur == m_current_msgs
           ended == ~ok \/ IsTerminal(Last(cur))
<1>1. /\ "handle_write_frame" \in pending
      /\ wire' = IF ok /\ ~shut THEN wire \o cur ELSE wire
      /\ IF ended THEN m_state' = "closed" /\ shut' = TRUE
                  ELSE UNCHANGED <<m_state, shut>>
      /\ Unwritten' = m_send_queue
  BY handle_write_frameParts
<1>2. m_state # "connecting" /\ cur # <<>>
  BY <1>1, NotConnecting DEF FlagOwned
<1>3. /\ wire \in Seq(Messages) /\ cur \in Seq(Messages)
      /\ m_send_queue \in Seq(Messages)
  BY SequenceTypes
<1> HIDE DEF ended
<1>4. CASE shut
  BY <1>1, <1>4, ShutStutters
<1>5. CASE ~shut /\ ~ok
  BY <1>1, <1>5, EndRefined DEF ended
<1>6. CASE ~shut /\ ok /\ Has(wire, IsClose)
  <2>1. BeforeClose(wire') = BeforeClose(wire) /\ Has(wire', IsClose)
    BY <1>1, <1>3, <1>6, BeforeCloseConcat, HasClose
  <2>2. CASE ended
    BY <1>1, <1>6, <2>1, <2>2, EndRefined
  <2>3. CASE ~ended
    <3>1. UNCHANGED <<m_state, shut>>
      BY <1>1, <2>3
    <3>2. ChannelSession' = ChannelSession /\ ChannelQueue' = ChannelQueue
      BY <1>2, <1>6, <2>1, <3>1 DEF ChannelSession, ChannelQueue
    <3> QED
      BY <2>1, <3>2 DEF Channel!vars
  <2> QED
    BY <2>2, <2>3
<1>7. CASE ~shut /\ ok /\ ~Has(wire, IsClose) /\ Has(cur, IsClose)
  <2>1. CASE ended
    <3>1. BeforeClose(wire) = wire
      BY <1>3, <1>7, BeforeCloseAll
    <3>2. BeforeClose(wire') = wire \o BeforeClose(cur)
      BY <1>1, <1>3, <1>7, BeforeCloseConcat
    <3>3. ChannelQueue = BeforeClose(cur)
      BY <1>3, <1>7, BeforeCloseConcat DEF ChannelQueue, Unwritten
    <3> QED
      BY <1>1, <1>7, <2>1, <3>1, <3>2, <3>3, EndRefined
  <2>2. CASE ~ended
    BY <1>1, <1>2, <1>7, <2>2, LastDelivered
  <2> QED
    BY <2>1, <2>2
<1>8. CASE ~shut /\ ok /\ ~Has(wire, IsClose) /\ ~Has(cur, IsClose)
  <2>1. ~ended
    BY <1>2, <1>3, <1>8, NotTerminal DEF ended
  <2> QED
    BY <1>1, <1>2, <1>8, <2>1, FramesDelivered
<1> QED
  BY <1>4, <1>5, <1>6, <1>7, <1>8

(***************************************************************************)
(* The theorem.                                                            *)
(***************************************************************************)
LEMMA StepRefined == IInv /\ [Next]_vars => [Channel!Next]_(Channel!vars)
<1> SUFFICES ASSUME IInv, [Next]_vars
             PROVE  Channel!Next \/ UNCHANGED Channel!vars
  OBVIOUS
<1>1. TypeOK /\ IdleWhileConnecting /\ FlagOwned /\ IntactWhileOpen
  BY DEF IInv
<1>2. CASE Stays
  BY <1>2, StaysRefined
<1>3. CASE Opens
  BY <1>1, <1>3, OpensRefined DEF Channel!Next
<1>4. CASE Ends
  BY <1>4, EndsRefined DEF Channel!Next
<1>5. ASSUME NEW f \in Messages, Queues(f)
      PROVE  Channel!Next \/ UNCHANGED Channel!vars
  BY <1>1, <1>5, QueuesRefined DEF Channel!Next
<1>6. CASE write_frame
  BY <1>1, <1>6, write_frameRefined
<1>7. ASSUME NEW ok \in BOOLEAN, handle_write_frame(ok)
      PROVE  Channel!Next \/ UNCHANGED Channel!vars
  BY <1>1, <1>7, handle_write_frameRefined DEF Channel!Next
<1> QED
  BY <1>1, <1>2, <1>3, <1>4, <1>5, <1>6, <1>7, LifeStep DEF Write

(* For any threads, calls and frames: the connection is one queue from the *)
(* threads to the wire.  Data and pongs leave in the order in which they   *)
(* were queued (write_push, write_frame), what is queued behind a close    *)
(* frame is not part of it (send, send_close_frame), and none is lost      *)
(* before the socket is shut down (handle_write_frame, terminate).         *)
THEOREM ChannelImplemented == Spec => ImplementsChannel
  BY InitRefined, StepRefined, Invariance, PTL
  DEF Spec, ImplementsChannel, Channel!Spec
=============================================================================
