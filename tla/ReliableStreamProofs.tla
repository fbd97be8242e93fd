------------------------ MODULE ReliableStreamProofs ------------------------
(***************************************************************************)
(* Proofs about ReliableStream, for every window size, sequence space,     *)
(* retry limit, ACK policy and amount of data.                             *)
(***************************************************************************)
EXTENDS ReliableStream, SeqNumProofs, FiniteSetTheorems, SequenceTheorems, TLAPS

-----------------------------------------------------------------------------
(***************************************************************************)
(* The congestion window.                                                  *)
(***************************************************************************)
\* Quotient and rest of the fractional accumulator.
LEMMA DivRest ==
  ASSUME NEW m \in Nat \ {0}, NEW a \in Nat
  PROVE  /\ (a \div m) \in Nat
         /\ a - ((a \div m) * m) \in Nat
  OBVIOUS

\* An ACK keeps the window between MinCwnd and MaxCwnd.
LEMMA AckAdvanceType ==
  ASSUME NEW c \in CongestionState, NEW k \in Nat
  PROVE  onAckAdvance(c, k) \in CongestionState
<1> DEFINE accum == c.caAccum + k  inc == accum \div c.cwnd
<1>1. /\ c.cwnd \in MinCwnd .. MaxCwnd /\ c.cwnd \in Nat \ {0}
      /\ c.ssthresh \in Nat \ {0} /\ accum \in Nat
      /\ c = [cwnd |-> c.cwnd, ssthresh |-> c.ssthresh, caAccum |-> c.caAccum]
  BY CwndAssumption DEF CongestionState
<1>2. inc \in Nat /\ accum - (inc * c.cwnd) \in Nat
  <2> HIDE DEF accum
  <2> QED BY <1>1, DivRest
<1>3. ASSUME NEW j \in Nat PROVE Capped(c.cwnd + j) \in MinCwnd .. MaxCwnd
  BY <1>1, CwndAssumption DEF Capped
<1>4. CASE k <= 0
  BY <1>4 DEF onAckAdvance
<1>5. CASE ~(k <= 0) /\ c.cwnd < c.ssthresh
  BY <1>1, <1>3, <1>5 DEF onAckAdvance, CongestionState
<1>6. CASE ~(k <= 0) /\ ~(c.cwnd < c.ssthresh)
  <2> HIDE DEF inc, accum
  <2>1. Capped(c.cwnd + inc) \in MinCwnd .. MaxCwnd
    BY <1>2, <1>3
  <2>2. onAckAdvance(c, k) = [c EXCEPT !.caAccum = accum - (inc * c.cwnd),
                                       !.cwnd = Capped(c.cwnd + inc)]
    BY <1>6 DEF onAckAdvance, inc, accum
  <2> QED BY <1>1, <1>2, <2>1, <2>2 DEF CongestionState
<1> QED BY <1>4, <1>5, <1>6

\* So does a loss.
LEMMA LossType ==
  ASSUME NEW c \in CongestionState, NEW cut
  PROVE  onLoss(c, cut) \in CongestionState
<1>1. c.cwnd \in MinCwnd .. MaxCwnd /\ c.cwnd \in Nat
  BY CwndAssumption DEF CongestionState
<1>2. (c.cwnd \div 2) \in Nat /\ (c.cwnd \div 2) <= c.cwnd
  BY <1>1
<1> QED BY <1>1, <1>2, CwndAssumption DEF onLoss, CongestionState

-----------------------------------------------------------------------------
(***************************************************************************)
(* What processAck does to a sender half, whatever SACK blocks the packet  *)
(* carries: it invents no packet, and moves sendBase only forward, to the  *)
(* number acknowledged.                                                    *)
(***************************************************************************)
\* Counting a retransmission changes no packet and drops none.
LEMMA BumpedFacts ==
  ASSUME NEW us \in SUBSET Unacked, IsFiniteSet(us)
  PROVE  /\ Bumped(us) \in SUBSET Unacked /\ IsFiniteSet(Bumped(us))
         /\ \A v \in Bumped(us) : \E u \in us : v.pkt = u.pkt /\ v.sacked = u.sacked
         /\ \A u \in us : \E v \in Bumped(us) : v.pkt = u.pkt
<1> DEFINE B(u) == [u EXCEPT !.retries = IF @ < MaxRetries THEN @ + 1 ELSE @]
           f == [u \in us |-> B(u)]
<1>1. \A u \in us : B(u) \in Unacked /\ B(u).pkt = u.pkt /\ B(u).sacked = u.sacked
  BY StreamAssumption DEF Unacked
<1>2. Bumped(us) = {B(u) : u \in us}
  BY DEF Bumped
<1> HIDE DEF B
<1>3. f \in Surjection(us, Bumped(us))
  BY <1>2 DEF Surjection
<1>4. IsFiniteSet(Bumped(us))
  BY <1>3, FS_Surjection
<1> QED BY <1>1, <1>2, <1>4

\* Neither does marking it SACKed, which only the packets in "mark" are.
LEMMA RemarkedFacts ==
  ASSUME NEW us \in SUBSET Unacked, IsFiniteSet(us),
         NEW mark \in SUBSET us, NEW resend \in SUBSET us
  PROVE  /\ Remarked(us, mark, resend) \in SUBSET Unacked
         /\ IsFiniteSet(Remarked(us, mark, resend))
         /\ \A v \in Remarked(us, mark, resend) : \E u \in us :
               v.pkt = u.pkt /\ (v.sacked => u.sacked \/ u \in mark)
         /\ \A u \in us : \E v \in Remarked(us, mark, resend) : v.pkt = u.pkt
<1> DEFINE M(u) == [u EXCEPT !.sacked = TRUE]
           f == [u \in mark |-> M(u)]
           MS == {M(u) : u \in mark}
<1>1. IsFiniteSet(mark) /\ IsFiniteSet(resend) /\ IsFiniteSet(us \ (mark \cup resend))
  BY FS_Subset
<1>2. \A u \in mark : M(u) \in Unacked /\ M(u).pkt = u.pkt
  BY DEF Unacked
<1>3. /\ Bumped(resend) \in SUBSET Unacked /\ IsFiniteSet(Bumped(resend))
      /\ \A v \in Bumped(resend) : \E u \in resend : v.pkt = u.pkt /\ v.sacked = u.sacked
      /\ \A u \in resend : \E v \in Bumped(resend) : v.pkt = u.pkt
  <2>1. resend \in SUBSET Unacked OBVIOUS
  <2> QED BY <2>1, <1>1, BumpedFacts
<1>4. Remarked(us, mark, resend) = ((us \ (mark \cup resend)) \cup MS) \cup Bumped(resend)
  BY DEF Remarked
<1> HIDE DEF M
<1>5. f \in Surjection(mark, MS)
  BY DEF Surjection
<1>6. IsFiniteSet(MS)
  BY <1>1, <1>5, FS_Surjection
<1>7. IsFiniteSet(Remarked(us, mark, resend))
  <2>1. IsFiniteSet((us \ (mark \cup resend)) \cup MS)
    BY <1>1, <1>6, FS_Union
  <2> QED BY <2>1, <1>3, <1>4, FS_Union
<1>8. /\ \A v \in MS : v \in Unacked /\ \E u \in mark : v.pkt = u.pkt
      /\ \A u \in mark : \E v \in MS : v.pkt = u.pkt
  BY <1>2
<1> HIDE DEF MS
<1> QED BY <1>3, <1>4, <1>7, <1>8

\* A number is not greater than itself.
LEMMA SeqIrreflexive ==
  ASSUME NEW q \in SeqNums
  PROVE  ~seqGreater(q, q)
<1>1. q - q = 0 BY SpaceType DEF SeqNums
<1>2. 0 % Space = 0
  <2> HIDE DEF Space
  <2> QED BY SpaceType
<1> QED BY <1>1, <1>2, HalfSpaceAssumption DEF seqGreater, Diff, Offset

\* The sender half after processAck, and the packets it sent again.
LEMMA ProcessAckFacts ==
  ASSUME NEW s \in Sender, IsFiniteSet(s.unacked), NEW p \in Packet,
         NEW due, NEW cut,
         NEW t, t = ProcessAck(s, p, due, cut)
  PROVE  /\ t \in Sender /\ IsFiniteSet(t.unacked) /\ t.sendSeq = s.sendSeq
         /\ t.sendBase = IF "ack" \in p.flags /\ seqGreater(p.ack, s.sendBase)
                         THEN p.ack ELSE s.sendBase
         /\ Stored(t) \subseteq Stored(s)
         /\ AckResends(s, p, due) \subseteq Stored(s)
         /\ \A v \in t.unacked : \E u \in s.unacked :
               /\ v.pkt = u.pkt
               /\ v.sacked => u.sacked \/ ("ack" \in p.flags /\ u.pkt.seq \in p.sack)
         /\ \A u \in s.unacked :
               \/ \E v \in t.unacked : v.pkt = u.pkt
               \/ "ack" \in p.flags /\ p.ack # s.sendBase /\ u \in Covered(s, p.ack)
<1>1. /\ s = [sendSeq |-> s.sendSeq, sendBase |-> s.sendBase, unacked |-> s.unacked,
              dupAckCount |-> s.dupAckCount, cc |-> s.cc]
      /\ s.sendSeq \in SeqNums /\ s.sendBase \in SeqNums
      /\ s.unacked \in SUBSET Unacked
      /\ s.dupAckCount \in 0 .. FastRetransmitCount /\ s.cc \in CongestionState
      /\ p.ack \in SeqNums
  BY DEF Sender, Packet
<1>2. \A us, a, k : /\ Marked(us, a, k) \in SUBSET us /\ Lost(us, a, k) \in SUBSET us
                    /\ \A u \in Marked(us, a, k) : u.pkt.seq \in k
  BY DEF Marked, Lost, Candidates, Scanned
<1>3. CASE "ack" \notin p.flags
  BY <1>3 DEF ProcessAck, AckResends
<1>4. CASE "ack" \in p.flags /\ p.ack = s.sendBase
  <2> DEFINE resend == DupResend(s, p.sack, due)
             mark == Marked(s.unacked, s.sendBase, p.sack)
             un == Remarked(s.unacked, mark, resend)
             loss == ((p.sack # {} /\ due) \/ resend # {}) /\ cut
             dup == IF FastDue(s, p.sack) THEN 0 ELSE DupCount(s)
  <2>1. resend \in SUBSET s.unacked
    BY <1>2 DEF DupResend
  <2>2. mark \in SUBSET s.unacked /\ \A u \in mark : u.pkt.seq \in p.sack
    BY <1>2
  <2>3. t = [s EXCEPT !.dupAckCount = dup, !.unacked = un, !.cc = onLoss(s.cc, loss)]
    BY <1>4 DEF ProcessAck, DupAck
  <2>4. dup \in 0 .. FastRetransmitCount
    BY <1>1, StreamAssumption DEF DupCount
  <2>5. onLoss(s.cc, loss) \in CongestionState
    BY <1>1, LossType
  <2>6. AckResends(s, p, due) = {u.pkt : u \in resend}
    BY <1>4 DEF AckResends
  <2> HIDE DEF resend, mark, loss, dup
  <2>7. /\ un \in SUBSET Unacked /\ IsFiniteSet(un)
        /\ \A v \in un : \E u \in s.unacked :
              v.pkt = u.pkt /\ (v.sacked => u.sacked \/ u \in mark)
        /\ \A u \in s.unacked : \E v \in un : v.pkt = u.pkt
    BY <1>1, <2>1, <2>2, RemarkedFacts
  <2> HIDE DEF un
  <2>8. ~seqGreater(p.ack, s.sendBase)
    BY <1>1, <1>4, SeqIrreflexive
  <2>9. /\ t.unacked = un /\ t.sendSeq = s.sendSeq /\ t.sendBase = s.sendBase
        /\ t \in Sender
    BY <1>1, <2>3, <2>4, <2>5, <2>7 DEF Sender
  <2>10. Stored(t) \subseteq Stored(s) /\ AckResends(s, p, due) \subseteq Stored(s)
    BY <2>1, <2>6, <2>7, <2>9 DEF Stored
  <2> QED BY <1>4, <2>2, <2>7, <2>8, <2>9, <2>10
<1>5. CASE "ack" \in p.flags /\ p.ack # s.sendBase
  <2> DEFINE cov == Covered(s, p.ack)
             rest == s.unacked \ cov
             resend == NewResend(s, p.ack, p.sack, due)
             mark == Marked(rest, p.ack, p.sack)
             un == Remarked(rest, mark, resend)
             base == IF seqGreater(p.ack, s.sendBase) THEN p.ack ELSE s.sendBase
             cc == onAckAdvance(onLoss(s.cc, resend # {} /\ cut), Cardinality(cov))
  <2>1. cov \in SUBSET s.unacked
    BY DEF Covered, Scanned
  <2>2. /\ resend \in SUBSET rest /\ mark \in SUBSET rest
        /\ \A u \in mark : u.pkt.seq \in p.sack
    BY <1>2 DEF NewResend
  <2>3. t = [s EXCEPT !.dupAckCount = 0, !.unacked = un, !.sendBase = base, !.cc = cc]
    BY <1>5 DEF ProcessAck, NewAck
  <2>4. cc \in CongestionState
    <3>1. Cardinality(cov) \in Nat
      BY <2>1, FS_Subset, FS_CardinalityType
    <3> HIDE DEF resend, cov
    <3>2. onLoss(s.cc, resend # {} /\ cut) \in CongestionState
      BY <1>1, LossType
    <3> QED BY <3>1, <3>2, AckAdvanceType
  <2>5. AckResends(s, p, due) = {u.pkt : u \in resend}
    BY <1>5 DEF AckResends
  <2>6. /\ rest \in SUBSET Unacked /\ IsFiniteSet(rest) /\ rest \subseteq s.unacked
        /\ \A u \in s.unacked : u \in rest \/ u \in Covered(s, p.ack)
    BY <1>1, FS_Subset
  <2> HIDE DEF resend, mark, cc, rest, cov
  <2>7. /\ un \in SUBSET Unacked /\ IsFiniteSet(un)
        /\ \A v \in un : \E u \in rest :
              v.pkt = u.pkt /\ (v.sacked => u.sacked \/ u \in mark)
        /\ \A u \in rest : \E v \in un : v.pkt = u.pkt
    BY <2>2, <2>6, RemarkedFacts
  <2> HIDE DEF un
  <2>8. /\ t.unacked = un /\ t.sendSeq = s.sendSeq /\ t.sendBase = base
        /\ t \in Sender
    <3>1. base \in SeqNums BY <1>1
    <3>2. 0 \in 0 .. FastRetransmitCount BY StreamAssumption
    <3> HIDE DEF base
    <3> QED BY <1>1, <2>3, <2>4, <2>7, <3>1, <3>2 DEF Sender
  <2>9. Stored(t) \subseteq Stored(s) /\ AckResends(s, p, due) \subseteq Stored(s)
    BY <2>2, <2>5, <2>6, <2>7, <2>8 DEF Stored
  <2> QED BY <1>5, <2>2, <2>6, <2>7, <2>8, <2>9
<1> QED BY <1>3, <1>4, <1>5

-----------------------------------------------------------------------------
(***************************************************************************)
(* How the steps of the protocol change one direction.                     *)
(***************************************************************************)
\* A direction with the types of its parts.
TypedDirection(s, w, n, r, dl, fwd, back) ==
    /\ n \in Nat /\ dl \in Seq(Nat) /\ r \in Receiver
    /\ fwd \in SUBSET Packet /\ back \in SUBSET Packet
    /\ Direction(s, w, n, r, dl, fwd, back)

\* The receiver is at most a window and one number behind the writer.
LEMMA Lag ==
  ASSUME NEW s, NEW w, NEW n \in Nat, NEW d \in Nat, Window(s, w, n, d)
  PROVE  n - d <= MaxCwnd + 1 /\ n - d < HalfSpace
<1>1. PICK b \in 0 .. d : n <= b + MaxCwnd + (IF w = "idle" THEN 0 ELSE 1)
  BY DEF Window
<1> QED BY <1>1, CwndAssumption, StreamAssumption, HalfSpaceAssumption

\* The writer's counter bounds what was written, and that what was sent.
LEMMA SentBound ==
  ASSUME NEW w, NEW n \in Nat, w # "idle" => n >= 1
  PROVE  /\ SentBy(w, n) \in Nat /\ SentBy(w, n) <= n
         /\ WrittenBy(w, n) \in Nat /\ SentBy(w, n) <= WrittenBy(w, n)
  BY DEF SentBy, WrittenBy

\* An ACK for everything delivered is a correct ACK.
LEMMA FreshAck ==
  ASSUME NEW s, NEW w, NEW n \in Nat, NEW d \in Nat, Window(s, w, n, d),
         NEW p, p.ack = Wire(d), p.acked = d
  PROVE  CarriesAck(p, n, d)
<1>1. n - d < HalfSpace BY Lag
<1> QED BY <1>1, HalfSpaceAssumption DEF CarriesAck

\* Processing a packet that carries an ACK keeps the window correct.
LEMMA AckKeepsWindow ==
  ASSUME NEW s, NEW w, NEW n \in Nat, NEW d \in Nat, Window(s, w, n, d), d <= n,
         NEW p \in Packet, CarriesAck(p, n, d), NEW t,
         t.sendBase = IF "ack" \in p.flags /\ seqGreater(p.ack, s.sendBase)
                      THEN p.ack ELSE s.sendBase
  PROVE  Window(t, w, n, d)
<1>1. PICK b \in 0 .. d : /\ s.sendBase = Wire(b)
                          /\ n <= b + MaxCwnd + (IF w = "idle" THEN 0 ELSE 1)
  BY DEF Window
<1>2. CASE t.sendBase = s.sendBase
  BY <1>1, <1>2 DEF Window
<1>3. CASE "ack" \in p.flags /\ seqGreater(p.ack, s.sendBase)
  <2>1. /\ p.acked \in Nat /\ p.ack = Wire(p.acked) /\ p.acked <= d
        /\ n - p.acked <= HalfSpace
    BY <1>3 DEF CarriesAck, Packet
  <2>2. p.acked - b < HalfSpace /\ b - p.acked <= HalfSpace
    BY <1>1, <2>1, CwndAssumption, StreamAssumption, HalfSpaceAssumption
  <2>3. Diff(p.ack, s.sendBase) = p.acked - b
    BY <1>1, <2>1, <2>2, WireDiff
  <2>4. p.acked > b
    BY <1>1, <1>3, <2>1, <2>3 DEF seqGreater
  <2>5. n <= p.acked + MaxCwnd + (IF w = "idle" THEN 0 ELSE 1)
    BY <1>1, <2>1, <2>4, CwndAssumption
  <2>6. t.sendBase = Wire(p.acked) /\ p.acked \in 0 .. d
    BY <1>3, <2>1
  <2> QED BY <2>5, <2>6 DEF Window
<1> QED BY <1>2, <1>3

\* The sender half processes an ACK and repeats stored packets; packets may
\* leave the network, and the peer may add acknowledgements of its own.
LEMMA SenderStep ==
  ASSUME NEW s, NEW w, NEW n, NEW r, NEW dl, NEW fwd, NEW back,
         TypedDirection(s, w, n, r, dl, fwd, back),
         NEW p \in back, NEW t, t.sendSeq = s.sendSeq,
         t.sendBase = IF "ack" \in p.flags /\ seqGreater(p.ack, s.sendBase)
                      THEN p.ack ELSE s.sendBase,
         NEW fwd2, \A q \in fwd2 : q \in fwd \/ "data" \notin q.flags,
         NEW back2 \in SUBSET back
  PROVE  Direction(t, w, n, r, dl, fwd2, back2)
<1> USE DEF TypedDirection
<1>1. Len(dl) \in Nat OBVIOUS
<1>2. Window(t, w, n, Len(dl))
  <2>1. Len(dl) <= n
    BY <1>1, SentBound DEF Direction
  <2>2. p \in Packet /\ CarriesAck(p, n, Len(dl)) /\ Window(s, w, n, Len(dl))
    BY DEF Direction
  <2> QED BY <1>1, <2>1, <2>2, AckKeepsWindow
<1>3. \A q \in fwd2 : CarriesData(q, w, n)
  BY DEF Direction, CarriesData
<1> QED BY <1>2, <1>3 DEF Direction

\* Packets may leave the network, and the receiver half may acknowledge what
\* it has delivered.
LEMMA ReceiverStep ==
  ASSUME NEW s, NEW w, NEW n, NEW r, NEW dl, NEW fwd, NEW back,
         TypedDirection(s, w, n, r, dl, fwd, back),
         NEW fwd2 \in SUBSET fwd, NEW back2,
         \A q \in back2 :
            \/ q \in back
            \/ "ack" \notin q.flags
            \/ q.ack = r.recvNext /\ q.acked = Len(dl)
  PROVE  Direction(s, w, n, r, dl, fwd2, back2)
<1> USE DEF TypedDirection
<1>1. Len(dl) \in Nat OBVIOUS
<1>2. ASSUME NEW q \in back2 PROVE CarriesAck(q, n, Len(dl))
  <2>1. CASE q \in back BY <2>1 DEF Direction
  <2>2. CASE "ack" \notin q.flags BY <2>2 DEF CarriesAck
  <2>3. CASE q.ack = r.recvNext /\ q.acked = Len(dl)
    <3>1. q.ack = Wire(Len(dl)) /\ Window(s, w, n, Len(dl)) BY <2>3 DEF Direction
    <3> QED BY <1>1, <2>3, <3>1, FreshAck
  <2> QED BY <1>2, <2>1, <2>2, <2>3
<1> QED BY <1>2 DEF Direction

\* The position of a data packet relative to the receiver.
LEMMA DataPosition ==
  ASSUME NEW s, NEW w, NEW n, NEW r, NEW dl, NEW fwd, NEW back,
         TypedDirection(s, w, n, r, dl, fwd, back),
         NEW p \in fwd, "data" \in p.flags
  PROVE  /\ p.chunk \in Nat /\ p.seq = Wire(p.chunk) /\ p.chunk < SentBy(w, n)
         /\ Diff(p.seq, r.recvNext) = p.chunk - Len(dl)
         /\ p.seq = r.recvNext => p.chunk = Len(dl)
<1> USE DEF TypedDirection
<1>1. Len(dl) \in Nat /\ r.recvNext = Wire(Len(dl)) /\ Window(s, w, n, Len(dl))
      /\ CarriesData(p, w, n) /\ p.chunk \in Nat /\ (w # "idle" => n >= 1)
      /\ Len(dl) <= SentBy(w, n)
  BY DEF Direction, Packet
<1>2. p.seq = Wire(p.chunk) /\ p.chunk < SentBy(w, n) /\ n - p.chunk <= HalfSpace
  BY <1>1 DEF CarriesData
<1>3. SentBy(w, n) \in Nat /\ SentBy(w, n) <= n
  BY <1>1, SentBound
<1>4. n - Len(dl) < HalfSpace
  BY <1>1, Lag
<1>5. p.chunk - Len(dl) < HalfSpace /\ Len(dl) - p.chunk <= HalfSpace
  BY <1>1, <1>2, <1>3, <1>4, HalfSpaceAssumption
<1>6. Diff(p.seq, r.recvNext) = p.chunk - Len(dl)
  BY <1>1, <1>2, <1>5, WireDiff
<1>7. p.seq = r.recvNext => p.chunk = Len(dl)
  <2> SUFFICES ASSUME p.seq = r.recvNext PROVE p.chunk = Len(dl) OBVIOUS
  <2>1. Wire(p.chunk) = Wire(Len(dl)) BY <1>1, <1>2
  <2>2. p.chunk - Len(dl) < Space /\ Len(dl) - p.chunk < Space
    BY <1>1, <1>5, HalfSpaceAssumption, SpaceType
  <2> QED BY <1>1, <2>1, <2>2, WireInjective
<1> QED BY <1>1, <1>2, <1>6, <1>7

\* A packet from the future may be buffered.
LEMMA BufferStep ==
  ASSUME NEW s, NEW w, NEW n, NEW r, NEW dl, NEW fwd, NEW back,
         TypedDirection(s, w, n, r, dl, fwd, back),
         NEW p \in fwd, "data" \in p.flags, seqGreater(p.seq, r.recvNext),
         NEW r2, r2.recvNext = r.recvNext, r2.outOfOrder = Buffered(r, p)
  PROVE  Direction(s, w, n, r2, dl, fwd, back)
<1>1. /\ p.chunk \in Nat /\ p.seq = Wire(p.chunk) /\ p.chunk < SentBy(w, n)
      /\ Diff(p.seq, r.recvNext) = p.chunk - Len(dl)
  BY DataPosition
<1>2. Len(dl) < p.chunk
  BY <1>1 DEF seqGreater, TypedDirection
<1>3. Buffer(r2, w, n, Len(dl))
  BY <1>1, <1>2 DEF Buffer, Buffered, TypedDirection, Direction
<1> QED BY <1>3 DEF TypedDirection, Direction

\* A buffered number that is k past the receiver belongs to the chunk k past
\* what was delivered; and no such number lies beyond the window.
LEMMA BufferedPosition ==
  ASSUME NEW s, NEW w, NEW n, NEW r, NEW dl, NEW fwd, NEW back,
         TypedDirection(s, w, n, r, dl, fwd, back)
  PROVE  \A o \in r.outOfOrder :
            /\ o.chunk \in Nat /\ o.seq = Wire(o.chunk)
            /\ Len(dl) < o.chunk /\ o.chunk < SentBy(w, n)
            /\ o.chunk <= Len(dl) + MaxCwnd
            /\ \A k \in 0 .. (MaxCwnd + 1) :
                  o.seq = Wire(Len(dl) + k) => o.chunk = Len(dl) + k
<1> USE DEF TypedDirection
<1> SUFFICES ASSUME NEW o \in r.outOfOrder
             PROVE  /\ o.chunk \in Nat /\ o.seq = Wire(o.chunk)
                    /\ Len(dl) < o.chunk /\ o.chunk < SentBy(w, n)
                    /\ o.chunk <= Len(dl) + MaxCwnd
                    /\ \A k \in 0 .. (MaxCwnd + 1) :
                          o.seq = Wire(Len(dl) + k) => o.chunk = Len(dl) + k
  OBVIOUS
<1>1. /\ o.chunk \in Nat /\ o.seq = Wire(o.chunk)
      /\ Len(dl) < o.chunk /\ o.chunk < SentBy(w, n)
      /\ Len(dl) \in Nat /\ Window(s, w, n, Len(dl)) /\ (w # "idle" => n >= 1)
  BY DEF Direction, Buffer, Receiver
<1>2. SentBy(w, n) \in Nat /\ SentBy(w, n) <= n
  BY <1>1, SentBound
<1>3. n - Len(dl) <= MaxCwnd + 1
  BY <1>1, Lag
<1>4. o.chunk <= Len(dl) + MaxCwnd
  BY <1>1, <1>2, <1>3, CwndAssumption
<1>5. ASSUME NEW k \in 0 .. (MaxCwnd + 1), o.seq = Wire(Len(dl) + k)
      PROVE  o.chunk = Len(dl) + k
  <2>1. Len(dl) + k \in Nat /\ Wire(o.chunk) = Wire(Len(dl) + k)
    BY <1>1, <1>5, CwndAssumption
  <2>2. o.chunk - (Len(dl) + k) < Space /\ (Len(dl) + k) - o.chunk < Space
    BY <1>1, <1>4, CwndAssumption, StreamAssumption, HalfSpaceAssumption, SpaceType
  <2> QED BY <1>1, <2>1, <2>2, WireInjective
<1> QED BY <1>1, <1>4, <1>5

\* deliverOutOfOrder stops inside the window, and the run of k numbers it
\* hands over are the next k chunks.
LEMMA RunPosition ==
  ASSUME NEW s, NEW w, NEW n, NEW r, NEW dl, NEW fwd, NEW back,
         TypedDirection(s, w, n, r, dl, fwd, back),
         NEW k \in Nat, IsRun(r, Wire(Len(dl) + 1), k)
  PROVE  /\ k <= MaxCwnd
         /\ \A i \in 1 .. k : \E o \in r.outOfOrder :
                o.seq = Plus(Wire(Len(dl) + 1), i - 1) /\ o.chunk = Len(dl) + i
         /\ RunChunks(r, Wire(Len(dl) + 1), k) = [i \in 1 .. k |-> Len(dl) + i]
<1> USE DEF TypedDirection
<1> DEFINE d == Len(dl)
<1>1. d \in Nat /\ MaxCwnd \in Nat BY CwndAssumption
<1>2. \A o \in r.outOfOrder :
         /\ o.chunk \in Nat /\ d < o.chunk /\ o.chunk <= d + MaxCwnd
         /\ \A j \in 0 .. (MaxCwnd + 1) : o.seq = Wire(d + j) => o.chunk = d + j
  BY BufferedPosition
<1> HIDE DEF d
<1>3. \A i \in Nat : Plus(Wire(d + 1), i) = Wire(d + (i + 1))
  <2> TAKE i \in Nat
  <2>1. d + 1 \in Nat /\ (d + 1) + i = d + (i + 1) BY <1>1
  <2> QED BY <2>1, WirePlus
<1>4. \A i \in 0 .. (k - 1) : \E o \in r.outOfOrder : o.seq = Wire(d + (i + 1))
  <2> TAKE i \in 0 .. (k - 1)
  <2>1. Plus(Wire(d + 1), i) \in BufferedSeqs(r) BY DEF IsRun, d
  <2>2. i \in Nat OBVIOUS
  <2> QED BY <1>3, <2>1, <2>2 DEF BufferedSeqs
<1>5. k <= MaxCwnd
  <2> SUFFICES ASSUME k > MaxCwnd PROVE FALSE BY <1>1
  <2>1. MaxCwnd \in 0 .. (k - 1) /\ MaxCwnd + 1 \in 0 .. (MaxCwnd + 1) BY <1>1
  <2>2. PICK o \in r.outOfOrder : o.seq = Wire(d + (MaxCwnd + 1)) BY <1>4, <2>1
  <2>3. o.chunk = d + (MaxCwnd + 1) BY <1>2, <2>1, <2>2
  <2> QED BY <1>1, <1>2, <2>3
<1>6. \A i \in 1 .. k : \E o \in r.outOfOrder :
         o.seq = Plus(Wire(d + 1), i - 1) /\ o.chunk = d + i
  <2> TAKE i \in 1 .. k
  <2>1. i - 1 \in 0 .. (k - 1) /\ i - 1 \in Nat /\ (i - 1) + 1 = i
        /\ i \in 0 .. (MaxCwnd + 1)
    BY <1>1, <1>5
  <2>2. PICK o \in r.outOfOrder : o.seq = Wire(d + i) BY <1>4, <2>1
  <2>3. o.chunk = d + i BY <1>2, <2>1, <2>2
  <2>4. Plus(Wire(d + 1), i - 1) = Wire(d + i) BY <1>3, <2>1
  <2> QED BY <2>2, <2>3, <2>4
<1>7. \A i \in 1 .. k : ChunkAt(r, Plus(Wire(d + 1), i - 1)) = d + i
  <2> TAKE i \in 1 .. k
  <2> DEFINE q == Plus(Wire(d + 1), i - 1)
             c == CHOOSE o \in r.outOfOrder : o.seq = q
  <2>1. i - 1 \in Nat /\ (i - 1) + 1 = i /\ i \in 0 .. (MaxCwnd + 1)
    BY <1>1, <1>5
  <2>2. q = Wire(d + i) BY <1>3, <2>1
  <2>3. \E o \in r.outOfOrder : o.seq = q BY <1>6
  <2>4. c \in r.outOfOrder /\ c.seq = q BY <2>3
  <2>5. c.chunk = d + i BY <1>2, <2>1, <2>2, <2>4
  <2> QED BY <2>5 DEF ChunkAt
<1> QED BY <1>5, <1>6, <1>7 DEF RunChunks, d

\* What stays buffered after the run lies beyond it.
LEMMA DrainedPosition ==
  ASSUME NEW s, NEW w, NEW n, NEW r, NEW dl, NEW fwd, NEW back,
         TypedDirection(s, w, n, r, dl, fwd, back),
         NEW k \in Nat, IsRun(r, Wire(Len(dl) + 1), k),
         NEW o \in Drained(r, Wire(Len(dl) + 1), k)
  PROVE  /\ o \in r.outOfOrder /\ Len(dl) + 1 + k < o.chunk
<1> USE DEF TypedDirection
<1> DEFINE d == Len(dl)
<1>1. d \in Nat /\ MaxCwnd \in Nat BY CwndAssumption
<1>2. o \in r.outOfOrder /\ Offset(o.seq, Wire(d + 1)) >= k BY DEF Drained
<1>3. /\ o.chunk \in Nat /\ o.seq = Wire(o.chunk) /\ d < o.chunk
      /\ o.chunk <= d + MaxCwnd
  BY <1>2, BufferedPosition
<1> HIDE DEF d
<1>4. Offset(o.seq, Wire(d + 1)) = o.chunk - (d + 1)
  <2>1. o.chunk >= d + 1 /\ o.chunk - (d + 1) < Space /\ d + 1 \in Nat
    BY <1>1, <1>3, StreamAssumption, HalfSpaceAssumption, SpaceType
  <2> QED BY <1>3, <2>1, WireOffset
<1>5. o.chunk # d + 1 + k
  <2> SUFFICES ASSUME o.chunk = d + 1 + k PROVE FALSE OBVIOUS
  <2>1. Plus(Wire(d + 1), k) = Wire(d + 1 + k)
    <3>1. d + 1 \in Nat BY <1>1
    <3> QED BY <3>1, WirePlus
  <2>2. Plus(Wire(d + 1), k) \in BufferedSeqs(r)
    BY <1>2, <1>3, <2>1 DEF BufferedSeqs
  <2> QED BY <2>2 DEF IsRun, d
<1> QED BY <1>1, <1>2, <1>3, <1>4, <1>5 DEF d

\* What leaves the buffer is delivered.
LEMMA DrainedDelivered ==
  ASSUME NEW s, NEW w, NEW n, NEW r, NEW dl, NEW fwd, NEW back,
         TypedDirection(s, w, n, r, dl, fwd, back), NEW k \in Nat,
         NEW o \in r.outOfOrder
  PROVE  o \in Drained(r, Wire(Len(dl) + 1), k) \/ o.chunk < Len(dl) + 1 + k
<1> DEFINE d == Len(dl)
<1>1. /\ d \in Nat /\ MaxCwnd \in Nat /\ o.chunk \in Nat
      /\ o.seq = Wire(o.chunk) /\ d < o.chunk /\ o.chunk <= d + MaxCwnd
  BY CwndAssumption, BufferedPosition DEF TypedDirection
<1> HIDE DEF d
<1>2. o.chunk >= d + 1 /\ o.chunk - (d + 1) < Space /\ d + 1 \in Nat
  BY <1>1, StreamAssumption, HalfSpaceAssumption, SpaceType
<1>3. Offset(o.seq, Wire(d + 1)) = o.chunk - (d + 1)
  BY <1>1, <1>2, WireOffset
<1>4. Offset(o.seq, Wire(d + 1)) >= k \/ o.chunk < d + 1 + k
  BY <1>1, <1>3
<1> QED BY <1>4 DEF Drained, d

\* The run of chunks after the first d is a sequence.
LEMMA CountingUp ==
  ASSUME NEW d \in Nat, NEW k \in Nat, NEW tail, tail = [i \in 1 .. k |-> d + i]
  PROVE  tail \in Seq(Nat) /\ Len(tail) = k /\ \A i \in 1 .. k : tail[i] = d + i
<1>1. tail \in [1 .. k -> Nat] OBVIOUS
<1> QED BY <1>1

\* In-order data: the packet and the run behind it extend what was delivered,
\* and the receiver may acknowledge all of it.
LEMMA DeliverStep ==
  ASSUME NEW s, NEW w, NEW n, NEW r, NEW dl, NEW fwd, NEW back,
         TypedDirection(s, w, n, r, dl, fwd, back),
         NEW p \in fwd, "data" \in p.flags, p.seq = r.recvNext,
         NEW k \in Nat, IsRun(r, Plus(p.seq, 1), k),
         NEW dl2, dl2 = HandedOver(dl, p.chunk, r, Plus(p.seq, 1), k),
         NEW r2, r2.recvNext = Plus(Plus(p.seq, 1), k),
         r2.outOfOrder = Drained(r, Plus(p.seq, 1), k)
  PROVE  /\ dl2 \in Seq(Nat) /\ Len(dl2) = Len(dl) + 1 + k
         /\ \A i \in 1 .. Len(dl2) : dl2[i] = i - 1
         /\ Direction(s, w, n, r2, dl2, fwd, back)
<1> DEFINE d == Len(dl)  next == Wire(d + 1)
           tail == [i \in 1 .. k |-> d + i]
<1>1. /\ d \in Nat /\ r.recvNext = Wire(d) /\ d <= SentBy(w, n)
      /\ (w # "idle" => n >= 1) /\ MaxCwnd \in Nat
      /\ \A i \in 1 .. d : dl[i] = i - 1
      /\ n \in Nat /\ dl \in Seq(Nat)
  BY CwndAssumption DEF TypedDirection, Direction
<1>2. p.chunk = d /\ p.chunk < SentBy(w, n)
  BY DataPosition
<1>3. Plus(p.seq, 1) = next
  <2>1. p.seq = Wire(d) /\ d \in Nat /\ 1 \in Nat BY <1>1
  <2> HIDE DEF d
  <2> QED BY <2>1, WirePlus
<1>4. /\ IsRun(r, next, k) /\ r2.outOfOrder = Drained(r, next, k)
      /\ r2.recvNext = Plus(next, k)
  BY <1>3
<1>5. /\ RunChunks(r, next, k) = tail
      /\ \A i \in 1 .. k : \E o \in r.outOfOrder : o.chunk = d + i
  <2>1. IsRun(r, Wire(Len(dl) + 1), k) BY <1>4
  <2>2. /\ \A i \in 1 .. k : \E o \in r.outOfOrder :
              o.seq = Plus(Wire(Len(dl) + 1), i - 1) /\ o.chunk = Len(dl) + i
        /\ RunChunks(r, Wire(Len(dl) + 1), k) = [i \in 1 .. k |-> Len(dl) + i]
    BY <2>1, RunPosition
  <2> QED BY <2>2
<1>6. dl2 = (dl \o <<d>>) \o tail
  BY <1>2, <1>3, <1>5 DEF HandedOver
<1>7. SentBy(w, n) \in Nat /\ SentBy(w, n) <= n
  BY <1>1, SentBound
<1>8. d + 1 + k <= SentBy(w, n)
  <2>1. CASE k = 0 BY <1>1, <1>2, <1>7, <2>1
  <2>2. CASE k > 0
    <3>3. k \in 1 .. k BY <2>2
    <3>1. PICK o \in r.outOfOrder : o.chunk = d + k BY <1>5, <3>3
    <3>2. o.chunk < SentBy(w, n) BY BufferedPosition
    <3> QED BY <1>1, <1>7, <3>1, <3>2
  <2> QED BY <2>1, <2>2
<1>9. /\ dl2 \in Seq(Nat) /\ Len(dl2) = d + 1 + k
      /\ \A i \in 1 .. Len(dl2) : dl2[i] = i - 1
  <2> DEFINE front == dl \o <<d>>
  <2>1. /\ front \in Seq(Nat) /\ Len(front) = d + 1
        /\ \A i \in 1 .. (d + 1) : front[i] = i - 1
    <3>1. <<d>> \in Seq(Nat) /\ Len(<<d>>) = 1 /\ <<d>>[1] = d BY <1>1
    <3> HIDE DEF d
    <3>2. /\ front \in Seq(Nat) /\ Len(front) = Len(dl) + Len(<<d>>)
          /\ \A i \in 1 .. (Len(dl) + Len(<<d>>)) :
                front[i] = IF i <= Len(dl) THEN dl[i] ELSE <<d>>[i - Len(dl)]
      BY <1>1, <3>1, ConcatProperties
    <3>3. Len(dl) = d BY DEF d
    <3> QED BY <1>1, <3>1, <3>2, <3>3
  <2>2. tail \in Seq(Nat) /\ Len(tail) = k /\ \A i \in 1 .. k : tail[i] = d + i
    <3> HIDE DEF d
    <3> QED BY <1>1, CountingUp
  <2> HIDE DEF front, tail, d
  <2>3. /\ front \o tail \in Seq(Nat) /\ Len(front \o tail) = Len(front) + Len(tail)
        /\ \A i \in 1 .. (Len(front) + Len(tail)) :
              (front \o tail)[i] =
                  IF i <= Len(front) THEN front[i] ELSE tail[i - Len(front)]
    BY <2>1, <2>2, ConcatProperties
  <2>4. dl2 = front \o tail BY <1>6 DEF front
  <2>5. \A i \in 1 .. (d + 1 + k) : (front \o tail)[i] = i - 1
    <3> TAKE i \in 1 .. (d + 1 + k)
    <3>1. CASE i <= d + 1 BY <1>1, <2>1, <2>2, <2>3, <3>1
    <3>2. CASE i > d + 1
      <4>1. i - (d + 1) \in 1 .. k BY <1>1, <3>2
      <4>2. i \in 1 .. (Len(front) + Len(tail)) /\ ~(i <= Len(front))
        BY <1>1, <2>1, <2>2, <3>2
      <4>5. (front \o tail)[i] = tail[i - (d + 1)] BY <2>1, <2>3, <4>2
      <4>3. tail[i - (d + 1)] = d + (i - (d + 1)) BY <2>2, <4>1
      <4> QED BY <1>1, <4>3, <4>5
    <3>3. d + 1 \in Nat /\ i \in Int BY <1>1
    <3>4. i <= d + 1 \/ i > d + 1 BY <3>3
    <3> QED BY <3>1, <3>2, <3>4
  <2> QED BY <1>1, <2>1, <2>2, <2>3, <2>4, <2>5
<1>10. r2.recvNext = Wire(Len(dl2))
  <2>1. d + 1 \in Nat BY <1>1
  <2> HIDE DEF d
  <2>2. Plus(next, k) = Wire(d + 1 + k) BY <2>1, WirePlus
  <2> QED BY <1>4, <1>9, <2>2
<1>11. Window(s, w, n, Len(dl2))
  <2>1. PICK b \in 0 .. d : /\ s.sendBase = Wire(b)
                            /\ n <= b + MaxCwnd + (IF w = "idle" THEN 0 ELSE 1)
    BY DEF TypedDirection, Direction, Window
  <2>2. b \in 0 .. Len(dl2) BY <1>1, <1>9, <2>1
  <2> QED BY <2>1, <2>2 DEF Window
<1>12. Buffer(r2, w, n, Len(dl2))
  <2> SUFFICES ASSUME NEW o \in r2.outOfOrder
               PROVE  /\ o.seq = Wire(o.chunk) /\ Len(dl2) < o.chunk
                      /\ o.chunk < SentBy(w, n)
    BY DEF Buffer
  <2>1. o \in r.outOfOrder /\ d + 1 + k < o.chunk
    <3>1. o \in Drained(r, Wire(Len(dl) + 1), k) /\ IsRun(r, Wire(Len(dl) + 1), k)
      BY <1>4
    <3> QED BY <3>1, DrainedPosition
  <2>2. o.seq = Wire(o.chunk) /\ o.chunk < SentBy(w, n)
    BY <2>1, BufferedPosition
  <2> QED BY <1>9, <2>1, <2>2
<1>13. ASSUME NEW q \in back PROVE CarriesAck(q, n, Len(dl2))
  <2>1. CarriesAck(q, n, d) /\ q.acked \in Nat
    BY DEF TypedDirection, Direction, Packet
  <2> QED BY <1>1, <1>9, <2>1 DEF CarriesAck
<1>14. Direction(s, w, n, r2, dl2, fwd, back)
  <2> HIDE DEF d
  <2> QED BY <1>8, <1>9, <1>10, <1>11, <1>12, <1>13 DEF TypedDirection, Direction
<1> QED BY <1>9, <1>14

\* CLOSE: the number recvNext is never buffered, so deliverOutOfOrder finds
\* nothing to deliver.
LEMMA CloseRunEmpty ==
  ASSUME NEW s, NEW w, NEW n, NEW r, NEW dl, NEW fwd, NEW back,
         TypedDirection(s, w, n, r, dl, fwd, back),
         NEW k \in Nat, IsRun(r, r.recvNext, k)
  PROVE  /\ k = 0 /\ RunChunks(r, r.recvNext, k) = << >>
         /\ Plus(r.recvNext, k) = r.recvNext
         /\ Drained(r, r.recvNext, k) = r.outOfOrder
<1>1. /\ Len(dl) \in Nat /\ r.recvNext = Wire(Len(dl)) /\ MaxCwnd \in Nat
      /\ r \in Receiver /\ dl \in Seq(Nat)
  BY CwndAssumption DEF TypedDirection, Direction
<1>2. Plus(Wire(Len(dl)), 0) = Wire(Len(dl))
  BY <1>1, WirePlus
<1>3. k = 0
  <2> SUFFICES ASSUME k > 0 PROVE FALSE OBVIOUS
  <2>1. 0 \in 0 .. (k - 1) OBVIOUS
  <2>2. Plus(r.recvNext, 0) \in BufferedSeqs(r) BY <2>1 DEF IsRun
  <2>3. PICK o \in r.outOfOrder : o.seq = Wire(Len(dl))
    BY <1>1, <1>2, <2>2 DEF BufferedSeqs
  <2>4. 0 \in 0 .. (MaxCwnd + 1) /\ Len(dl) + 0 = Len(dl) BY <1>1
  <2>5. o.chunk = Len(dl) + 0 /\ Len(dl) < o.chunk /\ o.chunk \in Nat
    BY <2>3, <2>4, BufferedPosition
  <2> QED BY <1>1, <2>5
<1>4. RunChunks(r, r.recvNext, k) = << >>
  BY <1>3 DEF RunChunks
<1>5. \A o \in r.outOfOrder : Offset(o.seq, r.recvNext) >= 0
  <2> TAKE o \in r.outOfOrder
  <2>1. o.seq - r.recvNext \in Int BY <1>1, SpaceType DEF Receiver, SeqNums
  <2> HIDE DEF Space
  <2>2. (o.seq - r.recvNext) % Space \in 0 .. (Space - 1)
    BY <2>1, SpaceType, ModDecomp
  <2> QED BY <2>2, SpaceType DEF Offset
<1> QED BY <1>1, <1>2, <1>3, <1>4, <1>5 DEF Drained

-----------------------------------------------------------------------------
\* Send takes the next number, which no packet still around is too old for.
LEMMA SendStep ==
  ASSUME NEW s, NEW w, NEW n, NEW r, NEW dl, NEW fwd, NEW back,
         TypedDirection(s, w, n, r, dl, fwd, back), w = "idle",
         \A p \in fwd : "data" \in p.flags => n - p.chunk < HalfSpace,
         \A p \in back : "ack" \in p.flags => n - p.acked < HalfSpace,
         NEW t, t.sendSeq = Plus(s.sendSeq, 1), t.sendBase = s.sendBase,
         NEW w2 \in {"waiting", "closed"}
  PROVE  Direction(t, w2, n + 1, r, dl, fwd, back)
<1> USE DEF TypedDirection
<1>1. /\ Len(dl) \in Nat /\ Len(dl) <= n
      /\ SentBy(w, n) = n /\ SentBy(w2, n + 1) = n
  BY DEF Direction, SentBy
<1>2. t.sendSeq = Wire(n + 1)
  BY WirePlus DEF Direction
<1>3. Window(t, w2, n + 1, Len(dl))
  <2>1. PICK b \in 0 .. Len(dl) : s.sendBase = Wire(b) /\ n <= b + MaxCwnd
    BY CwndAssumption DEF Direction, Window
  <2>2. n + 1 <= b + MaxCwnd + 1 /\ t.sendBase = Wire(b)
    BY <1>1, <2>1, CwndAssumption
  <2> QED BY <2>1, <2>2 DEF Window
<1>4. Buffer(r, w2, n + 1, Len(dl))
  BY <1>1 DEF Direction, Buffer, Receiver
<1>5. ASSUME NEW p \in fwd PROVE CarriesData(p, w2, n + 1)
  BY <1>1, HalfSpaceAssumption DEF Direction, CarriesData, Packet
<1>6. ASSUME NEW p \in back PROVE CarriesAck(p, n + 1, Len(dl))
  BY <1>1, HalfSpaceAssumption DEF Direction, CarriesAck, Packet
<1>7. n + 1 \in Nat /\ n + 1 >= 1 /\ Len(dl) <= SentBy(w2, n + 1)
  BY <1>1
<1> QED BY <1>2, <1>3, <1>4, <1>5, <1>6, <1>7 DEF Direction

\* waitForWindow's test, in terms of the counters, and the packet Send emits.
LEMMA TransmitStep ==
  ASSUME NEW s, NEW w, NEW n, NEW r, NEW dl, NEW fwd, NEW back,
         TypedDirection(s, w, n, r, dl, fwd, back), w = "waiting",
         s.cc \in CongestionState,
         Diff(Plus(s.sendSeq, Space - 1), s.sendBase) < s.cc.cwnd,
         NEW p \in Packet, p.seq = Plus(s.sendSeq, Space - 1), p.chunk = n - 1,
         NEW t, t.sendSeq = s.sendSeq, t.sendBase = s.sendBase
  PROVE  Direction(t, "idle", n, r, dl, fwd \cup {p}, back)
<1> USE DEF TypedDirection
<1>1. /\ n >= 1 /\ Len(dl) \in Nat /\ Len(dl) <= n /\ n - 1 \in Nat
      /\ SentBy(w, n) = n - 1 /\ SentBy("idle", n) = n
      /\ s.sendSeq = Wire(n) /\ MaxCwnd \in Nat
  BY CwndAssumption DEF Direction, SentBy
<1>2. p.seq = Wire(n - 1)
  BY <1>1, WirePred
<1>3. Window(t, "idle", n, Len(dl))
  <2>1. PICK b \in 0 .. Len(dl) : s.sendBase = Wire(b) /\ n <= b + MaxCwnd + 1
    BY CwndAssumption DEF Direction, Window
  <2>2. (n - 1) - b < HalfSpace /\ b - (n - 1) <= HalfSpace
    BY <1>1, <2>1, StreamAssumption, HalfSpaceAssumption
  <2>3. Diff(Wire(n - 1), Wire(b)) = (n - 1) - b
    BY <1>1, <2>1, <2>2, WireDiff
  <2>4. s.cc.cwnd \in Nat /\ s.cc.cwnd <= MaxCwnd
    BY CwndAssumption DEF CongestionState
  <2>5. n <= b + MaxCwnd + 0
    BY <1>1, <1>2, <2>1, <2>3, <2>4
  <2> QED BY <2>1, <2>5 DEF Window
<1>4. \A q \in fwd \cup {p} : CarriesData(q, "idle", n)
  <2>1. CarriesData(p, "idle", n)
    BY <1>1, <1>2, HalfSpaceAssumption DEF CarriesData
  <2>2. ASSUME NEW q \in fwd PROVE CarriesData(q, "idle", n)
    BY <1>1 DEF Direction, CarriesData, Packet
  <2> QED BY <2>1, <2>2
<1>5. Buffer(r, "idle", n, Len(dl))
  BY <1>1 DEF Direction, Buffer, Receiver
<1> QED BY <1>1, <1>3, <1>4, <1>5 DEF Direction

-----------------------------------------------------------------------------
(***************************************************************************)
(* The steps of the whole system.                                          *)
(***************************************************************************)
\* The two endpoints.
LEMMA PeerFacts ==
  ASSUME NEW e \in End
  PROVE  /\ Peer(e) \in End /\ Peer(Peer(e)) = e /\ Peer(e) # e
         /\ \A g \in End : g = e \/ g = Peer(e)
  BY DEF End, Peer

\* The packets a sender half stores are packets.
LEMMA StoredType ==
  ASSUME NEW s \in Sender
  PROVE  Stored(s) \in SUBSET Packet
  BY DEF Stored, Sender, Unacked

\* What the invariant says of the endpoint e.
LEMMA AtEndpoint ==
  ASSUME StreamInv, NEW e \in End
  PROVE  /\ snd[e] \in Sender /\ IsFiniteSet(snd[e].unacked)
         /\ rcv[e] \in Receiver /\ net[e] \in SUBSET Packet
         /\ sent[e] \in Nat /\ delivered[e] \in Seq(Nat)
         /\ Towards(e) \in SUBSET Packet
         /\ TypedDirection(snd[e], writer[e], sent[e], rcv[Peer(e)],
                           delivered[Peer(e)], Towards(Peer(e)), Towards(e))
         /\ EndInv(e)
<1>1. ASSUME NEW g \in End
      PROVE  /\ snd[g] \in Sender /\ IsFiniteSet(snd[g].unacked)
             /\ rcv[g] \in Receiver /\ net[g] \in SUBSET Packet
             /\ sent[g] \in Nat /\ delivered[g] \in Seq(Nat)
  BY DEF StreamInv, TypeOK
<1>2. ASSUME NEW g \in End PROVE Towards(g) \in SUBSET Packet
  BY <1>1, PeerFacts, StoredType DEF Towards
<1>3. DirectionInv(e) /\ EndInv(e)
  BY DEF StreamInv
<1> QED BY <1>1, <1>2, <1>3, PeerFacts DEF TypedDirection, DirectionInv

\* A packet that e adds to those its peer may receive: its SACK blocks report
\* numbers e buffers, next to an ACK for all that e has delivered.
Fresh(p, e) ==
    /\ p.sack \subseteq BufferedSeqs(rcv'[e])
    /\ \/ p.acked = Len(delivered'[e])
       \/ p.sack = {} /\ "ack" \notin p.flags

\* What a step of e leaves alone: the peer's halves, the packets towards e but
\* for those that leave the network, and whatever e holds.
Local(e) ==
    /\ snd'[Peer(e)] = snd[Peer(e)] /\ rcv'[Peer(e)] = rcv[Peer(e)]
    /\ delivered'[Peer(e)] = delivered[Peer(e)]
    /\ writer'[Peer(e)] = writer[Peer(e)] /\ sent'[Peer(e)] = sent[Peer(e)]
    /\ closed'[Peer(e)] = closed[Peer(e)] /\ gaveUp'[Peer(e)] = gaveUp[Peer(e)]
    /\ Towards(e)' \subseteq Towards(e)
    /\ Len(delivered[e]) <= Len(delivered'[e])
    /\ \A c \in Nat : Holds(e, c) => Holds(e, c)'
    /\ \A p \in Towards(Peer(e))' : p \in Towards(Peer(e)) \/ Fresh(p, e)

\* A step that neither delivers nor buffers forgets nothing.
LEMMA SameHeld ==
  ASSUME StreamInv, NEW e \in End, delivered'[e] = delivered[e],
         rcv'[e].outOfOrder = rcv[e].outOfOrder
  PROVE  /\ Len(delivered[e]) <= Len(delivered'[e])
         /\ \A c \in Nat : Holds(e, c) => Holds(e, c)'
         /\ BufferedSeqs(rcv'[e]) = BufferedSeqs(rcv[e])
<1>1. Len(delivered[e]) \in Nat BY AtEndpoint
<1> QED BY <1>1 DEF Holds, BufferedSeqs

\* What every Receive does to the sender half of e and to the network when
\* the receiver half answers with the acknowledgements "acks".
LEMMA ReceiveCommon ==
  ASSUME StreamInv, NEW e \in End, NEW p \in net[e],
         NEW keep, NEW due, NEW cut,
         NEW acks \in SUBSET Packet, \A q \in acks : q.flags = {"ack"},
         snd' = [snd EXCEPT ![e] = ProcessAck(@, p, due, cut)],
         Exchange(e, p, keep, AckResends(snd[e], p, due) \cup acks),
         writer' = writer, sent' = sent,
         rcv' \in [End -> Receiver], rcv'[Peer(e)] = rcv[Peer(e)],
         delivered' \in [End -> Seq(Nat)],
         delivered'[Peer(e)] = delivered[Peer(e)]
  PROVE  /\ snd' \in [End -> Sender] /\ \A g \in End : IsFiniteSet(snd'[g].unacked)
         /\ net' \in [End -> SUBSET Packet]
         /\ snd'[Peer(e)] = snd[Peer(e)]
         /\ Towards(e)' \subseteq Towards(e)
         /\ \A q \in Towards(Peer(e))' : q \in Towards(Peer(e)) \/ q \in acks
         /\ DirectionInv(e)'
<1> DEFINE h == Peer(e)  t == ProcessAck(snd[e], p, due, cut)
<1>1. h \in End /\ Peer(h) = e /\ h # e /\ \A g \in End : g = e \/ g = h
  BY PeerFacts
<1>2. /\ snd \in [End -> Sender] /\ net \in [End -> SUBSET Packet]
      /\ p \in Packet /\ snd[e] \in Sender /\ IsFiniteSet(snd[e].unacked)
      /\ snd[h] \in Sender /\ IsFiniteSet(snd[h].unacked)
      /\ TypedDirection(snd[e], writer[e], sent[e], rcv[h], delivered[h],
                        Towards(h), Towards(e))
  BY <1>1, AtEndpoint DEF StreamInv, TypeOK
<1>3. /\ t \in Sender /\ IsFiniteSet(t.unacked) /\ t.sendSeq = snd[e].sendSeq
      /\ t.sendBase = IF "ack" \in p.flags /\ seqGreater(p.ack, snd[e].sendBase)
                      THEN p.ack ELSE snd[e].sendBase
      /\ Stored(t) \subseteq Stored(snd[e])
      /\ AckResends(snd[e], p, due) \subseteq Stored(snd[e])
  <2>1. t = ProcessAck(snd[e], p, due, cut) OBVIOUS
  <2> HIDE DEF t
  <2> QED BY <1>2, <2>1, ProcessAckFacts
<1> HIDE DEF t
<1>4. snd' = [snd EXCEPT ![e] = t] BY DEF t
<1>5. snd'[e] = t /\ snd'[h] = snd[h] /\ snd' \in [End -> Sender]
  BY <1>1, <1>2, <1>3, <1>4
<1>6. Stored(snd[e]) \in SUBSET Packet
  BY <1>2, StoredType
<1>7. /\ net'[e] \subseteq net[e]
      /\ net'[h] = net[h] \cup (AckResends(snd[e], p, due) \cup acks)
      /\ net' \in [End -> SUBSET Packet]
  BY <1>1, <1>2, <1>3, <1>6 DEF Exchange
<1>8. Towards(e)' \subseteq Towards(e)
  BY <1>1, <1>5, <1>7 DEF Towards
<1>9. \A q \in Towards(h)' : q \in Towards(h) \/ q \in acks
  BY <1>1, <1>3, <1>5, <1>7 DEF Towards
<1>10. p \in Towards(e)
  BY DEF Towards
<1>11. \A q \in Towards(h)' : q \in Towards(h) \/ "data" \notin q.flags
  BY <1>9
<1>12. Direction(t, writer[e], sent[e], rcv[h], delivered[h], Towards(h)', Towards(e)')
  BY <1>2, <1>3, <1>8, <1>10, <1>11, SenderStep
<1>13. DirectionInv(e)'
  BY <1>5, <1>12 DEF DirectionInv
<1>14. \A g \in End : IsFiniteSet(snd'[g].unacked)
  BY <1>1, <1>2, <1>3, <1>5
<1> QED BY <1>5, <1>7, <1>8, <1>9, <1>13, <1>14

\* A Receive preserves the invariant when the receiver half of e ends in a
\* correct state and acknowledges exactly what it has delivered.
LEMMA ReceiveStep ==
  ASSUME StreamInv, NEW e \in End, NEW p \in net[e],
         NEW keep, NEW due, NEW cut,
         NEW acks \in SUBSET Packet, \A q \in acks : q.flags = {"ack"},
         snd' = [snd EXCEPT ![e] = ProcessAck(@, p, due, cut)],
         Exchange(e, p, keep, AckResends(snd[e], p, due) \cup acks),
         writer' = writer, sent' = sent, gaveUp' = gaveUp,
         rcv' \in [End -> Receiver], rcv'[Peer(e)] = rcv[Peer(e)],
         delivered' \in [End -> Seq(Nat)],
         delivered'[Peer(e)] = delivered[Peer(e)],
         Direction(snd[Peer(e)], writer[Peer(e)], sent[Peer(e)], rcv'[e],
                   delivered'[e], Towards(e), Towards(Peer(e))),
         \A q \in acks : q.ack = rcv'[e].recvNext /\ q.acked = Len(delivered'[e]),
         closed' \in [End -> BOOLEAN], eof' \in [End -> BOOLEAN],
         \A g \in End : eof'[g] => closed'[g] /\ writer[Peer(g)] = "closed",
         faults' \in 0 .. MaxFaults, closed'[Peer(e)] = closed[Peer(e)],
         \A q \in acks : q.sack \subseteq BufferedSeqs(rcv'[e]),
         Len(delivered[e]) <= Len(delivered'[e]),
         \A c \in Nat : Holds(e, c) => Holds(e, c)'
  PROVE  StreamInv' /\ Local(e)
<1> DEFINE h == Peer(e)
<1>1. h \in End /\ Peer(h) = e /\ h # e /\ \A g \in End : g = e \/ g = h
  BY PeerFacts
<1>2. /\ snd' \in [End -> Sender] /\ \A g \in End : IsFiniteSet(snd'[g].unacked)
      /\ net' \in [End -> SUBSET Packet]
      /\ snd'[h] = snd[h]
      /\ Towards(e)' \subseteq Towards(e)
      /\ \A q \in Towards(h)' : q \in Towards(h) \/ q \in acks
      /\ DirectionInv(e)'
  BY ReceiveCommon
<1>3. TypedDirection(snd[h], writer[h], sent[h], rcv'[e], delivered'[e],
                     Towards(e), Towards(h))
  <2>1. sent[h] \in Nat /\ Towards(e) \in SUBSET Packet /\ Towards(h) \in SUBSET Packet
    BY <1>1, AtEndpoint
  <2> QED BY <2>1 DEF TypedDirection
<1>4. Direction(snd[h], writer[h], sent[h], rcv'[e], delivered'[e],
                Towards(e)', Towards(h)')
  <2>1. \A q \in Towards(h)' :
           \/ q \in Towards(h)
           \/ "ack" \notin q.flags
           \/ q.ack = rcv'[e].recvNext /\ q.acked = Len(delivered'[e])
    BY <1>2
  <2>2. Towards(e)' \in SUBSET Towards(e) BY <1>2
  <2> HIDE DEF h
  <2> QED BY <1>3, <2>1, <2>2, ReceiverStep, SMTT(40)
<1>5. DirectionInv(h)'
  BY <1>1, <1>2, <1>4 DEF DirectionInv
<1>6. EndInv(e)' /\ EndInv(h)'
  <2>1. EndInv(e) /\ EndInv(h)
    BY <1>1, AtEndpoint
  <2>2. \A q \in Towards(h)' : "close" \in q.flags => writer[e] = "closed"
    BY <1>2, <2>1 DEF EndInv
  <2>3. \A q \in Towards(e)' : "close" \in q.flags => writer[h] = "closed"
    BY <1>1, <1>2, <2>1 DEF EndInv
  <2> QED BY <1>1, <2>2, <2>3 DEF EndInv
<1>7. TypeOK'
  BY <1>2 DEF StreamInv, TypeOK
<1>8. \A q \in Towards(h)' : q \in Towards(h) \/ Fresh(q, e)
  BY <1>2 DEF Fresh
<1>9. Local(e)
  BY <1>2, <1>8 DEF Local
<1>10. StreamInv'
  BY <1>1, <1>2, <1>5, <1>6, <1>7 DEF StreamInv
<1> QED BY <1>9, <1>10

\* The history of reports that the receive actions other than CLOSE keep.
LEMMA EofKept ==
  ASSUME StreamInv, NEW g \in End
  PROVE  eof[g] => closed[g] /\ writer[Peer(g)] = "closed"
  BY PeerFacts DEF StreamInv, EndInv

\* Taking a packet from the network.
LEMMA TakeFacts ==
  ASSUME StreamInv, NEW e \in End, NEW p, NEW keep, Take(e, p, keep)
  PROVE  /\ p \in net[e] /\ p \in Towards(e) /\ p \in Packet
         /\ faults' \in 0 .. MaxFaults
         /\ closed[e] = FALSE
<1>1. p \in net[e] /\ net[e] \in SUBSET Packet
  BY AtEndpoint DEF Take
<1>2. faults' \in 0 .. MaxFaults
  BY StreamAssumption DEF Take, StreamInv, TypeOK
<1>3. closed[e] = FALSE
  BY DEF Take, StreamInv, TypeOK
<1> QED BY <1>1, <1>2, <1>3 DEF Towards

\* A pure ACK changes the sender half of e only.
LEMMA ReceiveAckStep ==
  ASSUME StreamInv, NEW e \in End, NEW p, NEW keep, NEW due, NEW cut,
         ReceiveAck(e, p, keep, due, cut)
  PROVE  StreamInv' /\ Local(e)
<1> DEFINE h == Peer(e)
<1>1. h \in End /\ Peer(h) = e BY PeerFacts
<1>2. p \in net[e] /\ faults' \in 0 .. MaxFaults
  BY TakeFacts DEF ReceiveAck
<1>3. Direction(snd[h], writer[h], sent[h], rcv[e], delivered[e], Towards(e), Towards(h))
  BY <1>1, AtEndpoint DEF TypedDirection
<1>4. Exchange(e, p, keep, AckResends(snd[e], p, due) \cup {})
  <2>1. AckResends(snd[e], p, due) \cup {} = AckResends(snd[e], p, due) OBVIOUS
  <2> QED BY <2>1 DEF ReceiveAck
<1>5. {} \in SUBSET Packet OBVIOUS
<1>6. /\ snd' = [snd EXCEPT ![e] = ProcessAck(@, p, due, cut)]
      /\ rcv' = rcv /\ writer' = writer /\ closed' = closed /\ sent' = sent
      /\ delivered' = delivered /\ eof' = eof /\ gaveUp' = gaveUp
  BY DEF ReceiveAck
<1>7. /\ rcv \in [End -> Receiver] /\ delivered \in [End -> Seq(Nat)]
      /\ closed \in [End -> BOOLEAN] /\ eof \in [End -> BOOLEAN]
  BY DEF StreamInv, TypeOK
<1>8. /\ Len(delivered[e]) <= Len(delivered'[e])
      /\ \A c \in Nat : Holds(e, c) => Holds(e, c)'
  BY <1>6, SameHeld
<1> HIDE DEF h
<1> QED BY <1>2, <1>3, <1>4, <1>5, <1>6, <1>7, <1>8, EofKept, ReceiveStep DEF h

\* An acknowledgement is a packet.
LEMMA AckPacketType ==
  ASSUME NEW r \in Receiver, NEW count \in Nat, NEW sack \in SUBSET SeqNums
  PROVE  /\ AckPacket(r, count, sack) \in Packet
         /\ AckPacket(r, count, sack).flags = {"ack"}
         /\ AckPacket(r, count, sack).ack = r.recvNext
         /\ AckPacket(r, count, sack).acked = count
         /\ AckPacket(r, count, sack).sack = sack
<1>1. 0 \in SeqNums BY SpaceType DEF SeqNums
<1> QED BY <1>1 DEF AckPacket, Packet, Receiver

\* The numbers SACK blocks report are numbers of buffered packets.
LEMMA SackedType ==
  ASSUME NEW r \in Receiver
  PROVE  SackedSeqs(r) \in SUBSET SeqNums /\ SackedSeqs(r) \subseteq BufferedSeqs(r)
  BY DEF SackedSeqs, BufferedSeqs, Receiver

\* Old data is acknowledged again.
LEMMA ReceiveDuplicateStep ==
  ASSUME StreamInv, NEW e \in End, NEW p, NEW keep, NEW due, NEW cut,
         ReceiveDuplicate(e, p, keep, due, cut)
  PROVE  StreamInv' /\ Local(e)
<1> DEFINE h == Peer(e)  acks == {AckNow(rcv[e], Len(delivered[e]))}
<1>1. h \in End /\ Peer(h) = e /\ h # e BY PeerFacts
<1>2. p \in net[e] /\ faults' \in 0 .. MaxFaults
  BY TakeFacts DEF ReceiveDuplicate
<1>3. Direction(snd[h], writer[h], sent[h], rcv[e], delivered[e], Towards(e), Towards(h))
  BY <1>1, AtEndpoint DEF TypedDirection
<1>4. /\ snd' = [snd EXCEPT ![e] = ProcessAck(@, p, due, cut)]
      /\ Exchange(e, p, keep, AckResends(snd[e], p, due) \cup acks)
      /\ writer' = writer /\ closed' = closed /\ sent' = sent
      /\ delivered' = delivered /\ eof' = eof /\ gaveUp' = gaveUp
  BY DEF ReceiveDuplicate
<1>5. /\ rcv \in [End -> Receiver] /\ delivered \in [End -> Seq(Nat)]
      /\ closed \in [End -> BOOLEAN] /\ eof \in [End -> BOOLEAN]
      /\ rcv[e] \in Receiver /\ Len(delivered[e]) \in Nat
  BY DEF StreamInv, TypeOK
<1>6. /\ acks \in SUBSET Packet
      /\ \A q \in acks : q.flags = {"ack"} /\ q.ack = rcv[e].recvNext
                                           /\ q.acked = Len(delivered[e])
                                           /\ q.sack = {}
  <2> DEFINE a == AckPacket(rcv[e], Len(delivered[e]), {})
  <2>1. acks = {a} BY DEF AckNow
  <2>2. /\ a \in Packet /\ a.flags = {"ack"} /\ a.ack = rcv[e].recvNext
        /\ a.acked = Len(delivered[e]) /\ a.sack = {}
    <3>1. {} \in SUBSET SeqNums OBVIOUS
    <3> QED BY <1>5, <3>1, AckPacketType
  <2> HIDE DEF acks, a
  <2> QED BY <2>1, <2>2
<1>7. rcv' = [rcv EXCEPT ![e].pendingAck = FALSE] BY DEF ReceiveDuplicate
<1>8. rcv' \in [End -> Receiver] /\ rcv'[h] = rcv[h]
  BY <1>1, <1>5, <1>7 DEF Receiver
<1>9. rcv'[e].recvNext = rcv[e].recvNext /\ rcv'[e].outOfOrder = rcv[e].outOfOrder
  BY <1>5, <1>7 DEF Receiver
<1>10. Direction(snd[h], writer[h], sent[h], rcv'[e], delivered'[e], Towards(e), Towards(h))
  BY <1>3, <1>4, <1>9 DEF Direction, Buffer
<1> HIDE DEF h, acks
<1>11. \A q \in acks : /\ q.flags = {"ack"} /\ q.ack = rcv'[e].recvNext
                       /\ q.acked = Len(delivered'[e])
                       /\ q.sack \subseteq BufferedSeqs(rcv'[e])
  BY <1>4, <1>6, <1>9
<1>12. /\ Len(delivered[e]) <= Len(delivered'[e])
       /\ \A c \in Nat : Holds(e, c) => Holds(e, c)'
  BY <1>4, <1>9, SameHeld
<1> QED BY <1>2, <1>4, <1>5, <1>6, <1>8, <1>10, <1>11, <1>12, EofKept, ReceiveStep DEF h

\* Data from the future joins the reorder buffer.
LEMMA ReceiveOutOfOrderStep ==
  ASSUME StreamInv, NEW e \in End, NEW p, NEW keep, NEW due, NEW cut,
         ReceiveOutOfOrder(e, p, keep, due, cut)
  PROVE  StreamInv' /\ Local(e)
<1> DEFINE h == Peer(e)
           r == [rcv[e] EXCEPT !.outOfOrder = Buffered(rcv[e], p),
                               !.pendingAck = FALSE]
           acks == {AckWithSack(r, Len(delivered[e]))}
<1>1. h \in End /\ Peer(h) = e /\ h # e BY PeerFacts
<1>2. p \in net[e] /\ p \in Towards(e) /\ p \in Packet /\ faults' \in 0 .. MaxFaults
  BY TakeFacts DEF ReceiveOutOfOrder
<1>3. TypedDirection(snd[h], writer[h], sent[h], rcv[e], delivered[e],
                     Towards(e), Towards(h))
  BY <1>1, AtEndpoint
<1>4. /\ snd' = [snd EXCEPT ![e] = ProcessAck(@, p, due, cut)]
      /\ rcv' = [rcv EXCEPT ![e] = r]
      /\ Exchange(e, p, keep, AckResends(snd[e], p, due) \cup acks)
      /\ writer' = writer /\ closed' = closed /\ sent' = sent
      /\ delivered' = delivered /\ eof' = eof /\ gaveUp' = gaveUp
      /\ "data" \in p.flags /\ seqGreater(p.seq, rcv[e].recvNext)
  BY DEF ReceiveOutOfOrder
<1>5. /\ rcv \in [End -> Receiver] /\ delivered \in [End -> Seq(Nat)]
      /\ closed \in [End -> BOOLEAN] /\ eof \in [End -> BOOLEAN]
      /\ rcv[e] \in Receiver /\ Len(delivered[e]) \in Nat
  BY DEF StreamInv, TypeOK
<1>6. /\ r \in Receiver /\ r.recvNext = rcv[e].recvNext
      /\ r.outOfOrder = Buffered(rcv[e], p)
  <2>1. Buffered(rcv[e], p) \in SUBSET [seq : SeqNums, chunk : Nat]
    BY <1>2, <1>5 DEF Buffered, Packet, Receiver
  <2> QED BY <1>5, <2>1 DEF Receiver
<1> HIDE DEF r
<1>7. /\ acks \in SUBSET Packet
      /\ \A q \in acks : q.flags = {"ack"} /\ q.ack = r.recvNext
                                           /\ q.acked = Len(delivered[e])
                                           /\ q.sack \subseteq BufferedSeqs(r)
  BY <1>5, <1>6, SackedType, AckPacketType DEF AckWithSack
<1>8. rcv' \in [End -> Receiver] /\ rcv'[h] = rcv[h] /\ rcv'[e] = r
  BY <1>1, <1>4, <1>5, <1>6
<1> HIDE DEF h, acks
<1>9. Direction(snd[h], writer[h], sent[h], r, delivered[e], Towards(e), Towards(h))
  BY <1>2, <1>3, <1>4, <1>6, BufferStep
<1>10. Direction(snd[h], writer[h], sent[h], rcv'[e], delivered'[e], Towards(e), Towards(h))
  BY <1>4, <1>8, <1>9
<1>11. /\ Len(delivered[e]) <= Len(delivered'[e])
       /\ \A c \in Nat : Holds(e, c) => Holds(e, c)'
  BY <1>4, <1>5, <1>6, <1>8 DEF Holds, Buffered
<1> QED BY <1>2, <1>4, <1>5, <1>7, <1>8, <1>10, <1>11, EofKept, ReceiveStep DEF h

\* A CLOSE delivers nothing: the run behind recvNext is always empty, since
\* every in-order packet already delivered what was buffered behind it.
LEMMA ReceiveCloseStep ==
  ASSUME StreamInv, NEW e \in End, NEW p, NEW keep, NEW due, NEW cut,
         ReceiveClose(e, p, keep, due, cut)
  PROVE  /\ StreamInv' /\ Local(e) /\ delivered' = delivered /\ rcv' = rcv
         /\ writer[Peer(e)] = "closed"
<1> DEFINE h == Peer(e)
<1>1. h \in End /\ Peer(h) = e /\ h # e BY PeerFacts
<1>2. p \in net[e] /\ p \in Towards(e) /\ faults' \in 0 .. MaxFaults
  BY TakeFacts DEF ReceiveClose
<1>3. TypedDirection(snd[h], writer[h], sent[h], rcv[e], delivered[e],
                     Towards(e), Towards(h))
  BY <1>1, AtEndpoint
<1>4. /\ snd' = [snd EXCEPT ![e] = ProcessAck(@, p, due, cut)]
      /\ Exchange(e, p, keep, AckResends(snd[e], p, due))
      /\ writer' = writer /\ sent' = sent /\ gaveUp' = gaveUp
      /\ closed' = [closed EXCEPT ![e] = TRUE]
      /\ eof' = [eof EXCEPT ![e] = TRUE] /\ "close" \in p.flags
  BY DEF ReceiveClose
<1>5. /\ rcv \in [End -> Receiver] /\ delivered \in [End -> Seq(Nat)]
      /\ closed \in [End -> BOOLEAN] /\ eof \in [End -> BOOLEAN]
      /\ rcv[e] \in Receiver
  BY DEF StreamInv, TypeOK
<1>6. delivered' = delivered /\ rcv' = rcv
  <2>1. PICK k \in 0 .. MaxOutOfOrderBuffer :
           /\ IsRun(rcv[e], rcv[e].recvNext, k)
           /\ delivered' = [delivered EXCEPT ![e] =
                                @ \o RunChunks(rcv[e], rcv[e].recvNext, k)]
           /\ rcv' = [rcv EXCEPT
                   ![e].recvNext = Plus(@, k),
                   ![e].outOfOrder = Drained(rcv[e], rcv[e].recvNext, k)]
    BY DEF ReceiveClose
  <2>2. k \in Nat BY StreamAssumption
  <2>3. /\ RunChunks(rcv[e], rcv[e].recvNext, k) = << >>
        /\ Plus(rcv[e].recvNext, k) = rcv[e].recvNext
        /\ Drained(rcv[e], rcv[e].recvNext, k) = rcv[e].outOfOrder
    <3>1. IsRun(rcv[e], rcv[e].recvNext, k) BY <2>1
    <3> HIDE DEF h
    <3> QED BY <1>3, <2>2, <3>1, CloseRunEmpty
  <2>4. delivered' = delivered
    <3>1. delivered[e] \o << >> = delivered[e] BY <1>5, ConcatEmptySeq
    <3> QED BY <1>5, <2>1, <2>3, <3>1
  <2>5. rcv' = rcv
    BY <1>5, <2>1, <2>3 DEF Receiver
  <2> QED BY <2>4, <2>5
<1>7. Direction(snd[h], writer[h], sent[h], rcv'[e], delivered'[e], Towards(e), Towards(h))
  BY <1>3, <1>6 DEF TypedDirection
<1>8. writer[h] = "closed"
  BY <1>1, <1>2, <1>4, AtEndpoint DEF EndInv
<1>9. /\ closed' \in [End -> BOOLEAN] /\ eof' \in [End -> BOOLEAN]
      /\ \A g \in End : eof'[g] => closed'[g] /\ writer[Peer(g)] = "closed"
  BY <1>4, <1>5, <1>8, EofKept
<1>10. Exchange(e, p, keep, AckResends(snd[e], p, due) \cup {})
  <2>1. AckResends(snd[e], p, due) \cup {} = AckResends(snd[e], p, due) OBVIOUS
  <2> QED BY <1>4, <2>1
<1>11. StreamInv' /\ Local(e)
  <2>1. {} \in SUBSET Packet OBVIOUS
  <2>2. /\ snd' = [snd EXCEPT ![e] = ProcessAck(@, p, due, cut)]
        /\ writer' = writer /\ sent' = sent /\ gaveUp' = gaveUp
        /\ rcv' \in [End -> Receiver] /\ rcv'[h] = rcv[h]
        /\ delivered' \in [End -> Seq(Nat)] /\ delivered'[h] = delivered[h]
        /\ closed'[h] = closed[h]
    BY <1>1, <1>4, <1>5, <1>6
  <2>3. /\ Len(delivered[e]) <= Len(delivered'[e])
        /\ \A c \in Nat : Holds(e, c) => Holds(e, c)'
    BY <1>6, SameHeld
  <2> HIDE DEF h
  <2> QED BY <1>2, <1>7, <1>9, <1>10, <2>1, <2>2, <2>3, ReceiveStep DEF h
<1> QED BY <1>6, <1>8, <1>11

\* scheduleAck changes only the counter and the pending flag.
LEMMA ScheduleAckFacts ==
  ASSUME NEW r \in Receiver
  PROVE  /\ ScheduleAck(r) \in Receiver
         /\ ScheduleAck(r).recvNext = r.recvNext
         /\ ScheduleAck(r).outOfOrder = r.outOfOrder
<1>1. r.recvCounter \in 0 .. (AckEveryN - 1) /\ AckEveryN \in Nat \ {0}
  BY StreamAssumption DEF Receiver
<1>2. (IF AcksAtOnce(r) THEN 0 ELSE r.recvCounter + 1) \in 0 .. (AckEveryN - 1)
  BY <1>1 DEF AcksAtOnce
<1>3. (~AcksAtOnce(r)) \in BOOLEAN
  BY DEF AcksAtOnce
<1> QED BY <1>2, <1>3 DEF ScheduleAck, Receiver

\* In-order data advances recvNext and what was delivered.
LEMMA ReceiveInOrderStep ==
  ASSUME StreamInv, NEW e \in End, NEW p, NEW keep, NEW due, NEW cut,
         ReceiveInOrder(e, p, keep, due, cut)
  PROVE  /\ StreamInv' /\ Local(e)
         /\ Len(delivered'[e]) > Len(delivered[e])
         /\ delivered' = [delivered EXCEPT ![e] = delivered'[e]]
<1> DEFINE h == Peer(e)  next == Plus(p.seq, 1)
<1>1. h \in End /\ Peer(h) = e /\ h # e BY PeerFacts
<1>2. p \in net[e] /\ p \in Towards(e) /\ p \in Packet /\ faults' \in 0 .. MaxFaults
  BY TakeFacts DEF ReceiveInOrder
<1>3. TypedDirection(snd[h], writer[h], sent[h], rcv[e], delivered[e],
                     Towards(e), Towards(h))
  BY <1>1, AtEndpoint
<1>4. /\ snd' = [snd EXCEPT ![e] = ProcessAck(@, p, due, cut)]
      /\ writer' = writer /\ closed' = closed /\ sent' = sent
      /\ eof' = eof /\ gaveUp' = gaveUp
      /\ "data" \in p.flags /\ p.seq = rcv[e].recvNext
  BY DEF ReceiveInOrder
<1>5. /\ rcv \in [End -> Receiver] /\ delivered \in [End -> Seq(Nat)]
      /\ closed \in [End -> BOOLEAN] /\ eof \in [End -> BOOLEAN]
      /\ rcv[e] \in Receiver /\ Len(delivered[e]) \in Nat
  BY DEF StreamInv, TypeOK
<1> DEFINE R(k) == [rcv[e] EXCEPT !.recvNext = Plus(next, k),
                                  !.outOfOrder = Drained(rcv[e], next, k)]
           DL(k) == HandedOver(delivered[e], p.chunk, rcv[e], next, k)
           acks(k) == IF AcksAtOnce(R(k))
                      THEN {AckNow(R(k), Len(delivered[e]) + 1 + k)} ELSE {}
<1>6. PICK k \in 0 .. MaxOutOfOrderBuffer :
         /\ IsRun(rcv[e], next, k)
         /\ delivered' = [delivered EXCEPT ![e] = DL(k)]
         /\ rcv' = [rcv EXCEPT ![e] = ScheduleAck(R(k))]
         /\ Exchange(e, p, keep, AckResends(snd[e], p, due) \cup acks(k))
  BY DEF ReceiveInOrder
<1>7. k \in Nat /\ IsRun(rcv[e], Plus(p.seq, 1), k) BY <1>6, StreamAssumption
<1> DEFINE r == R(k)  r2 == ScheduleAck(r)  dl2 == DL(k)  as == acks(k)
<1>8. /\ r \in Receiver /\ r.recvNext = Plus(Plus(p.seq, 1), k)
      /\ r.outOfOrder = Drained(rcv[e], Plus(p.seq, 1), k)
  <2>1. Plus(next, k) \in SeqNums
    <3>1. PICK d \in Nat : p.seq = Wire(d)
      BY <1>3, <1>4, <1>5 DEF TypedDirection, Direction
    <3>2. Plus(Plus(p.seq, 1), k) = Wire(d + 1 + k)
      <4>1. Plus(p.seq, 1) = Wire(d + 1) BY <3>1, WirePlus
      <4>2. d + 1 \in Nat BY <3>1
      <4> QED BY <1>7, <4>1, <4>2, WirePlus
    <3>3. d + 1 + k \in Nat BY <1>7, <3>1
    <3> QED BY <3>2, <3>3, WireType
  <2>2. Drained(rcv[e], next, k) \in SUBSET [seq : SeqNums, chunk : Nat]
    BY <1>5 DEF Drained, Receiver
  <2> HIDE DEF next
  <2>3. r \in Receiver /\ r.recvNext = Plus(next, k)
        /\ r.outOfOrder = Drained(rcv[e], next, k)
    BY <1>5, <2>1, <2>2 DEF Receiver
  <2> QED BY <2>3 DEF next
<1>9. /\ r2 \in Receiver /\ r2.recvNext = Plus(Plus(p.seq, 1), k)
      /\ r2.outOfOrder = Drained(rcv[e], Plus(p.seq, 1), k)
  <2> HIDE DEF r
  <2> QED BY <1>8, ScheduleAckFacts
<1>10. dl2 = HandedOver(delivered[e], p.chunk, rcv[e], Plus(p.seq, 1), k)
  OBVIOUS
<1>11. /\ delivered' = [delivered EXCEPT ![e] = dl2]
       /\ rcv' = [rcv EXCEPT ![e] = r2]
       /\ Exchange(e, p, keep, AckResends(snd[e], p, due) \cup as)
       /\ as \subseteq {AckPacket(r, Len(delivered[e]) + 1 + k, {})}
  BY <1>6 DEF AckNow
<1> HIDE DEF r, r2, dl2, as, h
<1>12. /\ dl2 \in Seq(Nat) /\ Len(dl2) = Len(delivered[e]) + 1 + k
       /\ Direction(snd[h], writer[h], sent[h], r2, dl2, Towards(e), Towards(h))
  BY <1>2, <1>3, <1>4, <1>7, <1>9, <1>10, DeliverStep
<1>13. /\ as \in SUBSET Packet
       /\ \A q \in as : q.flags = {"ack"} /\ q.ack = r2.recvNext
                                           /\ q.acked = Len(dl2) /\ q.sack = {}
  <2> DEFINE a == AckPacket(r, Len(delivered[e]) + 1 + k, {})
  <2>1. {} \in SUBSET SeqNums /\ Len(delivered[e]) + 1 + k \in Nat BY <1>5, <1>7
  <2>2. /\ a \in Packet /\ a.flags = {"ack"} /\ a.ack = r.recvNext
        /\ a.acked = Len(delivered[e]) + 1 + k /\ a.sack = {}
    BY <1>8, <2>1, AckPacketType
  <2> HIDE DEF a
  <2>3. as \subseteq {a} BY <1>11 DEF a
  <2> QED BY <1>8, <1>9, <1>12, <2>2, <2>3
<1>14. /\ rcv' \in [End -> Receiver] /\ rcv'[h] = rcv[h] /\ rcv'[e] = r2
       /\ delivered' \in [End -> Seq(Nat)] /\ delivered'[h] = delivered[h]
       /\ delivered'[e] = dl2
  BY <1>1, <1>5, <1>9, <1>11, <1>12
<1>15. Direction(snd[h], writer[h], sent[h], rcv'[e], delivered'[e], Towards(e), Towards(h))
  BY <1>12, <1>14
<1>16. StreamInv' /\ Local(e)
  <2>1. /\ snd' = [snd EXCEPT ![e] = ProcessAck(@, p, due, cut)]
        /\ Exchange(e, p, keep, AckResends(snd[e], p, due) \cup as)
        /\ writer' = writer /\ sent' = sent /\ gaveUp' = gaveUp
        /\ rcv' \in [End -> Receiver] /\ rcv'[h] = rcv[h]
        /\ delivered' \in [End -> Seq(Nat)] /\ delivered'[h] = delivered[h]
        /\ closed'[h] = closed[h]
    BY <1>4, <1>11, <1>14
  <2>2. /\ as \in SUBSET Packet /\ \A q \in as : q.flags = {"ack"}
        /\ \A q \in as : /\ q.ack = rcv'[e].recvNext /\ q.acked = Len(delivered'[e])
                           /\ q.sack \subseteq BufferedSeqs(rcv'[e])
    BY <1>13, <1>14
  <2>3. /\ closed' \in [End -> BOOLEAN] /\ eof' \in [End -> BOOLEAN]
        /\ \A g \in End : eof'[g] => closed'[g] /\ writer[Peer(g)] = "closed"
    BY <1>4, <1>5, EofKept
  <2>4. Len(delivered[e]) <= Len(delivered'[e])
    BY <1>5, <1>7, <1>12, <1>14
  <2>5. \A c \in Nat : Holds(e, c) => Holds(e, c)'
    <3>1. IsRun(rcv[e], Wire(Len(delivered[e]) + 1), k)
          /\ r2.outOfOrder = Drained(rcv[e], Wire(Len(delivered[e]) + 1), k)
      <4>1. Plus(p.seq, 1) = Wire(Len(delivered[e]) + 1)
        BY <1>3, <1>4, <1>5, WirePlus DEF TypedDirection, Direction
      <4> QED BY <1>7, <1>9, <4>1
    <3>2. \A o \in rcv[e].outOfOrder :
              o \in r2.outOfOrder \/ o.chunk < Len(delivered[e]) + 1 + k
      <4> TAKE o \in rcv[e].outOfOrder
      <4>1. \/ o \in Drained(rcv[e], Wire(Len(delivered[e]) + 1), k)
            \/ o.chunk < Len(delivered[e]) + 1 + k
        BY <1>3, <1>7, DrainedDelivered
      <4> QED BY <3>1, <4>1
    <3>3. Len(delivered'[e]) = Len(delivered[e]) + 1 + k /\ rcv'[e] = r2
      BY <1>12, <1>14
    <3>4. ASSUME NEW c \in Nat, Holds(e, c)
          PROVE  c < Len(delivered'[e]) \/ \E o \in rcv'[e].outOfOrder : o.chunk = c
      <4>1. CASE c < Len(delivered[e]) BY <1>5, <1>7, <3>3, <4>1
      <4>2. CASE \E o \in rcv[e].outOfOrder : o.chunk = c BY <3>2, <3>3, <4>2
      <4> QED BY <3>4, <4>1, <4>2 DEF Holds
    <3> QED BY <3>4 DEF Holds
  <2> QED BY <1>2, <1>15, <2>1, <2>2, <2>3, <2>4, <2>5, ReceiveStep DEF h
<1>17. Len(delivered'[e]) > Len(delivered[e])
  BY <1>5, <1>7, <1>12, <1>14
<1> QED BY <1>11, <1>14, <1>16, <1>17

-----------------------------------------------------------------------------
\* A direction whose counters stand still: packets may leave the network, and
\* acknowledgements of what was delivered may be added.
LEMMA QuietStep ==
  ASSUME NEW s, NEW w, NEW n, NEW r, NEW dl, NEW fwd, NEW back,
         TypedDirection(s, w, n, r, dl, fwd, back),
         NEW s2, s2.sendSeq = s.sendSeq, s2.sendBase = s.sendBase,
         NEW r2, r2.recvNext = r.recvNext, r2.outOfOrder = r.outOfOrder,
         NEW fwd2, \A q \in fwd2 : q \in fwd \/ "data" \notin q.flags,
         NEW back2,
         \A q \in back2 :
            \/ q \in back
            \/ "ack" \notin q.flags
            \/ q.ack = r.recvNext /\ q.acked = Len(dl)
  PROVE  Direction(s2, w, n, r2, dl, fwd2, back2)
<1>1. Direction(s, w, n, r, dl, {}, back2)
  <2>1. {} \in SUBSET fwd OBVIOUS
  <2> QED BY <2>1, ReceiverStep
<1>2. \A q \in fwd2 : CarriesData(q, w, n)
  BY DEF TypedDirection, Direction, CarriesData
<1> QED BY <1>1, <1>2 DEF Direction, Window, Buffer

\* e answers with, or repeats, packets; no counter moves.
Repeats(g) ==
    \A q \in Towards(g)' :
        \/ q \in Towards(g)
        \/ /\ q.flags = {"ack"} /\ q.ack = rcv[Peer(g)].recvNext
           /\ q.acked = Len(delivered[Peer(g)])

\* Steps that move no counter of either direction preserve the invariant.
LEMMA QuietSystem ==
  ASSUME StreamInv, TypeOK',
         sent' = sent, writer' = writer, delivered' = delivered, eof' = eof,
         \A g \in End : /\ IsFiniteSet(snd'[g].unacked)
                        /\ snd'[g].sendSeq = snd[g].sendSeq
                        /\ snd'[g].sendBase = snd[g].sendBase
                        /\ rcv'[g].recvNext = rcv[g].recvNext
                        /\ rcv'[g].outOfOrder = rcv[g].outOfOrder
                        /\ closed[g] => closed'[g]
                        /\ Repeats(g)
  PROVE  StreamInv'
<1>1. ASSUME NEW e \in End PROVE DirectionInv(e)' /\ EndInv(e)'
  <2> DEFINE h == Peer(e)
  <2>1. h \in End /\ Peer(h) = e BY <1>1, PeerFacts
  <2>2. /\ TypedDirection(snd[e], writer[e], sent[e], rcv[h], delivered[h],
                          Towards(h), Towards(e))
        /\ EndInv(e)
    BY <1>1, AtEndpoint
  <2>3. /\ \A q \in Towards(h)' : q \in Towards(h) \/ q.flags = {"ack"}
        /\ \A q \in Towards(e)' :
              \/ q \in Towards(e)
              \/ q.ack = rcv[h].recvNext /\ q.acked = Len(delivered[h])
    BY <1>1, <2>1 DEF Repeats
  <2>4. \A q \in Towards(h)' : q \in Towards(h) \/ "data" \notin q.flags
    BY <2>3
  <2>5. Direction(snd'[e], writer[e], sent[e], rcv'[h], delivered[h],
                  Towards(h)', Towards(e)')
    <3>1. /\ snd'[e].sendSeq = snd[e].sendSeq /\ snd'[e].sendBase = snd[e].sendBase
          /\ rcv'[h].recvNext = rcv[h].recvNext
          /\ rcv'[h].outOfOrder = rcv[h].outOfOrder
      BY <1>1, <2>1
    <3> HIDE DEF h
    <3> QED BY <2>2, <2>3, <2>4, <3>1, QuietStep
  <2>6. DirectionInv(e)' BY <2>5 DEF DirectionInv
  <2>7. EndInv(e)' BY <2>1, <2>2, <2>3 DEF EndInv
  <2> QED BY <2>6, <2>7
<1> QED BY <1>1 DEF StreamInv

\* The delayed ACK.
LEMMA AckTimeoutStep ==
  ASSUME StreamInv, NEW e \in End, AckTimeout(e)
  PROVE  StreamInv' /\ Local(e)
<1> DEFINE h == Peer(e)  a == AckNow(rcv[e], Len(delivered[e]))
<1>1. h \in End /\ Peer(h) = e /\ h # e /\ \A g \in End : g = e \/ g = h
  BY PeerFacts
<1>2. TypeOK BY DEF StreamInv
<1>3. rcv[e] \in Receiver /\ Len(delivered[e]) \in Nat BY <1>2 DEF TypeOK
<1>4. /\ a \in Packet /\ a.flags = {"ack"} /\ a.ack = rcv[e].recvNext
      /\ a.acked = Len(delivered[e]) /\ a.sack = {}
  <2>1. {} \in SUBSET SeqNums OBVIOUS
  <2>2. a = AckPacket(rcv[e], Len(delivered[e]), {}) BY DEF AckNow
  <2> HIDE DEF a
  <2> QED BY <1>3, <2>1, <2>2, AckPacketType
<1>5. /\ rcv' = [rcv EXCEPT ![e].pendingAck = FALSE]
      /\ net' = [net EXCEPT ![h] = @ \cup {a}]
      /\ UNCHANGED <<snd, writer, closed, sent, delivered, eof, gaveUp, faults>>
  BY DEF AckTimeout
<1> HIDE DEF a
<1>6. TypeOK'
  <2>1. net' \in [End -> SUBSET Packet] BY <1>1, <1>2, <1>4, <1>5 DEF TypeOK
  <2>2. rcv' \in [End -> Receiver]
    <3>1. rcv \in [End -> Receiver] BY <1>2 DEF TypeOK
    <3>2. rcv' = [rcv EXCEPT ![e].pendingAck = FALSE] BY <1>5
    <3> QED BY <3>1, <3>2 DEF Receiver
  <2> QED BY <1>2, <1>5, <2>1, <2>2 DEF TypeOK
<1>7. \A g \in End : /\ rcv'[g].recvNext = rcv[g].recvNext
                     /\ rcv'[g].outOfOrder = rcv[g].outOfOrder
  BY <1>2, <1>5 DEF TypeOK, Receiver
<1>8. /\ Towards(e)' = Towards(e) /\ Towards(h)' = Towards(h) \cup {a}
  BY <1>1, <1>2, <1>5 DEF Towards, TypeOK
<1>9. \A g \in End : Repeats(g)
  BY <1>1, <1>4, <1>8 DEF Repeats
<1>10. \A g \in End : IsFiniteSet(snd[g].unacked) BY DEF StreamInv
<1>11. Fresh(a, e) BY <1>4, <1>5 DEF Fresh
<1>12. rcv'[h] = rcv[h] BY <1>1, <1>2, <1>5 DEF TypeOK
<1>13. Local(e) BY <1>5, <1>7, <1>8, <1>11, <1>12, SameHeld DEF Local
<1> QED BY <1>5, <1>6, <1>7, <1>9, <1>10, <1>13, QuietSystem

\* Retransmissions repeat stored packets; given-up ones are dropped.
LEMMA CheckRetransmitStep ==
  ASSUME StreamInv, NEW e \in End, NEW expired \in SUBSET snd[e].unacked, NEW cut,
         CheckRetransmit(e, expired, cut)
  PROVE  StreamInv' /\ Local(e)
<1> DEFINE h == Peer(e)
           dead == {u \in expired : u.retries >= MaxRetries}
           live == expired \ dead
           un == (snd[e].unacked \ expired) \cup Bumped(live)
           cc == onLoss(snd[e].cc, live # {} /\ cut)
           t == [snd[e] EXCEPT !.unacked = un, !.cc = cc]
           resent == {u.pkt : u \in live}
<1>1. h \in End /\ Peer(h) = e /\ h # e /\ \A g \in End : g = e \/ g = h
  BY PeerFacts
<1>2. TypeOK BY DEF StreamInv
<1>3. /\ snd[e] \in Sender /\ IsFiniteSet(snd[e].unacked)
      /\ snd[e].unacked \in SUBSET Unacked /\ snd[e].cc \in CongestionState
  BY AtEndpoint DEF Sender
<1>4. /\ snd' = [snd EXCEPT ![e] = t]
      /\ net' = [net EXCEPT ![h] = @ \cup resent]
      /\ gaveUp' = [gaveUp EXCEPT ![e] = @ \/ dead # {}]
      /\ UNCHANGED <<rcv, writer, closed, sent, delivered, eof, faults>>
  BY DEF CheckRetransmit, Expired
<1>5. live \in SUBSET snd[e].unacked OBVIOUS
<1> HIDE DEF live, dead
<1>6. /\ un \in SUBSET Unacked /\ IsFiniteSet(un)
      /\ \A v \in un : \E u \in snd[e].unacked : v.pkt = u.pkt
  <2>1. live \in SUBSET Unacked /\ IsFiniteSet(live) BY <1>3, <1>5, FS_Subset
  <2>2. /\ Bumped(live) \in SUBSET Unacked /\ IsFiniteSet(Bumped(live))
        /\ \A v \in Bumped(live) : \E u \in live : v.pkt = u.pkt
    BY <2>1, BumpedFacts
  <2>3. IsFiniteSet(snd[e].unacked \ expired) BY <1>3, FS_Subset
  <2>4. IsFiniteSet(un) BY <2>2, <2>3, FS_Union
  <2> QED BY <1>3, <1>5, <2>2, <2>4
<1>7. cc \in CongestionState BY <1>3, LossType
<1>8. resent \subseteq Stored(snd[e]) /\ resent \in SUBSET Packet
  BY <1>3, <1>5 DEF Stored, Unacked
<1> HIDE DEF un, cc, resent
<1>9. /\ snd' \in [End -> Sender] /\ snd'[h] = snd[h] /\ snd'[e].unacked = un
      /\ snd'[e].sendSeq = snd[e].sendSeq /\ snd'[e].sendBase = snd[e].sendBase
  <2>1. /\ t \in Sender /\ t.unacked = un
        /\ t.sendSeq = snd[e].sendSeq /\ t.sendBase = snd[e].sendBase
    BY <1>3, <1>6, <1>7 DEF Sender
  <2> HIDE DEF t
  <2> QED BY <1>1, <1>2, <1>4, <2>1 DEF TypeOK
<1>10. TypeOK'
  <2>1. net' \in [End -> SUBSET Packet] BY <1>1, <1>2, <1>4, <1>8 DEF TypeOK
  <2>2. gaveUp' \in [End -> BOOLEAN] BY <1>2, <1>4 DEF TypeOK
  <2> QED BY <1>2, <1>4, <1>9, <2>1, <2>2 DEF TypeOK
<1>11. Stored(snd'[e]) \subseteq Stored(snd[e])
  BY <1>6, <1>9 DEF Stored
<1>12. net'[e] = net[e] /\ net'[h] = net[h] \cup resent
  BY <1>1, <1>2, <1>4 DEF TypeOK
<1>13. Towards(e)' \subseteq Towards(e) /\ Towards(h)' \subseteq Towards(h)
  BY <1>1, <1>8, <1>9, <1>11, <1>12 DEF Towards
<1>14. \A g \in End : Repeats(g)
  BY <1>1, <1>13 DEF Repeats
<1>15. \A g \in End : /\ IsFiniteSet(snd'[g].unacked)
                      /\ snd'[g].sendSeq = snd[g].sendSeq
                      /\ snd'[g].sendBase = snd[g].sendBase
  BY <1>1, <1>6, <1>9 DEF StreamInv
<1>16. gaveUp'[h] = gaveUp[h] BY <1>1, <1>2, <1>4 DEF TypeOK
<1>17. Local(e) BY <1>4, <1>9, <1>13, <1>16, SameHeld DEF Local
<1> QED BY <1>4, <1>10, <1>14, <1>15, <1>17, QuietSystem

\* Closing the object leaves its counters alone.
LEMMA RemoveStreamStep ==
  ASSUME StreamInv, NEW e \in End, RemoveStream(e)
  PROVE  StreamInv' /\ Local(e)
<1>1. TypeOK BY DEF StreamInv
<1>2. /\ closed' = [closed EXCEPT ![e] = TRUE]
      /\ UNCHANGED <<snd, rcv, writer, net, sent, delivered, eof, gaveUp, faults>>
  BY DEF RemoveStream
<1>3. TypeOK' /\ \A g \in End : closed[g] => closed'[g]
  BY <1>1, <1>2 DEF TypeOK
<1>4. \A g \in End : Repeats(g) BY <1>2 DEF Repeats, Towards
<1>5. \A g \in End : IsFiniteSet(snd[g].unacked) BY DEF StreamInv
<1>6. /\ Towards(e)' = Towards(e) /\ Towards(Peer(e))' = Towards(Peer(e))
      /\ closed'[Peer(e)] = closed[Peer(e)]
  BY <1>1, <1>2, PeerFacts DEF Towards, TypeOK
<1>7. Local(e) BY <1>2, <1>6, SameHeld DEF Local
<1> QED BY <1>2, <1>3, <1>4, <1>5, <1>7, QuietSystem

\* A lost packet.
LEMMA LoseStep ==
  ASSUME StreamInv, NEW e \in End, NEW p, Lose(e, p)
  PROVE  StreamInv' /\ Local(e)
<1>1. TypeOK BY DEF StreamInv
<1>2. /\ net' = [net EXCEPT ![e] = @ \ {p}]
      /\ faults < MaxFaults /\ faults' = faults + 1
      /\ UNCHANGED <<snd, rcv, writer, closed, sent, delivered, eof, gaveUp>>
  BY DEF Lose
<1>3. TypeOK'
  <2>1. net' \in [End -> SUBSET Packet] BY <1>1, <1>2 DEF TypeOK
  <2>2. faults' \in 0 .. MaxFaults BY <1>1, <1>2, StreamAssumption DEF TypeOK
  <2> QED BY <1>1, <1>2, <2>1, <2>2 DEF TypeOK
<1>4. \A g \in End : net'[g] \subseteq net[g] BY <1>1, <1>2 DEF TypeOK
<1>5. \A g \in End : Repeats(g) BY <1>2, <1>4 DEF Repeats, Towards
<1>6. \A g \in End : IsFiniteSet(snd[g].unacked) BY DEF StreamInv
<1>7. \A g \in End : Towards(g)' \subseteq Towards(g) BY <1>2, <1>4 DEF Towards
<1>8. Local(e) BY <1>2, <1>7, PeerFacts, SameHeld DEF Local
<1> QED BY <1>2, <1>3, <1>5, <1>6, <1>8, QuietSystem

-----------------------------------------------------------------------------
\* A step of e's writer: the direction it writes to keeps its invariant, and
\* the packets it adds acknowledge what e has delivered.
LEMMA WriterStep ==
  ASSUME StreamInv, TypeOK', NEW e \in End, NEW h, h = Peer(e),
         writer[e] # "closed",
         closed' = closed, delivered' = delivered, eof' = eof,
         snd'[h] = snd[h], writer'[h] = writer[h], sent'[h] = sent[h],
         rcv'[h] = rcv[h], rcv'[e].recvNext = rcv[e].recvNext,
         rcv'[e].outOfOrder = rcv[e].outOfOrder,
         IsFiniteSet(snd'[e].unacked),
         Direction(snd'[e], writer'[e], sent'[e], rcv[h], delivered[h],
                   Towards(h)', Towards(e)),
         Towards(e)' = Towards(e),
         \A q \in Towards(h)' :
            \/ q \in Towards(h)
            \/ "ack" \notin q.flags
            \/ q.ack = rcv[e].recvNext /\ q.acked = Len(delivered[e]),
         \A q \in Towards(h)' :
            \/ q \in Towards(h)
            \/ "close" \notin q.flags
            \/ writer'[e] = "closed",
         gaveUp' = gaveUp, \A q \in Towards(h)' : q \in Towards(h) \/ Fresh(q, e)
  PROVE  StreamInv' /\ Local(e)
<1>1. h \in End /\ Peer(h) = e /\ \A g \in End : g = e \/ g = h
  BY PeerFacts
<1>2. EndInv(e) /\ EndInv(h) BY <1>1, AtEndpoint
<1>3. DirectionInv(e)' BY DEF DirectionInv
<1>4. DirectionInv(h)'
  <2>1. TypedDirection(snd[h], writer[h], sent[h], rcv[e], delivered[e],
                       Towards(e), Towards(h))
    BY <1>1, AtEndpoint
  <2>2. \A q \in Towards(e) : q \in Towards(e) \/ "data" \notin q.flags
    OBVIOUS
  <2>3. Direction(snd[h], writer[h], sent[h], rcv'[e], delivered[e],
                  Towards(e), Towards(h)')
    BY <2>1, <2>2, QuietStep
  <2> QED BY <1>1, <2>3 DEF DirectionInv
<1>5. EndInv(e)' BY <1>2 DEF EndInv
<1>6. EndInv(h)' BY <1>1, <1>2 DEF EndInv
<1>7. IsFiniteSet(snd'[h].unacked) BY <1>1 DEF StreamInv
<1>8. StreamInv' BY <1>1, <1>3, <1>4, <1>5, <1>6, <1>7 DEF StreamInv
<1>9. Local(e) BY SameHeld DEF Local
<1> QED BY <1>8, <1>9

\* Send takes a number; nothing is transmitted yet.
LEMMA SendActionStep ==
  ASSUME StreamInv, NEW e \in End, Send(e)
  PROVE  StreamInv' /\ Local(e)
<1> DEFINE h == Peer(e)  t == [snd[e] EXCEPT !.sendSeq = Plus(@, 1)]
<1>1. h \in End /\ Peer(h) = e /\ h # e /\ \A g \in End : g = e \/ g = h
  BY PeerFacts
<1>2. TypeOK BY DEF StreamInv
<1>3. /\ snd[e] \in Sender /\ IsFiniteSet(snd[e].unacked) /\ sent[e] \in Nat
      /\ TypedDirection(snd[e], writer[e], sent[e], rcv[h], delivered[h],
                        Towards(h), Towards(e))
  BY AtEndpoint
<1>4. /\ writer[e] = "idle" /\ Lifetime(e)
      /\ sent' = [sent EXCEPT ![e] = @ + 1]
      /\ snd' = [snd EXCEPT ![e] = t]
      /\ writer' = [writer EXCEPT ![e] = "waiting"]
      /\ UNCHANGED <<rcv, closed, net, delivered, eof, gaveUp, faults>>
  BY DEF Send
<1>5. Plus(snd[e].sendSeq, 1) \in SeqNums
  BY <1>3, SeqPlusType DEF Sender
<1>6. /\ t \in Sender /\ t.sendSeq = Plus(snd[e].sendSeq, 1)
      /\ t.sendBase = snd[e].sendBase /\ t.unacked = snd[e].unacked
  BY <1>3, <1>5 DEF Sender
<1> HIDE DEF t
<1>7. /\ snd' \in [End -> Sender] /\ snd'[e] = t /\ snd'[h] = snd[h]
      /\ writer'[e] = "waiting" /\ writer'[h] = writer[h]
      /\ sent'[e] = sent[e] + 1 /\ sent'[h] = sent[h]
  BY <1>1, <1>2, <1>4, <1>6 DEF TypeOK
<1>8. TypeOK'
  <2>1. writer' \in [End -> {"idle", "waiting", "closed", "aborted"}]
    BY <1>2, <1>4 DEF TypeOK
  <2>2. sent' \in [End -> Nat] BY <1>2, <1>4 DEF TypeOK
  <2> QED BY <1>2, <1>4, <1>7, <2>1, <2>2 DEF TypeOK
<1>9. Towards(e)' = Towards(e) /\ Towards(h)' = Towards(h)
  BY <1>1, <1>4, <1>6, <1>7 DEF Towards, Stored
<1>10. /\ \A p \in Towards(h) : "data" \in p.flags => sent[e] - p.chunk < HalfSpace
       /\ \A p \in Towards(e) : "ack" \in p.flags => sent[e] - p.acked < HalfSpace
  BY <1>4 DEF Lifetime
<1>11. Direction(t, "waiting", sent[e] + 1, rcv[h], delivered[h],
                 Towards(h), Towards(e))
  <2> HIDE DEF h
  <2> QED BY <1>3, <1>4, <1>6, <1>10, SendStep
<1> QED BY <1>1, <1>3, <1>4, <1>6, <1>7, <1>8, <1>9, <1>11, WriterStep

\* Send returns ErrStreamClosed.
LEMMA SendAbortedStep ==
  ASSUME StreamInv, NEW e \in End, SendAborted(e)
  PROVE  StreamInv' /\ Local(e)
<1> DEFINE h == Peer(e)
<1>1. h \in End /\ Peer(h) = e /\ h # e /\ \A g \in End : g = e \/ g = h
  BY PeerFacts
<1>2. TypeOK BY DEF StreamInv
<1>3. /\ IsFiniteSet(snd[e].unacked)
      /\ TypedDirection(snd[e], writer[e], sent[e], rcv[h], delivered[h],
                        Towards(h), Towards(e))
  BY AtEndpoint
<1>4. /\ writer[e] = "waiting" /\ writer' = [writer EXCEPT ![e] = "aborted"]
      /\ UNCHANGED <<snd, rcv, closed, net, sent, delivered, eof, gaveUp, faults>>
  BY DEF SendAborted
<1>5. writer'[e] = "aborted" /\ writer'[h] = writer[h]
  BY <1>1, <1>2, <1>4 DEF TypeOK
<1>6. TypeOK'
  <2>1. writer' \in [End -> {"idle", "waiting", "closed", "aborted"}]
    BY <1>2, <1>4 DEF TypeOK
  <2> QED BY <1>2, <1>4, <2>1 DEF TypeOK
<1>7. Towards(e)' = Towards(e) /\ Towards(h)' = Towards(h)
  BY <1>4 DEF Towards
<1>8. Direction(snd[e], "aborted", sent[e], rcv[h], delivered[h],
                Towards(h), Towards(e))
  BY <1>3, <1>4 DEF TypedDirection, Direction, Window, Buffer, SentBy,
                    CarriesData
<1> QED BY <1>1, <1>3, <1>4, <1>5, <1>6, <1>7, <1>8, WriterStep

\* A stored packet in the sender half.
LEMMA StoringFacts ==
  ASSUME NEW s \in Sender, IsFiniteSet(s.unacked), NEW p \in Packet
  PROVE  /\ Storing(s, p) \in Sender /\ IsFiniteSet(Storing(s, p).unacked)
         /\ Storing(s, p).sendSeq = s.sendSeq
         /\ Storing(s, p).sendBase = s.sendBase
         /\ Stored(Storing(s, p)) = Stored(s) \cup {p}
<1> DEFINE u == [pkt |-> p, retries |-> 0, sacked |-> FALSE]
           us == s.unacked \cup {u}
<1>1. u \in Unacked /\ u.pkt = p BY StreamAssumption DEF Unacked
<1>2. Storing(s, p) = [s EXCEPT !.unacked = us] BY DEF Storing
<1> HIDE DEF u
<1>3. us \in SUBSET Unacked /\ IsFiniteSet(us)
  BY <1>1, FS_AddElement DEF Sender
<1>4. {v.pkt : v \in us} = {v.pkt : v \in s.unacked} \cup {p}
  BY <1>1
<1> HIDE DEF us
<1>5. /\ Storing(s, p) \in Sender /\ Storing(s, p).unacked = us
      /\ Storing(s, p).sendSeq = s.sendSeq
      /\ Storing(s, p).sendBase = s.sendBase
  BY <1>2, <1>3 DEF Sender
<1> QED BY <1>3, <1>4, <1>5 DEF Stored

\* What Emit does to the packets under way.
LEMMA EmitFacts ==
  ASSUME StreamInv, NEW e \in End, NEW s \in Sender, IsFiniteSet(s.unacked),
         NEW p \in Packet, s.unacked = snd[e].unacked, Emit(e, s, p),
         NEW h, h = Peer(e)
  PROVE  /\ snd' \in [End -> Sender] /\ net' \in [End -> SUBSET Packet]
         /\ snd'[h] = snd[h] /\ IsFiniteSet(snd'[e].unacked)
         /\ snd'[e].sendSeq = s.sendSeq /\ snd'[e].sendBase = s.sendBase
         /\ Towards(e)' = Towards(e) /\ Towards(h)' = Towards(h) \cup {p}
<1>1. h \in End /\ Peer(h) = e /\ h # e BY PeerFacts
<1>2. snd \in [End -> Sender] /\ net \in [End -> SUBSET Packet]
  BY DEF StreamInv, TypeOK
<1>3. /\ snd' = [snd EXCEPT ![e] = Storing(s, p)]
      /\ net' = [net EXCEPT ![h] = @ \cup {p}]
  BY DEF Emit
<1>4. /\ Storing(s, p) \in Sender /\ IsFiniteSet(Storing(s, p).unacked)
      /\ Storing(s, p).sendSeq = s.sendSeq
      /\ Storing(s, p).sendBase = s.sendBase
      /\ Stored(Storing(s, p)) = Stored(s) \cup {p}
  BY StoringFacts
<1>5. Stored(s) = Stored(snd[e]) BY DEF Stored
<1>6. /\ snd' \in [End -> Sender] /\ net' \in [End -> SUBSET Packet]
      /\ snd'[h] = snd[h] /\ snd'[e] = Storing(s, p)
      /\ net'[e] = net[e] /\ net'[h] = net[h] \cup {p}
  BY <1>1, <1>2, <1>3, <1>4
<1>7. Towards(e)' = Towards(e) /\ Towards(h)' = Towards(h) \cup {p}
  BY <1>1, <1>4, <1>5, <1>6 DEF Towards
<1> QED BY <1>4, <1>6, <1>7

\* The data packet of a waiting writer.
LEMMA DataPacketType ==
  ASSUME StreamInv, NEW e \in End, writer[e] = "waiting"
  PROVE  /\ DataPacket(e) \in Packet /\ DataPacket(e).seq = HeldSeq(e)
         /\ DataPacket(e).chunk = sent[e] - 1
         /\ \/ "ack" \notin DataPacket(e).flags
            \/ /\ DataPacket(e).ack = rcv[e].recvNext
               /\ DataPacket(e).acked = Len(delivered[e])
         /\ "close" \notin DataPacket(e).flags /\ "data" \in DataPacket(e).flags
         /\ DataPacket(e).sack \subseteq BufferedSeqs(rcv[e])
         /\ \/ DataPacket(e).acked = Len(delivered[e])
            \/ DataPacket(e).sack = {} /\ "ack" \notin DataPacket(e).flags
<1> DEFINE b == rcv[e].pendingAck
           f == IF b THEN {"data", "ack"} ELSE {"data"}
           a == IF b THEN rcv[e].recvNext ELSE 0
           d == IF b THEN Len(delivered[e]) ELSE 0
           k == IF b THEN SackedSeqs(rcv[e]) ELSE {}
<1>1. /\ snd[e] \in Sender /\ rcv[e] \in Receiver /\ sent[e] \in Nat
      /\ Len(delivered[e]) \in Nat /\ DirectionInv(e)
  BY AtEndpoint DEF StreamInv
<1>2. sent[e] - 1 \in Nat
  BY <1>1 DEF DirectionInv, Direction
<1>3. HeldSeq(e) \in SeqNums
  <2>1. Space - 1 \in Nat BY SpaceType
  <2>2. snd[e].sendSeq \in SeqNums BY <1>1 DEF Sender
  <2> HIDE DEF Space
  <2> QED BY <2>1, <2>2, SeqPlusType DEF HeldSeq
<1>4. rcv[e].recvNext \in SeqNums /\ 0 \in SeqNums
  BY <1>1, SpaceType DEF Receiver, SeqNums
<1>5. SackedSeqs(rcv[e]) \in SUBSET SeqNums /\ SackedSeqs(rcv[e]) \subseteq BufferedSeqs(rcv[e])
  BY <1>1, SackedType
<1>6. /\ f \in SUBSET {"data", "ack", "close"} /\ a \in SeqNums /\ d \in Nat
      /\ k \in SUBSET SeqNums /\ "close" \notin f
      /\ "ack" \notin f \/ (a = rcv[e].recvNext /\ d = Len(delivered[e]))
      /\ "data" \in f /\ k \subseteq BufferedSeqs(rcv[e])
      /\ d = Len(delivered[e]) \/ (k = {} /\ "ack" \notin f)
  BY <1>1, <1>4, <1>5
<1>7. DataPacket(e) = [flags |-> f, seq |-> HeldSeq(e), chunk |-> sent[e] - 1,
                       ack |-> a, acked |-> d, sack |-> k]
  BY DEF DataPacket
<1> HIDE DEF f, a, d, k
<1> QED BY <1>2, <1>3, <1>6, <1>7 DEF Packet

\* Send passes waitForWindow: it stores and transmits its packet.
LEMMA TransmitActionStep ==
  ASSUME StreamInv, NEW e \in End, Transmit(e)
  PROVE  StreamInv' /\ Local(e)
<1> DEFINE h == Peer(e)  p == DataPacket(e)
<1>1. h \in End /\ Peer(h) = e /\ h # e /\ \A g \in End : g = e \/ g = h
  BY PeerFacts
<1>2. TypeOK BY DEF StreamInv
<1>3. /\ snd[e] \in Sender /\ IsFiniteSet(snd[e].unacked)
      /\ snd[e].cc \in CongestionState
      /\ TypedDirection(snd[e], writer[e], sent[e], rcv[h], delivered[h],
                        Towards(h), Towards(e))
  BY AtEndpoint DEF Sender
<1>4. /\ writer[e] = "waiting" /\ WindowOpen(e) /\ Emit(e, snd[e], p)
      /\ rcv' = [rcv EXCEPT ![e].pendingAck = FALSE]
      /\ writer' = [writer EXCEPT ![e] = "idle"]
      /\ UNCHANGED <<closed, sent, delivered, eof, gaveUp, faults>>
  BY DEF Transmit
<1>5. /\ p \in Packet /\ p.seq = HeldSeq(e) /\ p.chunk = sent[e] - 1
      /\ \/ "ack" \notin p.flags
         \/ p.ack = rcv[e].recvNext /\ p.acked = Len(delivered[e])
      /\ "close" \notin p.flags
      /\ p.sack \subseteq BufferedSeqs(rcv[e])
      /\ p.acked = Len(delivered[e]) \/ (p.sack = {} /\ "ack" \notin p.flags)
  BY <1>4, DataPacketType
<1> HIDE DEF p
<1>6. /\ snd' \in [End -> Sender] /\ net' \in [End -> SUBSET Packet]
      /\ snd'[h] = snd[h] /\ IsFiniteSet(snd'[e].unacked)
      /\ snd'[e].sendSeq = snd[e].sendSeq /\ snd'[e].sendBase = snd[e].sendBase
      /\ Towards(e)' = Towards(e) /\ Towards(h)' = Towards(h) \cup {p}
  <2>1. snd[e] \in Sender /\ IsFiniteSet(snd[e].unacked) BY <1>3
  <2>2. Emit(e, snd[e], p) BY <1>4
  <2>3. p \in Packet BY <1>5
  <2> QED BY <2>1, <2>2, <2>3, EmitFacts
<1>7. /\ rcv' \in [End -> Receiver] /\ rcv'[h] = rcv[h]
      /\ rcv'[e].recvNext = rcv[e].recvNext
      /\ rcv'[e].outOfOrder = rcv[e].outOfOrder
  <2>1. rcv \in [End -> Receiver] BY <1>2 DEF TypeOK
  <2>2. rcv' = [rcv EXCEPT ![e].pendingAck = FALSE] BY <1>4
  <2> HIDE DEF h
  <2> QED BY <1>1, <2>1, <2>2 DEF Receiver
<1>8. /\ writer' \in [End -> {"idle", "waiting", "closed", "aborted"}]
      /\ writer'[e] = "idle" /\ writer'[h] = writer[h]
  BY <1>1, <1>2, <1>4 DEF TypeOK
<1>9. TypeOK' BY <1>2, <1>4, <1>6, <1>7, <1>8 DEF TypeOK
<1>10. Direction(snd'[e], "idle", sent[e], rcv[h], delivered[h],
                 Towards(h) \cup {p}, Towards(e))
  <2>1. /\ Diff(Plus(snd[e].sendSeq, Space - 1), snd[e].sendBase) < snd[e].cc.cwnd
        /\ p.seq = Plus(snd[e].sendSeq, Space - 1)
    BY <1>4, <1>5 DEF WindowOpen, HeldSeq
  <2> HIDE DEF h
  <2> QED BY <1>3, <1>4, <1>5, <1>6, <2>1, TransmitStep
<1>11. /\ \A q \in Towards(h)' :
             \/ q \in Towards(h)
             \/ "ack" \notin q.flags
             \/ q.ack = rcv[e].recvNext /\ q.acked = Len(delivered[e])
       /\ \A q \in Towards(h)' :
             \/ q \in Towards(h)
             \/ "close" \notin q.flags
             \/ writer'[e] = "closed"
       /\ writer[e] # "closed"
  BY <1>4, <1>5, <1>6
<1>12. Direction(snd'[e], writer'[e], sent'[e], rcv[h], delivered[h],
                 Towards(h)', Towards(e))
  BY <1>4, <1>6, <1>8, <1>10
<1>13. /\ sent'[h] = sent[h] /\ closed' = closed /\ delivered' = delivered
       /\ eof' = eof
  BY <1>4
<1>14. h = Peer(e) OBVIOUS
<1> HIDE DEF h
<1>15. /\ snd'[h] = snd[h] /\ writer'[h] = writer[h] /\ rcv'[h] = rcv[h]
       /\ rcv'[e].recvNext = rcv[e].recvNext
       /\ rcv'[e].outOfOrder = rcv[e].outOfOrder
       /\ IsFiniteSet(snd'[e].unacked) /\ Towards(e)' = Towards(e)
  BY <1>6, <1>7, <1>8
<1>16. \A q \in Towards(h)' : q \in Towards(h) \/ Fresh(q, e)
  BY <1>5, <1>6, <1>13, <1>15, SameHeld DEF Fresh
<1>17. gaveUp' = gaveUp BY <1>4
<1> QED BY <1>9, <1>11, <1>12, <1>13, <1>14, <1>15, <1>16, <1>17, WriterStep

\* SendClose takes a number and transmits the CLOSE at once.
LEMMA SendCloseStep ==
  ASSUME StreamInv, NEW e \in End, SendClose(e)
  PROVE  StreamInv' /\ Local(e)
<1> DEFINE h == Peer(e)  p == ClosePacket(e)
           t == [snd[e] EXCEPT !.sendSeq = Plus(@, 1)]
<1>1. h \in End /\ Peer(h) = e /\ h # e /\ \A g \in End : g = e \/ g = h
  BY PeerFacts
<1>2. TypeOK BY DEF StreamInv
<1>3. /\ snd[e] \in Sender /\ IsFiniteSet(snd[e].unacked) /\ sent[e] \in Nat
      /\ rcv[e] \in Receiver /\ Len(delivered[e]) \in Nat
      /\ TypedDirection(snd[e], writer[e], sent[e], rcv[h], delivered[h],
                        Towards(h), Towards(e))
  BY AtEndpoint
<1>4. /\ writer[e] = "idle" /\ Lifetime(e) /\ Emit(e, t, p)
      /\ sent' = [sent EXCEPT ![e] = @ + 1]
      /\ writer' = [writer EXCEPT ![e] = "closed"]
      /\ UNCHANGED <<rcv, closed, delivered, eof, gaveUp, faults>>
  BY DEF SendClose
<1>5. /\ p \in Packet /\ "data" \notin p.flags
      /\ p.ack = rcv[e].recvNext /\ p.acked = Len(delivered[e]) /\ p.sack = {}
  BY <1>3 DEF ClosePacket, Packet, Sender, Receiver
<1>6. Plus(snd[e].sendSeq, 1) \in SeqNums
  BY <1>3, SeqPlusType DEF Sender
<1>7. /\ t \in Sender /\ t.sendSeq = Plus(snd[e].sendSeq, 1)
      /\ t.sendBase = snd[e].sendBase /\ t.unacked = snd[e].unacked
  BY <1>3, <1>6 DEF Sender
<1> HIDE DEF p, t
<1>8. /\ snd' \in [End -> Sender] /\ net' \in [End -> SUBSET Packet]
      /\ snd'[h] = snd[h] /\ IsFiniteSet(snd'[e].unacked)
      /\ snd'[e].sendSeq = t.sendSeq /\ snd'[e].sendBase = t.sendBase
      /\ Towards(e)' = Towards(e) /\ Towards(h)' = Towards(h) \cup {p}
  BY <1>3, <1>4, <1>5, <1>7, EmitFacts
<1>9. /\ writer' \in [End -> {"idle", "waiting", "closed", "aborted"}]
      /\ writer'[e] = "closed" /\ writer'[h] = writer[h]
      /\ sent' \in [End -> Nat] /\ sent'[e] = sent[e] + 1 /\ sent'[h] = sent[h]
  BY <1>1, <1>2, <1>4 DEF TypeOK
<1>10. TypeOK' BY <1>2, <1>4, <1>8, <1>9 DEF TypeOK
<1>11. Direction(snd'[e], "closed", sent[e] + 1, rcv[h], delivered[h],
                 Towards(h) \cup {p}, Towards(e))
  <2>1. /\ \A q \in Towards(h) : "data" \in q.flags => sent[e] - q.chunk < HalfSpace
        /\ \A q \in Towards(e) : "ack" \in q.flags => sent[e] - q.acked < HalfSpace
    BY <1>4 DEF Lifetime
  <2>2. /\ snd'[e].sendSeq = Plus(snd[e].sendSeq, 1)
        /\ snd'[e].sendBase = snd[e].sendBase
    BY <1>7, <1>8
  <2> HIDE DEF h
  <2>3. Direction(snd'[e], "closed", sent[e] + 1, rcv[h], delivered[h],
                  Towards(h), Towards(e))
    BY <1>3, <1>4, <2>1, <2>2, SendStep
  <2>4. CarriesData(p, "closed", sent[e] + 1) BY <1>5 DEF CarriesData
  <2> QED BY <2>3, <2>4 DEF Direction
<1>12. /\ \A q \in Towards(h)' :
             \/ q \in Towards(h)
             \/ "ack" \notin q.flags
             \/ q.ack = rcv[e].recvNext /\ q.acked = Len(delivered[e])
       /\ \A q \in Towards(h)' :
             \/ q \in Towards(h)
             \/ "close" \notin q.flags
             \/ writer'[e] = "closed"
       /\ writer[e] # "closed"
  BY <1>4, <1>5, <1>8, <1>9
<1>13. Direction(snd'[e], writer'[e], sent'[e], rcv[h], delivered[h],
                 Towards(h)', Towards(e))
  BY <1>8, <1>9, <1>11
<1>14. /\ rcv'[h] = rcv[h] /\ rcv'[e].recvNext = rcv[e].recvNext
       /\ rcv'[e].outOfOrder = rcv[e].outOfOrder
       /\ closed' = closed /\ delivered' = delivered /\ eof' = eof
  BY <1>4
<1>15. h = Peer(e) /\ gaveUp' = gaveUp BY <1>4
<1>16. \A q \in Towards(h)' : q \in Towards(h) \/ Fresh(q, e)
  BY <1>5, <1>8, <1>14 DEF Fresh
<1> HIDE DEF h
<1> QED BY <1>8, <1>9, <1>10, <1>12, <1>13, <1>14, <1>15, <1>16, WriterStep

-----------------------------------------------------------------------------
(***************************************************************************)
(* The theorems.                                                           *)
(***************************************************************************)
\* Two fresh streams satisfy the invariant.
LEMMA InitStep ==
  ASSUME Init
  PROVE  StreamInv
<1>1. NewCongestion \in CongestionState
  BY CwndAssumption DEF NewCongestion, CongestionState
<1>2. 0 \in SeqNums /\ Wire(0) = 0
  <2>1. (0 % Space) = 0
    <3> HIDE DEF Space
    <3> QED BY SpaceType, ModUnique
  <2> QED BY <2>1, SpaceType DEF SeqNums, Wire
<1>3. NewSender \in Sender /\ NewReceiver \in Receiver
  <2>1. {} \in SUBSET Unacked /\ {} \in SUBSET [seq : SeqNums, chunk : Nat]
    OBVIOUS
  <2>2. /\ 0 \in 0 .. FastRetransmitCount /\ 0 \in 0 .. (AckEveryN - 1)
    BY StreamAssumption
  <2> QED BY <1>1, <1>2, <2>1, <2>2 DEF NewSender, Sender, NewReceiver, Receiver
<1>4. TypeOK
  BY <1>3, StreamAssumption DEF Init, TypeOK
<1>5. ASSUME NEW e \in End
      PROVE  IsFiniteSet(snd[e].unacked) /\ DirectionInv(e) /\ EndInv(e)
  <2>1. /\ snd[e] = NewSender /\ rcv[Peer(e)] = NewReceiver
        /\ writer[e] = "idle" /\ sent[e] = 0 /\ delivered[Peer(e)] = <<>>
        /\ eof[Peer(e)] = FALSE
    BY PeerFacts DEF Init
  <2>2. Towards(e) = {} /\ Towards(Peer(e)) = {}
    BY PeerFacts DEF Init, Towards, Stored, NewSender
  <2>3. snd[e].unacked = {} /\ snd[e].sendSeq = 0 /\ snd[e].sendBase = 0
    BY <2>1 DEF NewSender
  <2>4. rcv[Peer(e)].recvNext = 0 /\ rcv[Peer(e)].outOfOrder = {}
    BY <2>1 DEF NewReceiver
  <2>5. Window(snd[e], "idle", 0, 0)
    <3>1. 0 \in 0 .. 0 /\ 0 <= 0 + MaxCwnd + 0 BY CwndAssumption
    <3> QED BY <1>2, <2>3, <3>1 DEF Window
  <2>6. DirectionInv(e)
    BY <1>2, <2>1, <2>2, <2>3, <2>4, <2>5
    DEF DirectionInv, Direction, Buffer, SentBy
  <2>7. EndInv(e) BY <2>1, <2>2 DEF EndInv
  <2> QED BY <2>3, <2>6, <2>7, FS_EmptySet
<1> QED BY <1>4, <1>5 DEF StreamInv

\* Every step preserves the invariant.
LEMMA NextStep ==
  ASSUME StreamInv, [Next]_vars
  PROVE  StreamInv'
<1>1. CASE UNCHANGED vars
  BY <1>1 DEF vars, StreamInv, TypeOK, DirectionInv, EndInv, Towards
<1>2. ASSUME NEW e \in End, ReceiveAny(e) PROVE StreamInv'
  <2>1. PICK p \in net[e], keep \in BOOLEAN, due \in BOOLEAN, cut \in BOOLEAN :
            Receive(e, p, keep, due, cut)
    BY <1>2 DEF ReceiveAny
  <2> QED BY <2>1, ReceiveAckStep, ReceiveInOrderStep, ReceiveOutOfOrderStep,
             ReceiveDuplicateStep, ReceiveCloseStep DEF Receive
<1>3. ASSUME NEW e \in End, RetransmitAny(e) PROVE StreamInv'
  BY <1>3, CheckRetransmitStep DEF RetransmitAny
<1>4. ASSUME NEW e \in End, \E p \in net[e] : Lose(e, p) PROVE StreamInv'
  BY <1>4, LoseStep
<1> QED BY <1>1, <1>2, <1>3, <1>4, SendActionStep, TransmitActionStep,
           SendAbortedStep, SendCloseStep, AckTimeoutStep, RemoveStreamStep
        DEF Next

\* StreamInv is an invariant of two ReliableStreams and their network.
THEOREM StreamInvariant == Spec => []StreamInv
<1>1. Init => StreamInv BY InitStep
<1>2. StreamInv /\ [Next]_vars => StreamInv' BY NextStep
<1> QED BY <1>1, <1>2, PTL DEF Spec

\* The program's counters, windows and retry counts never leave their types.
THEOREM TypeCorrect == Spec => []TypeOK
<1>1. StreamInv => TypeOK BY DEF StreamInv
<1> QED BY <1>1, StreamInvariant, PTL

\* Data is delivered in order, without gap or duplicate, however long the
\* transfer and however often the sequence numbers wrap around.
THEOREM DeliveryInOrder == Spec => []InOrderDelivery
<1>1. StreamInv => InOrderDelivery
  <2> SUFFICES ASSUME StreamInv, NEW e \in End
               PROVE  /\ Len(delivered[e]) <= Written(Peer(e))
                      /\ \A i \in 1 .. Len(delivered[e]) : delivered[e][i] = i - 1
    BY DEF InOrderDelivery
  <2>1. Peer(e) \in End /\ Peer(Peer(e)) = e BY PeerFacts
  <2> DEFINE h == Peer(e)
  <2>2. /\ sent[h] \in Nat /\ (writer[h] # "idle" => sent[h] >= 1)
        /\ Len(delivered[e]) \in Nat /\ Len(delivered[e]) <= SentBy(writer[h], sent[h])
        /\ \A i \in 1 .. Len(delivered[e]) : delivered[e][i] = i - 1
    BY <2>1, AtEndpoint DEF TypedDirection, Direction
  <2> QED BY <2>2, SentBound DEF Written
<1> QED BY <1>1, StreamInvariant, PTL

\* What was sent is at most a window ahead of the receiver.
LEMMA SentLag ==
  ASSUME NEW s, NEW w, NEW n \in Nat, NEW d \in Nat, Window(s, w, n, d)
  PROVE  SentBy(w, n) <= d + MaxCwnd
<1>1. PICK b \in 0 .. d : n <= b + MaxCwnd + (IF w = "idle" THEN 0 ELSE 1)
  BY DEF Window
<1> QED BY <1>1, CwndAssumption DEF SentBy

\* The reorder buffer of a receiver holds less than a window: one entry per
\* chunk, all of them sent and past the one it waits for.
LEMMA BufferSize ==
  ASSUME NEW s, NEW w, NEW n, NEW r, NEW dl, NEW fwd, NEW back,
         TypedDirection(s, w, n, r, dl, fwd, back)
  PROVE  IsFiniteSet(r.outOfOrder) /\ Cardinality(r.outOfOrder) < MaxCwnd
<1> DEFINE B == r.outOfOrder  d == Len(dl)  m == SentBy(w, n) - 1
           f == [o \in B |-> o.chunk]
<1>1. /\ d \in Nat /\ n \in Nat /\ Window(s, w, n, d) /\ (w # "idle" => n >= 1)
      /\ B \in SUBSET [seq : SeqNums, chunk : Nat]
      /\ \A o \in B : o.seq = Wire(o.chunk) /\ d < o.chunk /\ o.chunk < SentBy(w, n)
  BY DEF TypedDirection, Direction, Buffer, Receiver
<1>2. SentBy(w, n) \in Nat /\ SentBy(w, n) <= d + MaxCwnd
  <2> HIDE DEF d
  <2> QED BY <1>1, SentBound, SentLag
<1> HIDE DEF B, d
<1>3. m \in Int /\ d + 1 \in Int /\ m - d < MaxCwnd /\ MaxCwnd > 0
  BY <1>1, <1>2, CwndAssumption
<1>4. \A o \in B : o.chunk \in (d + 1) .. m
  BY <1>1, <1>2
<1>5. \A o1, o2 \in B : o1.chunk = o2.chunk => o1 = o2
  <2> TAKE o1, o2 \in B
  <2> HAVE o1.chunk = o2.chunk
  <2>1. /\ o1 = [seq |-> o1.seq, chunk |-> o1.chunk]
        /\ o2 = [seq |-> o2.seq, chunk |-> o2.chunk]
    BY <1>1
  <2>2. o1.seq = o2.seq BY <1>1
  <2> QED BY <2>1, <2>2
<1> HIDE DEF m
<1>6. f \in Injection(B, (d + 1) .. m)
  BY <1>4, <1>5 DEF Injection, IsInjective
<1>7. /\ IsFiniteSet((d + 1) .. m)
      /\ Cardinality((d + 1) .. m) = IF d + 1 > m THEN 0 ELSE m - (d + 1) + 1
  BY <1>3, FS_Interval
<1>8. IsFiniteSet(B) /\ Cardinality(B) <= Cardinality((d + 1) .. m)
  BY <1>6, <1>7, FS_Injection
<1>9. Cardinality(B) \in Nat BY <1>8, FS_CardinalityType
<1>10. Cardinality((d + 1) .. m) < MaxCwnd /\ Cardinality((d + 1) .. m) \in Nat
  BY <1>1, <1>3, <1>7, CwndAssumption, FS_CardinalityType
<1>11. Cardinality(B) < MaxCwnd
  BY <1>8, <1>9, <1>10, CwndAssumption
<1> QED BY <1>8, <1>11 DEF B

\* processData never refuses a packet of the window for want of room, for any
\* buffer that is at least as large as the largest window.
THEOREM RoomInReorderBuffer == Spec => []ReorderBufferHasRoom
<1>1. StreamInv => ReorderBufferHasRoom
  <2> SUFFICES ASSUME StreamInv, MaxOutOfOrderBuffer >= MaxCwnd, NEW e \in End
               PROVE  Cardinality(rcv[e].outOfOrder) < MaxOutOfOrderBuffer
    BY DEF ReorderBufferHasRoom
  <2> DEFINE h == Peer(e)
  <2>1. h \in End /\ Peer(h) = e BY PeerFacts
  <2>2. TypedDirection(snd[h], writer[h], sent[h], rcv[e], delivered[e],
                       Towards(e), Towards(h))
    BY <2>1, AtEndpoint
  <2> HIDE DEF h
  <2>3. IsFiniteSet(rcv[e].outOfOrder) /\ Cardinality(rcv[e].outOfOrder) < MaxCwnd
    BY <2>2, BufferSize
  <2>4. Cardinality(rcv[e].outOfOrder) \in Nat BY <2>3, FS_CardinalityType
  <2> QED BY <2>3, <2>4, CwndAssumption, StreamAssumption
<1> QED BY <1>1, StreamInvariant, PTL

\* sendBase never passes the receiver: with StreamInv both are counters less
\* than half a space apart, so the wrapping comparison is the real one.
THEOREM BaseBehindReceiver == Spec => []BaseNotAhead
<1>1. StreamInv => BaseNotAhead
  <2> SUFFICES ASSUME StreamInv, NEW e \in End
               PROVE  ~seqGreater(snd[e].sendBase, rcv[Peer(e)].recvNext)
    BY DEF BaseNotAhead
  <2> DEFINE d == Len(delivered[Peer(e)])
  <2>1. /\ d \in Nat /\ sent[e] \in Nat /\ rcv[Peer(e)].recvNext = Wire(d)
        /\ d <= SentBy(writer[e], sent[e])
        /\ writer[e] # "idle" => sent[e] >= 1
        /\ Window(snd[e], writer[e], sent[e], d)
    BY AtEndpoint, PeerFacts DEF TypedDirection, Direction
  <2>2. d <= sent[e] BY <2>1, SentBound
  <2> HIDE DEF d
  <2>3. PICK b \in 0 .. d : /\ snd[e].sendBase = Wire(b)
                            /\ sent[e] <= b + MaxCwnd + 1
    BY <2>1, CwndAssumption DEF Window
  <2>4. b - d < HalfSpace /\ d - b <= HalfSpace
    BY <2>1, <2>2, <2>3, CwndAssumption, StreamAssumption, HalfSpaceAssumption
  <2>5. Diff(Wire(b), Wire(d)) = b - d BY <2>1, <2>3, <2>4, WireDiff
  <2> QED BY <2>1, <2>3, <2>5 DEF seqGreater
<1> QED BY <1>1, StreamInvariant, PTL

\* Storing a packet leaves sendBase alone.
LEMMA StoringKeeps ==
  ASSUME NEW s \in Sender, NEW p
  PROVE  Storing(s, p).sendBase = s.sendBase
  BY DEF Storing, Sender

\* How a step moves the counters: sendBase stays or advances to an ACK beyond
\* it, and what was delivered only grows.
LEMMA CounterStep ==
  ASSUME StreamInv, [Next]_vars, NEW g \in End
  PROVE  /\ \/ snd'[g].sendBase = snd[g].sendBase
            \/ seqGreater(snd'[g].sendBase, snd[g].sendBase)
         /\ Len(delivered'[g]) >= Len(delivered[g])
         /\ rcv'[g].recvNext = rcv[g].recvNext \/ sent' = sent
<1>1. TypeOK BY DEF StreamInv
<1>2. snd \in [End -> Sender] /\ \A f \in End : Len(delivered[f]) \in Nat
  BY <1>1 DEF TypeOK
<1>3. ASSUME NEW e \in End, ReceiveAny(e)
      PROVE  /\ \/ snd'[g].sendBase = snd[g].sendBase
                \/ seqGreater(snd'[g].sendBase, snd[g].sendBase)
             /\ Len(delivered'[g]) >= Len(delivered[g]) /\ sent' = sent
  <2>1. PICK p \in net[e], keep \in BOOLEAN, due \in BOOLEAN, cut \in BOOLEAN :
            Receive(e, p, keep, due, cut)
    BY <1>3 DEF ReceiveAny
  <2>2. /\ snd' = [snd EXCEPT ![e] = ProcessAck(@, p, due, cut)]
        /\ sent' = sent
    <3>1. CASE ReceiveAck(e, p, keep, due, cut) BY <3>1 DEF ReceiveAck
    <3>2. CASE ReceiveInOrder(e, p, keep, due, cut) BY <3>2 DEF ReceiveInOrder
    <3>3. CASE ReceiveOutOfOrder(e, p, keep, due, cut)
      BY <3>3 DEF ReceiveOutOfOrder
    <3>4. CASE ReceiveDuplicate(e, p, keep, due, cut) BY <3>4 DEF ReceiveDuplicate
    <3>5. CASE ReceiveClose(e, p, keep, due, cut) BY <3>5 DEF ReceiveClose
    <3> QED BY <2>1, <3>1, <3>2, <3>3, <3>4, <3>5 DEF Receive
  <2>3. LET t == ProcessAck(snd[e], p, due, cut)
        IN  t.sendBase = snd[e].sendBase \/ seqGreater(t.sendBase, snd[e].sendBase)
    <3>1. /\ snd[e] \in Sender /\ IsFiniteSet(snd[e].unacked) /\ p \in Packet
      BY AtEndpoint
    <3> QED BY <3>1, ProcessAckFacts
  <2>4. Len(delivered'[g]) >= Len(delivered[g])
    <3>1. CASE delivered' = delivered BY <1>2, <3>1
    <3>2. CASE ReceiveInOrder(e, p, keep, due, cut)
      <4>1. /\ Len(delivered'[e]) > Len(delivered[e])
            /\ delivered' = [delivered EXCEPT ![e] = delivered'[e]]
        BY <3>2, ReceiveInOrderStep
      <4>2. CASE g = e BY <1>2, <3>2, <4>1, <4>2, ReceiveInOrderStep DEF StreamInv, TypeOK
      <4>3. CASE g # e BY <1>1, <1>2, <4>1, <4>3 DEF TypeOK
      <4> QED BY <4>2, <4>3
    <3>3. CASE ReceiveClose(e, p, keep, due, cut)
      BY <3>1, <3>3, ReceiveCloseStep
    <3> QED BY <2>1, <3>1, <3>2, <3>3
            DEF Receive, ReceiveAck, ReceiveOutOfOrder, ReceiveDuplicate
  <2> QED BY <1>2, <2>2, <2>3, <2>4
<1>4. CASE UNCHANGED vars BY <1>2, <1>4 DEF vars
<1>5. ASSUME NEW e \in End, RetransmitAny(e)
      PROVE  /\ snd'[g].sendBase = snd[g].sendBase
             /\ UNCHANGED <<rcv, delivered>>
  <2>1. PICK expired, cut : CheckRetransmit(e, expired, cut)
    BY <1>5 DEF RetransmitAny
  <2> QED BY <1>2, <2>1 DEF CheckRetransmit, Expired, Sender
<1>6. ASSUME NEW e \in End,
             Transmit(e) \/ AckTimeout(e)
      PROVE  /\ snd'[g].sendBase = snd[g].sendBase
             /\ rcv'[g].recvNext = rcv[g].recvNext
             /\ delivered' = delivered
  <2>1. rcv' = [rcv EXCEPT ![e].pendingAck = FALSE] /\ delivered' = delivered
    BY <1>6 DEF Transmit, AckTimeout
  <2>2. rcv'[g].recvNext = rcv[g].recvNext
    BY <1>1, <2>1 DEF TypeOK, Receiver
  <2>3. snd'[g].sendBase = snd[g].sendBase
    <3>1. CASE snd' = snd BY <3>1
    <3>2. CASE Emit(e, snd[e], DataPacket(e)) BY <1>2, <3>2, StoringKeeps DEF Emit
    <3> QED BY <1>6, <3>1, <3>2 DEF Transmit, AckTimeout
  <2> QED BY <2>1, <2>2, <2>3
<1>7. ASSUME NEW e \in End,
             \/ Send(e) \/ SendAborted(e) \/ SendClose(e) \/ RemoveStream(e)
             \/ \E p \in net[e] : Lose(e, p)
      PROVE  /\ snd'[g].sendBase = snd[g].sendBase
             /\ UNCHANGED <<rcv, delivered>>
  <2>1. UNCHANGED <<rcv, delivered>>
    BY <1>7 DEF Send, SendAborted, SendClose, RemoveStream, Lose
  <2>2. CASE snd' = snd BY <2>1, <2>2
  <2>3. CASE Send(e) BY <1>2, <2>1, <2>3 DEF Send, Sender
  <2>4. CASE SendClose(e)
    <3> DEFINE t == [snd[e] EXCEPT !.sendSeq = Plus(@, 1)]
    <3>1. t \in Sender /\ t.sendBase = snd[e].sendBase
      <4>1. snd[e] \in Sender BY <1>2
      <4>2. Plus(snd[e].sendSeq, 1) \in SeqNums BY <4>1, SeqPlusType DEF Sender
      <4> QED BY <4>1, <4>2 DEF Sender
    <3>2. snd' = [snd EXCEPT ![e] = Storing(t, ClosePacket(e))]
      BY <2>4 DEF SendClose, Emit
    <3> HIDE DEF t
    <3> QED BY <1>2, <2>1, <3>1, <3>2, StoringKeeps
  <2> QED BY <1>7, <2>2, <2>3, <2>4 DEF SendAborted, RemoveStream, Lose
<1> QED BY <1>2, <1>3, <1>4, <1>5, <1>6, <1>7 DEF Next

\* sendBase and recvNext only move forward in sequence space.
THEOREM CountersAdvance == Spec => NeverBackwards
<1>1. ASSUME StreamInv, [Next]_vars, NEW g \in End
      PROVE  /\ ~seqLess(snd'[g].sendBase, snd[g].sendBase)
             /\ ~seqLess(rcv'[g].recvNext, rcv[g].recvNext)
  <2> DEFINE f == Peer(g)  d == Len(delivered[g])  d2 == Len(delivered'[g])
  <2>1. f \in End /\ Peer(f) = g BY PeerFacts
  <2>2. StreamInv' BY <1>1, NextStep
  <2>3. /\ \/ snd'[g].sendBase = snd[g].sendBase
           \/ seqGreater(snd'[g].sendBase, snd[g].sendBase)
        /\ d2 >= d
        /\ rcv'[g].recvNext = rcv[g].recvNext \/ sent' = sent
    BY <1>1, CounterStep
  <2>4. /\ snd[g].sendBase \in SeqNums /\ snd'[g].sendBase \in SeqNums
        /\ rcv[g].recvNext \in SeqNums /\ rcv'[g].recvNext \in SeqNums
        /\ d \in Nat /\ d2 \in Nat
    BY <1>1, <2>2 DEF StreamInv, TypeOK, Sender, Receiver
  <2> HIDE DEF d, d2
  <2>5. \A a, b \in SeqNums : Diff(a, b) \in Int /\ Diff(a, a) = 0
    BY SeqDiffType
  <2>6. ~seqLess(snd'[g].sendBase, snd[g].sendBase)
    BY <2>3, <2>4, <2>5 DEF seqLess, seqGreater
  <2>7. CASE rcv'[g].recvNext = rcv[g].recvNext
    BY <2>4, <2>5, <2>6, <2>7 DEF seqLess
  <2>8. CASE sent' = sent
    <3>1. /\ rcv[g].recvNext = Wire(d) /\ sent[f] \in Nat
          /\ Window(snd[f], writer[f], sent[f], d)
      BY <1>1, <2>1 DEF StreamInv, TypeOK, DirectionInv, Direction, d
    <3>2. /\ rcv'[g].recvNext = Wire(d2)
          /\ d2 <= SentBy(writer'[f], sent'[f])
          /\ writer'[f] # "idle" => sent'[f] >= 1
      BY <2>1, <2>2 DEF StreamInv, DirectionInv, Direction, d2
    <3>3. d2 <= sent[f]
      <4>1. /\ SentBy(writer'[f], sent[f]) \in Nat
            /\ SentBy(writer'[f], sent[f]) <= sent[f]
        BY <2>8, <3>1, <3>2, SentBound
      <4> QED BY <2>4, <2>8, <3>1, <3>2, <4>1
    <3>4. sent[f] - d < HalfSpace BY <2>4, <3>1, Lag
    <3>5. d2 - d < HalfSpace /\ d - d2 <= HalfSpace
      BY <2>3, <2>4, <3>1, <3>3, <3>4, HalfSpaceAssumption
    <3>6. Diff(Wire(d2), Wire(d)) = d2 - d BY <2>4, <3>5, WireDiff
    <3> QED BY <2>3, <2>4, <2>6, <3>1, <3>2, <3>6 DEF seqLess
  <2> QED BY <2>3, <2>7, <2>8
<1>2. StreamInv /\ [Next]_vars =>
        [\A e \in End :
            /\ ~seqLess(snd'[e].sendBase, snd[e].sendBase)
            /\ ~seqLess(rcv'[e].recvNext, rcv[e].recvNext)]_vars
  BY <1>1
<1> QED BY <1>2, StreamInvariant, PTL DEF Spec, NeverBackwards

-----------------------------------------------------------------------------
(***************************************************************************)
(* Refinement: written and finished of the channel are functions of the    *)
(* writer and its counter, delivered and eof are the streams' own.         *)
(***************************************************************************)
Wr == [e \in End |-> Written(e)]
Fin == [e \in End |-> writer[e] = "closed"]

\* Steps that leave writer and delivered data alone are invisible.
LEMMA Invisible ==
  ASSUME writer' = writer, sent' = sent, delivered' = delivered, eof' = eof
  PROVE  UNCHANGED Channel!cvars
  BY DEF Channel!cvars, Written

\* Taking a sequence number for data is a Write.
LEMMA SendIsWrite ==
  ASSUME StreamInv, NEW e \in End, Send(e)
  PROVE  Channel!Write(e)
<1>1. /\ writer[e] = "idle" /\ writer' = [writer EXCEPT ![e] = "waiting"]
      /\ sent' = [sent EXCEPT ![e] = @ + 1] /\ delivered' = delivered /\ eof' = eof
  BY DEF Send
<1>2. /\ writer \in [End -> {"idle", "waiting", "closed", "aborted"}]
      /\ sent \in [End -> Nat]
  BY DEF StreamInv, TypeOK
<1>3. Wr' = [Wr EXCEPT ![e] = @ + 1] /\ Fin' = Fin /\ ~Fin[e]
  BY <1>1, <1>2 DEF Wr, Fin, Written, WrittenBy
<1> QED BY <1>1, <1>3 DEF Channel!Write, Wr, Fin

\* SendClose is a Finish: the number it takes is not data.
LEMMA SendCloseIsFinish ==
  ASSUME StreamInv, NEW e \in End, SendClose(e)
  PROVE  Channel!Finish(e)
<1>1. /\ writer[e] = "idle" /\ writer' = [writer EXCEPT ![e] = "closed"]
      /\ sent' = [sent EXCEPT ![e] = @ + 1] /\ delivered' = delivered /\ eof' = eof
  BY DEF SendClose
<1>2. /\ writer \in [End -> {"idle", "waiting", "closed", "aborted"}]
      /\ sent \in [End -> Nat]
  BY DEF StreamInv, TypeOK
<1>3. \A g \in End : /\ writer'[g] = IF g = e THEN "closed" ELSE writer[g]
                     /\ sent'[g] = IF g = e THEN sent[g] + 1 ELSE sent[g]
  BY <1>1, <1>2
<1>4. \A g \in End : WrittenBy(writer'[g], sent'[g]) = WrittenBy(writer[g], sent[g])
  BY <1>1, <1>2, <1>3 DEF WrittenBy
<1>5. Wr' = Wr BY <1>4 DEF Wr, Written
<1>6. Fin' = [Fin EXCEPT ![e] = TRUE] /\ ~Fin[e]
  <2>1. \A g \in End : writer'[g] = IF g = e THEN "closed" ELSE writer[g] BY <1>3
  <2>2. writer[e] # "closed" BY <1>1
  <2> QED BY <2>1, <2>2, Zenon DEF Fin
<1> QED BY <1>1, <1>5, <1>6 DEF Channel!Finish, Wr, Fin

\* Transmitting or giving up a taken number is invisible.
LEMMA WriterInvisible ==
  ASSUME StreamInv, NEW e \in End, Transmit(e) \/ SendAborted(e)
  PROVE  UNCHANGED Channel!cvars
<1>1. /\ writer[e] = "waiting"
      /\ \E w \in {"idle", "aborted"} : writer' = [writer EXCEPT ![e] = w]
      /\ sent' = sent /\ delivered' = delivered /\ eof' = eof
  BY DEF Transmit, SendAborted
<1>2. writer \in [End -> {"idle", "waiting", "closed", "aborted"}]
  BY DEF StreamInv, TypeOK
<1>3. Wr' = Wr /\ Fin' = Fin
  BY <1>1, <1>2 DEF Wr, Fin, Written, WrittenBy
<1> QED BY <1>1, <1>3 DEF Channel!cvars, Wr, Fin

\* In-order data is a Deliver of one or more chunks.
LEMMA ReceiveInOrderIsDeliver ==
  ASSUME StreamInv, NEW e \in End, NEW p, NEW keep, NEW due, NEW cut,
         ReceiveInOrder(e, p, keep, due, cut)
  PROVE  Channel!Deliver(e)
<1> DEFINE h == Peer(e)  upto == Len(delivered'[e])
<1>1. h \in End /\ Peer(h) = e BY PeerFacts
<1>2. /\ StreamInv' /\ upto > Len(delivered[e])
      /\ delivered' = [delivered EXCEPT ![e] = delivered'[e]]
  BY ReceiveInOrderStep
<1>3. /\ writer' = writer /\ sent' = sent /\ eof' = eof
      /\ \E k : Take(e, p, k)
  BY DEF ReceiveInOrder
<1>4. ~eof[e] BY <1>3, TakeFacts, EofKept
<1>5. /\ upto <= WrittenBy(writer[h], sent[h])
      /\ \A i \in 1 .. upto : delivered'[e][i] = i - 1
  <2>1. /\ upto <= SentBy(writer[h], sent[h]) /\ upto \in Nat /\ sent[h] \in Nat
        /\ writer[h] # "idle" => sent[h] >= 1
        /\ \A i \in 1 .. upto : delivered'[e][i] = i - 1
    BY <1>1, <1>2, <1>3 DEF StreamInv, TypeOK, DirectionInv, Direction
  <2> QED BY <2>1, SentBound
<1>6. delivered'[e] \in Seq(Nat) /\ Len(delivered[e]) \in Nat /\ upto \in Nat
  BY <1>2 DEF StreamInv, TypeOK
<1>7. delivered'[e] = [i \in 1 .. upto |-> i - 1]
  <2> DEFINE f == delivered'[e]
  <2>1. f = [i \in 1 .. upto |-> f[i]] BY <1>6, SeqDef
  <2> QED BY <1>5, <2>1
<1>8. WrittenBy(writer[h], sent[h]) \in Nat
  <2>1. sent[h] \in Nat /\ (writer[h] # "idle" => sent[h] >= 1)
    BY <1>1 DEF StreamInv, TypeOK, DirectionInv, Direction
  <2> QED BY <2>1, SentBound
<1>9. Wr' = Wr /\ Fin' = Fin /\ Wr[h] = WrittenBy(writer[h], sent[h])
  BY <1>1, <1>3 DEF Wr, Fin, Written
<1> HIDE DEF upto
<1>10. upto \in (Len(delivered[e]) + 1) .. Wr[h]
  BY <1>2, <1>5, <1>6, <1>8, <1>9
<1>11. delivered' = [delivered EXCEPT ![e] = [i \in 1 .. upto |-> i - 1]]
  BY <1>2, <1>7
<1> QED BY <1>3, <1>4, <1>9, <1>10, <1>11 DEF Channel!Deliver, Wr, Fin

\* A CLOSE is the report of the end, and delivers nothing.
LEMMA ReceiveCloseIsReportEnd ==
  ASSUME StreamInv, NEW e \in End, NEW p, NEW keep, NEW due, NEW cut,
         ReceiveClose(e, p, keep, due, cut)
  PROVE  Channel!ReportEnd(e)
<1>1. /\ delivered' = delivered /\ writer[Peer(e)] = "closed"
  BY ReceiveCloseStep
<1>2. /\ writer' = writer /\ sent' = sent /\ eof' = [eof EXCEPT ![e] = TRUE]
      /\ \E k : Take(e, p, k)
  BY DEF ReceiveClose
<1>3. ~eof[e] BY <1>2, TakeFacts, EofKept
<1>4. Wr' = Wr /\ Fin' = Fin /\ Fin[Peer(e)]
  BY <1>1, <1>2, PeerFacts DEF Wr, Fin, Written
<1> QED BY <1>1, <1>2, <1>3, <1>4 DEF Channel!ReportEnd, Wr, Fin

\* A pair of ReliableStreams implements the reliable channel.
THEOREM Refinement == Spec => ImplementsChannel
<1>1. Init => Channel!Init
  BY DEF Init, Channel!Init, Written, WrittenBy
<1>2. ASSUME StreamInv, [Next]_vars
      PROVE  [Channel!Next]_(Channel!cvars)
  <2>1. CASE UNCHANGED vars BY <2>1, Invisible DEF vars
  <2>2. ASSUME NEW e \in End, ReceiveAny(e)
        PROVE  Channel!Next \/ UNCHANGED Channel!cvars
    <3>1. PICK p \in net[e], keep \in BOOLEAN, due \in BOOLEAN, cut \in BOOLEAN :
              Receive(e, p, keep, due, cut)
      BY <2>2 DEF ReceiveAny
    <3>2. CASE ReceiveInOrder(e, p, keep, due, cut)
      BY <1>2, <3>2, ReceiveInOrderIsDeliver DEF Channel!Next
    <3>3. CASE ReceiveClose(e, p, keep, due, cut)
      BY <1>2, <3>3, ReceiveCloseIsReportEnd DEF Channel!Next
    <3>4. CASE \/ ReceiveAck(e, p, keep, due, cut)
               \/ ReceiveOutOfOrder(e, p, keep, due, cut)
               \/ ReceiveDuplicate(e, p, keep, due, cut)
      <4>1. writer' = writer /\ sent' = sent /\ delivered' = delivered /\ eof' = eof
        BY <3>4 DEF ReceiveAck, ReceiveOutOfOrder, ReceiveDuplicate
      <4> QED BY <4>1, Invisible
    <3> QED BY <3>1, <3>2, <3>3, <3>4 DEF Receive
  <2>3. ASSUME NEW e \in End,
               \/ RetransmitAny(e) \/ AckTimeout(e) \/ RemoveStream(e)
               \/ \E p \in net[e] : Lose(e, p)
        PROVE  UNCHANGED Channel!cvars
    <3>1. writer' = writer /\ sent' = sent /\ delivered' = delivered /\ eof' = eof
      BY <2>3 DEF RetransmitAny, CheckRetransmit, AckTimeout, RemoveStream, Lose
    <3> QED BY <3>1, Invisible
  <2>4. ASSUME NEW e \in End, Send(e) \/ SendClose(e)
        PROVE  Channel!Next
    BY <1>2, <2>4, SendIsWrite, SendCloseIsFinish DEF Channel!Next
  <2>5. ASSUME NEW e \in End, Transmit(e) \/ SendAborted(e)
        PROVE  UNCHANGED Channel!cvars
    BY <1>2, <2>5, WriterInvisible
  <2> QED BY <1>2, <2>1, <2>2, <2>3, <2>4, <2>5 DEF Next
<1>3. StreamInv /\ [Next]_vars => [Channel!Next]_(Channel!cvars)
  BY <1>2
<1> QED BY <1>1, <1>3, StreamInvariant, PTL DEF Spec, ImplementsChannel, Channel!Spec
-----------------------------------------------------------------------------
(***************************************************************************)
(* The SACK bookkeeping, by a second induction that uses StreamInv.        *)
(***************************************************************************)
\* A step is taken by one endpoint and is local to it: a step of its writer,
\* receive loop or ticker, or one that leaves its sender half alone.
LEMMA Actor ==
  ASSUME StreamInv, Next
  PROVE  \E e \in End :
            /\ StreamInv' /\ Local(e)
            /\ \/ Send(e) \/ Transmit(e) \/ SendAborted(e) \/ SendClose(e)
               \/ ReceiveAny(e) \/ RetransmitAny(e)
               \/ /\ UNCHANGED <<snd, writer, sent, gaveUp>>
                  /\ closed[e] => closed'[e]
<1>1. ASSUME NEW e \in End, ReceiveAny(e) PROVE StreamInv' /\ Local(e)
  <2>1. PICK p \in net[e], keep \in BOOLEAN, due \in BOOLEAN, cut \in BOOLEAN :
            Receive(e, p, keep, due, cut)
    BY <1>1 DEF ReceiveAny
  <2> QED BY <2>1, ReceiveAckStep, ReceiveInOrderStep, ReceiveOutOfOrderStep,
             ReceiveDuplicateStep, ReceiveCloseStep DEF Receive
<1>2. ASSUME NEW e \in End, RetransmitAny(e) PROVE StreamInv' /\ Local(e)
  BY <1>2, CheckRetransmitStep DEF RetransmitAny
<1>3. ASSUME NEW e \in End,
             AckTimeout(e) \/ RemoveStream(e) \/ \E p \in net[e] : Lose(e, p)
      PROVE  /\ StreamInv' /\ Local(e) /\ UNCHANGED <<snd, writer, sent, gaveUp>>
             /\ closed[e] => closed'[e]
  <2>1. StreamInv' /\ Local(e)
    BY <1>3, AckTimeoutStep, RemoveStreamStep, LoseStep
  <2>2. UNCHANGED <<snd, writer, sent, gaveUp>>
    BY <1>3 DEF AckTimeout, RemoveStream, Lose
  <2>3. closed[e] => closed'[e]
    BY <1>3 DEF AckTimeout, RemoveStream, Lose
  <2> QED BY <2>1, <2>2, <2>3
<1>4. PICK e \in End :
         \/ Send(e) \/ Transmit(e) \/ SendAborted(e) \/ SendClose(e)
         \/ ReceiveAny(e) \/ RetransmitAny(e) \/ AckTimeout(e) \/ RemoveStream(e)
         \/ \E p \in net[e] : Lose(e, p)
  BY DEF Next
<1>5. CASE Send(e) \/ Transmit(e) \/ SendAborted(e) \/ SendClose(e)
  BY <1>5, SendActionStep, TransmitActionStep, SendAbortedStep, SendCloseStep
<1> QED BY <1>1, <1>2, <1>3, <1>4, <1>5

\* Two counters less than half a space old with the same wire form are equal.
LEMMA SameCounter ==
  ASSUME NEW n \in Nat, NEW a \in Nat, n - a <= HalfSpace,
         NEW c \in Nat, a < c, c < n,
         NEW k \in Nat, k < n, n - k <= HalfSpace, Wire(c) = Wire(k)
  PROVE  c = k
<1>1. c - k < Space /\ k - c < Space
  BY HalfSpaceAssumption, SpaceType
<1> QED BY <1>1, WireInjective

\* What a receiver holds was sent.
LEMMA HeldSent ==
  ASSUME StreamInv, NEW e \in End, NEW c \in Nat, Holds(Peer(e), c)
  PROVE  c < sent[e]
<1> DEFINE h == Peer(e)
<1>1. /\ sent[e] \in Nat /\ Len(delivered[h]) \in Nat
      /\ TypedDirection(snd[e], writer[e], sent[e], rcv[h], delivered[h],
                        Towards(h), Towards(e))
  BY AtEndpoint, PeerFacts
<1>2. /\ SentBy(writer[e], sent[e]) \in Nat /\ SentBy(writer[e], sent[e]) <= sent[e]
      /\ Len(delivered[h]) <= SentBy(writer[e], sent[e])
  BY <1>1, SentBound DEF TypedDirection, Direction
<1>3. CASE c < Len(delivered[h]) BY <1>1, <1>2, <1>3
<1>4. ASSUME NEW o \in rcv[h].outOfOrder, o.chunk = c PROVE c < sent[e]
  <2>1. o.chunk < SentBy(writer[e], sent[e]) BY <1>1, BufferedPosition
  <2> QED BY <1>1, <1>2, <1>4, <2>1
<1> QED BY <1>3, <1>4 DEF Holds

\* The entries of e's unacked map are in order.
Entries(e, us, w, n) ==
    \A u \in us : /\ Entry(u.pkt, w, n)
                  /\ u.sacked => Holds(Peer(e), u.pkt.chunk)

\* Marking what SACK blocks under way report keeps them so.
LEMMA MarkingSound ==
  ASSUME StreamInv, NEW e \in End, SackInv(e), NEW us,
         \A v \in us : \E u \in snd[e].unacked :
            /\ v.pkt = u.pkt
            /\ \/ v.sacked => u.sacked
               \/ \E p \in Towards(e) : "ack" \in p.flags /\ u.pkt.seq \in p.sack
  PROVE  Entries(e, us, writer[e], sent[e])
<1> SUFFICES ASSUME NEW v \in us
             PROVE  /\ Entry(v.pkt, writer[e], sent[e])
                    /\ v.sacked => Holds(Peer(e), v.pkt.chunk)
  BY DEF Entries
<1>1. PICK u \in snd[e].unacked :
         /\ v.pkt = u.pkt
         /\ \/ v.sacked => u.sacked
            \/ \E p \in Towards(e) : "ack" \in p.flags /\ u.pkt.seq \in p.sack
  OBVIOUS
<1>2. /\ Entry(u.pkt, writer[e], sent[e])
      /\ u.sacked => Holds(Peer(e), u.pkt.chunk)
  BY DEF SackInv
<1>3. u.pkt.chunk \in Nat /\ sent[e] \in Nat
  BY AtEndpoint DEF Sender, Unacked, Packet
<1>4. ASSUME NEW p \in Towards(e), "ack" \in p.flags, u.pkt.seq \in p.sack
      PROVE  Holds(Peer(e), u.pkt.chunk)
  <2>1. p \in Packet /\ CarriesAck(p, sent[e], Len(delivered[Peer(e)]))
    BY AtEndpoint DEF TypedDirection, Direction
  <2>2. p.acked \in Nat /\ sent[e] - p.acked <= HalfSpace
    BY <1>4, <2>1 DEF CarriesAck, Packet
  <2>3. PICK c \in (p.acked + 1) .. (p.acked + MaxCwnd) :
           u.pkt.seq = Wire(c) /\ Holds(Peer(e), c)
    BY <1>4 DEF SackInv
  <2>4. c \in Nat /\ p.acked < c BY <2>2, <2>3, CwndAssumption
  <2>5. c < sent[e] BY <2>3, <2>4, HeldSent
  <2>6. /\ u.pkt.chunk < sent[e] /\ sent[e] - u.pkt.chunk <= HalfSpace
        /\ Wire(c) = Wire(u.pkt.chunk)
    BY <1>2, <2>3 DEF Entry
  <2>7. c = u.pkt.chunk BY <1>3, <2>2, <2>4, <2>5, <2>6, SameCounter
  <2> QED BY <2>3, <2>7
<1> QED BY <1>1, <1>2, <1>4

\* Receive: the sender half marks what the packet's SACK blocks report.
LEMMA ReceiveEntries ==
  ASSUME StreamInv, NEW e \in End, SackInv(e), ReceiveAny(e)
  PROVE  Entries(e, snd'[e].unacked, writer'[e], sent'[e])
<1>1. PICK p \in net[e], keep \in BOOLEAN, due \in BOOLEAN, cut \in BOOLEAN :
          Receive(e, p, keep, due, cut)
  BY DEF ReceiveAny
<1>2. /\ snd' = [snd EXCEPT ![e] = ProcessAck(@, p, due, cut)]
      /\ writer' = writer /\ sent' = sent
  BY <1>1 DEF Receive, ReceiveAck, ReceiveInOrder, ReceiveOutOfOrder,
              ReceiveDuplicate, ReceiveClose
<1>3. /\ snd \in [End -> Sender] /\ snd[e] \in Sender /\ IsFiniteSet(snd[e].unacked)
      /\ p \in Packet /\ p \in Towards(e)
  BY AtEndpoint DEF StreamInv, TypeOK, Towards
<1>4. PICK t : t = ProcessAck(snd[e], p, due, cut) OBVIOUS
<1>5. snd'[e] = t BY <1>2, <1>3, <1>4
<1>6. \A v \in t.unacked : \E u \in snd[e].unacked :
         /\ v.pkt = u.pkt
         /\ v.sacked => u.sacked \/ ("ack" \in p.flags /\ u.pkt.seq \in p.sack)
  BY <1>3, <1>4, ProcessAckFacts
<1>7. \A v \in t.unacked : \E u \in snd[e].unacked :
         /\ v.pkt = u.pkt
         /\ \/ v.sacked => u.sacked
            \/ \E q \in Towards(e) : "ack" \in q.flags /\ u.pkt.seq \in q.sack
  BY <1>3, <1>6
<1> QED BY <1>2, <1>5, <1>7, MarkingSound

\* checkRetransmit marks nothing.
LEMMA RetransmitEntries ==
  ASSUME StreamInv, NEW e \in End, SackInv(e), RetransmitAny(e)
  PROVE  Entries(e, snd'[e].unacked, writer'[e], sent'[e])
<1>1. PICK expired \in SUBSET snd[e].unacked, cut \in BOOLEAN :
          CheckRetransmit(e, expired, cut)
  BY DEF RetransmitAny
<1> DEFINE live == expired \ {u \in expired : u.retries >= MaxRetries}
           us == (snd[e].unacked \ expired) \cup Bumped(live)
<1>2. /\ snd' = [snd EXCEPT ![e] = Expired(@, expired, live, cut)]
      /\ writer' = writer /\ sent' = sent
  BY <1>1 DEF CheckRetransmit
<1>3. /\ snd \in [End -> Sender] /\ snd[e] \in Sender
      /\ snd[e].unacked \in SUBSET Unacked /\ IsFiniteSet(snd[e].unacked)
  BY AtEndpoint DEF StreamInv, TypeOK, Sender
<1>4. snd'[e].unacked = us
  BY <1>2, <1>3 DEF Expired, Sender
<1>5. live \in SUBSET snd[e].unacked /\ live \in SUBSET Unacked /\ IsFiniteSet(live)
  BY <1>3, FS_Subset
<1> HIDE DEF live
<1>6. \A v \in Bumped(live) : \E u \in live : v.pkt = u.pkt /\ v.sacked = u.sacked
  BY <1>5, BumpedFacts
<1>7. \A v \in us : \E u \in snd[e].unacked : v.pkt = u.pkt /\ v.sacked = u.sacked
  BY <1>5, <1>6
<1> HIDE DEF us
<1>8. Entries(e, us, writer[e], sent[e])
  BY <1>7, MarkingSound
<1> QED BY <1>2, <1>4, <1>8

\* What Emit stores: the old entries and the new packet, not yet SACKed.
LEMMA EmitStores ==
  ASSUME StreamInv, NEW e \in End, NEW s \in Sender, NEW p, Emit(e, s, p)
  PROVE  snd'[e].unacked =
            s.unacked \cup {[pkt |-> p, retries |-> 0, sacked |-> FALSE]}
<1>1. snd \in [End -> Sender] BY DEF StreamInv, TypeOK
<1> QED BY <1>1 DEF Emit, Storing, Sender

\* The writer's steps: a number is taken only while every packet is young, and
\* an entry is added with the number it was given.
LEMMA WriterEntries ==
  ASSUME StreamInv, NEW e \in End, SackInv(e),
         Send(e) \/ Transmit(e) \/ SendAborted(e) \/ SendClose(e)
  PROVE  Entries(e, snd'[e].unacked, writer'[e], sent'[e])
<1> DEFINE us == snd[e].unacked  n == sent[e]
<1>1. /\ snd \in [End -> Sender] /\ sent \in [End -> Nat] /\ snd[e] \in Sender
      /\ writer \in [End -> {"idle", "waiting", "closed", "aborted"}]
      /\ n \in Nat /\ snd[e].sendSeq = Wire(n) /\ (writer[e] # "idle" => n >= 1)
  BY AtEndpoint DEF StreamInv, TypeOK, TypedDirection, Direction
<1>2. \A u \in us : /\ Entry(u.pkt, writer[e], n) /\ u.pkt.chunk \in Nat
                    /\ u.sacked => Holds(Peer(e), u.pkt.chunk)
  BY <1>1 DEF SackInv, Sender, Unacked, Packet
<1>3. ASSUME Lifetime(e), writer[e] = "idle", NEW w2
      PROVE  \A u \in us : Entry(u.pkt, w2, n + 1)
  <2> TAKE u \in us
  <2>1. "data" \in u.pkt.flags /\ u.pkt \in Towards(Peer(e))
    BY <1>2, <1>3, PeerFacts DEF Entry, Towards, Stored
  <2>2. n - u.pkt.chunk < HalfSpace BY <1>3, <2>1 DEF Lifetime
  <2>3. (n + 1) - u.pkt.chunk <= HalfSpace /\ u.pkt.chunk < n + 1
    BY <1>1, <1>2, <2>2, HalfSpaceAssumption DEF Entry
  <2>4. u.pkt.seq = Wire(u.pkt.chunk) /\ u.pkt.flags # {"ack"}
    BY <1>2 DEF Entry
  <2> HIDE DEF n, us
  <2> QED BY <2>1, <2>3, <2>4 DEF Entry
<1>4. CASE Send(e)
  <2>1. /\ Lifetime(e) /\ writer[e] = "idle" /\ snd'[e].unacked = us
        /\ sent'[e] = n + 1
    BY <1>1, <1>4 DEF Send, Sender
  <2> QED BY <1>2, <1>3, <2>1 DEF Entries
<1>5. CASE Transmit(e)
  <2>1. /\ writer[e] = "waiting" /\ writer'[e] = "idle" /\ sent'[e] = n
        /\ Emit(e, snd[e], DataPacket(e))
    BY <1>1, <1>5 DEF Transmit
  <2> DEFINE p == DataPacket(e)  x == [pkt |-> p, retries |-> 0, sacked |-> FALSE]
  <2>2. snd'[e].unacked = us \cup {x}
    BY <1>1, <2>1, EmitStores
  <2>3. p.seq = HeldSeq(e) /\ p.chunk = n - 1 /\ "data" \in p.flags
    BY <2>1, DataPacketType
  <2> HIDE DEF p
  <2>4. p.seq = Wire(n - 1)
    <3>1. n > 0 BY <1>1, <2>1
    <3> HIDE DEF n
    <3> QED BY <1>1, <2>3, <3>1, WirePred DEF HeldSeq
  <2>5. Entry(p, "idle", n)
    BY <1>1, <2>1, <2>3, <2>4, HalfSpaceAssumption DEF Entry
  <2>6. \A u \in us : Entry(u.pkt, "idle", n)
    BY <1>2, <2>1 DEF Entry
  <2>7. x.pkt = p /\ x.sacked = FALSE OBVIOUS
  <2> HIDE DEF x
  <2> QED BY <1>2, <2>1, <2>2, <2>5, <2>6, <2>7 DEF Entries
<1>6. CASE SendAborted(e)
  <2>1. /\ writer[e] = "waiting" /\ snd'[e].unacked = us /\ sent'[e] = n
    BY <1>6 DEF SendAborted
  <2> QED BY <1>2, <2>1 DEF Entries, Entry
<1>7. CASE SendClose(e)
  <2> DEFINE t == [snd[e] EXCEPT !.sendSeq = Plus(@, 1)]
             p == ClosePacket(e)  x == [pkt |-> p, retries |-> 0, sacked |-> FALSE]
  <2>1. /\ writer[e] = "idle" /\ writer'[e] = "closed" /\ sent'[e] = n + 1
        /\ Lifetime(e) /\ Emit(e, t, p)
    BY <1>1, <1>7 DEF SendClose
  <2>2. t \in Sender /\ t.unacked = us
    <3>1. Plus(snd[e].sendSeq, 1) \in SeqNums BY <1>1, SeqPlusType DEF Sender
    <3> QED BY <1>1, <3>1 DEF Sender
  <2> HIDE DEF t
  <2>3. snd'[e].unacked = us \cup {x}
    BY <2>1, <2>2, EmitStores
  <2>4. /\ p.seq = Wire(n) /\ p.chunk = n /\ p.flags = {"close", "ack"}
    BY <1>1 DEF ClosePacket
  <2> HIDE DEF p
  <2>5. Entry(p, "closed", n + 1)
    BY <1>1, <2>4, HalfSpaceAssumption DEF Entry
  <2>6. x.pkt = p /\ x.sacked = FALSE OBVIOUS
  <2> HIDE DEF x
  <2> QED BY <1>2, <1>3, <2>1, <2>3, <2>5, <2>6 DEF Entries
<1> QED BY <1>4, <1>5, <1>6, <1>7

\* A step of e preserves what e's sender half relies on.
LEMMA SackOwnStep ==
  ASSUME StreamInv, NEW e \in End, SackInv(e), Local(e),
         Entries(e, snd'[e].unacked, writer'[e], sent'[e])
  PROVE  SackInv(e)'
<1>1. Towards(e)' \subseteq Towards(e)
      /\ rcv'[Peer(e)] = rcv[Peer(e)] /\ delivered'[Peer(e)] = delivered[Peer(e)]
  BY DEF Local
<1>2. \A c : Holds(Peer(e), c) => Holds(Peer(e), c)'
  BY <1>1 DEF Holds
<1>3. \A u \in snd'[e].unacked :
         /\ Entry(u.pkt, writer'[e], sent'[e])
         /\ u.sacked => Holds(Peer(e), u.pkt.chunk)'
  BY <1>2 DEF Entries
<1>4. \A p \in Towards(e)' : \A q \in p.sack :
         \E c \in (p.acked + 1) .. (p.acked + MaxCwnd) :
             q = Wire(c) /\ Holds(Peer(e), c)'
  BY <1>1, <1>2 DEF SackInv
<1> QED BY <1>3, <1>4 DEF SackInv

\* So does a step of the peer: it holds on to what it holds, and reports in
\* SACK blocks only what it buffers.
LEMMA SackPeerStep ==
  ASSUME StreamInv, StreamInv', NEW h \in End, Local(h), NEW e, e = Peer(h),
         SackInv(e)
  PROVE  SackInv(e)'
<1>1. e \in End /\ Peer(e) = h BY PeerFacts
<1>2. /\ snd'[e] = snd[e] /\ writer'[e] = writer[e] /\ sent'[e] = sent[e]
      /\ \A c \in Nat : Holds(h, c) => Holds(h, c)'
      /\ \A p \in Towards(e)' : p \in Towards(e) \/ Fresh(p, h)
  BY DEF Local
<1>3. \A u \in snd[e].unacked : u.pkt.chunk \in Nat
  BY <1>1, AtEndpoint DEF Sender, Unacked, Packet
<1>4. \A u \in snd'[e].unacked :
         /\ Entry(u.pkt, writer'[e], sent'[e])
         /\ u.sacked => Holds(h, u.pkt.chunk)'
  BY <1>1, <1>2, <1>3 DEF SackInv
<1>5. ASSUME NEW p \in Towards(e)', NEW q \in p.sack
      PROVE  \E c \in (p.acked + 1) .. (p.acked + MaxCwnd) :
                 q = Wire(c) /\ Holds(h, c)'
  <2>1. CASE p \in Towards(e)
    <3>1. p.acked \in Nat BY <1>1, <2>1, AtEndpoint DEF Packet
    <3>2. PICK c \in (p.acked + 1) .. (p.acked + MaxCwnd) :
             q = Wire(c) /\ Holds(h, c)
      BY <1>1, <1>5, <2>1 DEF SackInv
    <3>3. c \in Nat BY <3>1, <3>2, CwndAssumption
    <3> QED BY <1>2, <3>2, <3>3
  <2>2. CASE Fresh(p, h)
    <3> DEFINE d == Len(delivered'[h])
    <3>1. p.acked = d /\ q \in BufferedSeqs(rcv'[h]) BY <1>5, <2>2 DEF Fresh
    <3>2. PICK o \in rcv'[h].outOfOrder : o.seq = q BY <3>1 DEF BufferedSeqs
    <3>3. /\ TypedDirection(snd'[e], writer'[e], sent'[e], rcv'[h], delivered'[h],
                            Towards(h)', Towards(e)')
      <4>1. /\ sent'[e] \in Nat /\ delivered'[h] \in Seq(Nat) /\ rcv'[h] \in Receiver
            /\ DirectionInv(e)'
        BY <1>1 DEF StreamInv, TypeOK
      <4>2. Towards(h)' \in SUBSET Packet /\ Towards(e)' \in SUBSET Packet
        <5>1. ASSUME NEW g \in End PROVE Towards(g)' \in SUBSET Packet
          <6>1. net'[g] \in SUBSET Packet /\ snd'[Peer(g)] \in Sender
            BY <5>1, PeerFacts DEF StreamInv, TypeOK
          <6>2. Stored(snd'[Peer(g)]) \in SUBSET Packet BY <6>1, StoredType
          <6> QED BY <6>1, <6>2 DEF Towards
        <5> QED BY <1>1, <5>1
      <4> QED BY <1>1, <4>1, <4>2 DEF TypedDirection, DirectionInv
    <3>4. /\ o.chunk \in Nat /\ o.seq = Wire(o.chunk)
          /\ d < o.chunk /\ o.chunk <= d + MaxCwnd /\ d \in Nat
      <4>1. d \in Nat BY <1>1 DEF StreamInv, TypeOK
      <4> HIDE DEF d
      <4>2. /\ o.chunk \in Nat /\ o.seq = Wire(o.chunk)
            /\ Len(delivered'[h]) < o.chunk /\ o.chunk <= Len(delivered'[h]) + MaxCwnd
        BY <3>3, BufferedPosition
      <4> QED BY <4>1, <4>2 DEF d
    <3> HIDE DEF d
    <3>5. o.chunk \in (p.acked + 1) .. (p.acked + MaxCwnd)
      BY <3>1, <3>4, CwndAssumption
    <3>6. Holds(h, o.chunk)' BY DEF Holds
    <3> QED BY <3>2, <3>4, <3>5, <3>6
  <2> QED BY <1>2, <1>5, <2>1, <2>2
<1> QED BY <1>1, <1>4, <1>5 DEF SackInv

\* Every step preserves it at both endpoints.
LEMMA SackNextStep ==
  ASSUME StreamInv, \A e \in End : SackInv(e), [Next]_vars
  PROVE  \A e \in End : SackInv(e)'
<1>1. CASE UNCHANGED vars
  BY <1>1 DEF vars, SackInv, Towards, Holds
<1>2. CASE Next
  <2>1. PICK a \in End :
            /\ StreamInv' /\ Local(a)
            /\ \/ Send(a) \/ Transmit(a) \/ SendAborted(a) \/ SendClose(a)
               \/ ReceiveAny(a) \/ RetransmitAny(a)
               \/ UNCHANGED <<snd, writer, sent, gaveUp>>
    BY <1>2, Actor
  <2>2. Entries(a, snd'[a].unacked, writer'[a], sent'[a])
    <3>1. CASE UNCHANGED <<snd, writer, sent, gaveUp>>
      BY <3>1 DEF SackInv, Entries
    <3> QED BY <2>1, <3>1, WriterEntries, ReceiveEntries, RetransmitEntries
  <2>3. SackInv(a)' BY <2>1, <2>2, SackOwnStep
  <2>4. SackInv(Peer(a))' BY <2>1, PeerFacts, SackPeerStep
  <2> QED BY <2>3, <2>4, PeerFacts
<1> QED BY <1>1, <1>2

\* SACK blocks never lie, however late they arrive: what they report is held,
\* and they age out before their numbers are used again.
THEOREM SackInvariant == Spec => [](\A e \in End : SackInv(e))
<1>1. Init => \A e \in End : SackInv(e)
  <2> SUFFICES ASSUME Init, NEW e \in End PROVE SackInv(e) OBVIOUS
  <2>1. Towards(e) = {} /\ snd[e].unacked = {}
    BY PeerFacts DEF Init, Towards, Stored, NewSender
  <2> QED BY <2>1 DEF SackInv
<1>2. StreamInv /\ (\A e \in End : SackInv(e)) /\ [Next]_vars
        => (\A e \in End : SackInv(e))'
  BY SackNextStep
<1> QED BY <1>1, <1>2, StreamInvariant, PTL DEF Spec

\* An entry marked sacked, which checkRetransmit then leaves alone for good,
\* is at the peer: SACK-based marking loses nothing.
THEOREM SackedHeld == Spec => []SackedIsHeld
<1>1. (\A e \in End : SackInv(e)) => SackedIsHeld
  BY DEF SackInv, SackedIsHeld
<1> QED BY <1>1, SackInvariant, PTL

-----------------------------------------------------------------------------
(***************************************************************************)
(* What makes a sender forget a packet.                                    *)
(***************************************************************************)
\* What the invariant says of e's window and of the packets on the way back.
LEMMA SenderFacts ==
  ASSUME StreamInv, NEW e \in End, NEW n, n = sent[e],
         NEW d, d = Len(delivered[Peer(e)])
  PROVE  /\ n \in Nat /\ d \in Nat /\ d <= n /\ Window(snd[e], writer[e], n, d)
         /\ \A p \in Towards(e) : CarriesAck(p, n, d)
<1>1. PICK h : h = Peer(e) OBVIOUS
<1>2. TypedDirection(snd[e], writer[e], n, rcv[h], delivered[h],
                     Towards(h), Towards(e))
  BY <1>1, AtEndpoint
<1>3. /\ n \in Nat /\ d \in Nat /\ Window(snd[e], writer[e], n, d)
      /\ d <= SentBy(writer[e], n) /\ (writer[e] # "idle" => n >= 1)
      /\ \A p \in Towards(e) : CarriesAck(p, n, d)
  BY <1>1, <1>2 DEF TypedDirection, Direction
<1>4. SentBy(writer[e], n) \in Nat /\ SentBy(writer[e], n) <= n
  BY <1>3, SentBound
<1> QED BY <1>3, <1>4

\* An ACK for a, at or ahead of sendBase, removes only chunks before a.
LEMMA CoveredBefore ==
  ASSUME NEW b \in Nat, NEW a \in Nat, NEW n \in Nat, NEW c \in Nat,
         b <= a, a <= n, n <= b + MaxCwnd + 1, c < n,
         Offset(Wire(c), Wire(b)) < ScanSpan(Diff(Wire(a), Wire(b)), 0)
  PROVE  c < a
<1>1. a - b < HalfSpace /\ b - a <= HalfSpace
  BY CwndAssumption, StreamAssumption, HalfSpaceAssumption
<1>2. Diff(Wire(a), Wire(b)) = a - b BY <1>1, WireDiff
<1>3. ScanSpan(a - b, 0) <= a - b /\ ScanSpan(a - b, 0) \in Int
  BY CwndAssumption DEF ScanSpan
<1>4. CASE c < b BY <1>4
<1>5. CASE c >= b
  <2>1. c - b < Space BY <1>5, CwndAssumption, StreamAssumption, SpaceType,
                         HalfSpaceAssumption
  <2>2. Offset(Wire(c), Wire(b)) = c - b BY <1>5, <2>1, WireOffset
  <2> QED BY <1>2, <1>3, <2>2
<1> QED BY <1>4, <1>5

\* The sender half of e after Receive: every entry is kept but those that the
\* ACK covers.
LEMMA ReceiveKeeps ==
  ASSUME StreamInv, NEW e \in End, NEW p \in net[e], NEW keep, NEW due, NEW cut,
         Receive(e, p, keep, due, cut), NEW u \in snd[e].unacked
  PROVE  \/ \E v \in snd'[e].unacked : v.pkt = u.pkt
         \/ "ack" \in p.flags /\ u \in Covered(snd[e], p.ack)
<1>1. snd' = [snd EXCEPT ![e] = ProcessAck(@, p, due, cut)]
  BY DEF Receive, ReceiveAck, ReceiveInOrder, ReceiveOutOfOrder, ReceiveDuplicate,
         ReceiveClose
<1>2. /\ snd \in [End -> Sender] /\ snd[e] \in Sender /\ IsFiniteSet(snd[e].unacked)
      /\ p \in Packet
  BY AtEndpoint DEF StreamInv, TypeOK, Towards
<1>3. PICK t : t = ProcessAck(snd[e], p, due, cut) OBVIOUS
<1>4. snd'[e] = t BY <1>1, <1>2, <1>3
<1> QED BY <1>2, <1>3, <1>4, ProcessAckFacts

\* What an ACK at or ahead of sendBase covers, the peer has delivered.
LEMMA CoveredIsHeld ==
  ASSUME StreamInv, NEW e \in End, SackInv(e), NEW p \in net[e], "ack" \in p.flags,
         NEW u \in snd[e].unacked, u \in Covered(snd[e], p.ack),
         ~seqLess(p.ack, snd[e].sendBase)
  PROVE  Holds(Peer(e), u.pkt.chunk)
<1> DEFINE n == sent[e]  d == Len(delivered[Peer(e)])  a == p.acked  c == u.pkt.chunk
<1>1. /\ p \in Packet /\ u \in Unacked
      /\ n \in Nat /\ d \in Nat /\ d <= n /\ Window(snd[e], writer[e], n, d)
      /\ CarriesAck(p, n, d)
  <2>1. p \in Packet /\ u \in Unacked BY AtEndpoint DEF StreamInv, TypeOK, Sender
  <2>2. p \in Towards(e) BY DEF Towards
  <2> QED BY <2>1, <2>2, SenderFacts
<1>2. PICK b \in 0 .. d : snd[e].sendBase = Wire(b) /\ n <= b + MaxCwnd + 1
  BY <1>1, CwndAssumption DEF Window
<1>3. /\ a \in Nat /\ p.ack = Wire(a) /\ a <= d /\ n - a <= HalfSpace /\ b \in Nat
  BY <1>1, <1>2 DEF CarriesAck, Packet
<1>4. c \in Nat /\ c < n /\ u.pkt.seq = Wire(c)
  BY <1>1 DEF SackInv, Entry, Unacked, Packet
<1>5. Offset(Wire(c), Wire(b)) < ScanSpan(Diff(Wire(a), Wire(b)), 0)
  BY <1>2, <1>3, <1>4 DEF Covered, Scanned
<1> HIDE DEF n, d, a, c
<1>6. b <= a
  <2>1. a - b < HalfSpace /\ b - a <= HalfSpace
    BY <1>1, <1>2, <1>3, CwndAssumption, StreamAssumption, HalfSpaceAssumption
  <2>2. Diff(p.ack, snd[e].sendBase) = a - b BY <1>2, <1>3, <2>1, WireDiff
  <2> QED BY <1>3, <2>2 DEF seqLess
<1>7. c < a BY <1>1, <1>2, <1>3, <1>4, <1>5, <1>6, CoveredBefore
<1> QED BY <1>1, <1>3, <1>4, <1>7 DEF Holds, c, d

\* checkRetransmit drops only entries that have used all their retries.
LEMMA RetransmitKeeps ==
  ASSUME StreamInv, NEW e \in End, RetransmitAny(e), NEW u \in snd[e].unacked
  PROVE  u.retries = MaxRetries \/ \E v \in snd'[e].unacked : v.pkt = u.pkt
<1>1. PICK expired \in SUBSET snd[e].unacked, cut \in BOOLEAN :
          CheckRetransmit(e, expired, cut)
  BY DEF RetransmitAny
<1> DEFINE dead == {x \in expired : x.retries >= MaxRetries}
           live == expired \ dead
           us == (snd[e].unacked \ expired) \cup Bumped(live)
<1>2. snd' = [snd EXCEPT ![e] = Expired(@, expired, live, cut)]
  BY <1>1 DEF CheckRetransmit
<1>3. /\ snd \in [End -> Sender] /\ snd[e] \in Sender
      /\ snd[e].unacked \in SUBSET Unacked /\ IsFiniteSet(snd[e].unacked)
  BY AtEndpoint DEF StreamInv, TypeOK, Sender
<1>4. snd'[e].unacked = us BY <1>2, <1>3 DEF Expired, Sender
<1>5. live \in SUBSET Unacked /\ IsFiniteSet(live) BY <1>3, FS_Subset
<1>6. u \in dead \/ u \in live \/ u \in us OBVIOUS
<1>7. u \in dead => u.retries = MaxRetries
  BY <1>3, StreamAssumption DEF Unacked
<1>8. Bumped(live) \subseteq us OBVIOUS
<1> HIDE DEF live, dead, us
<1>9. \A x \in live : \E v \in Bumped(live) : v.pkt = x.pkt
  BY <1>5, BumpedFacts
<1> QED BY <1>4, <1>6, <1>7, <1>8, <1>9

\* The writer's steps only add entries.
LEMMA WriterKeeps ==
  ASSUME StreamInv, NEW e \in End,
         Send(e) \/ Transmit(e) \/ SendAborted(e) \/ SendClose(e)
  PROVE  snd[e].unacked \subseteq snd'[e].unacked
<1>1. snd \in [End -> Sender] /\ snd[e] \in Sender
  BY AtEndpoint DEF StreamInv, TypeOK
<1>2. CASE Send(e) BY <1>1, <1>2 DEF Send, Sender
<1>3. CASE Transmit(e)
  <2>1. Emit(e, snd[e], DataPacket(e)) BY <1>3 DEF Transmit
  <2> QED BY <1>1, <2>1, EmitStores
<1>4. CASE SendAborted(e) BY <1>4 DEF SendAborted
<1>5. CASE SendClose(e)
  <2> DEFINE t == [snd[e] EXCEPT !.sendSeq = Plus(@, 1)]
  <2>1. Emit(e, t, ClosePacket(e)) BY <1>5 DEF SendClose
  <2>2. t \in Sender /\ t.unacked = snd[e].unacked
    <3>1. Plus(snd[e].sendSeq, 1) \in SeqNums BY <1>1, SeqPlusType DEF Sender
    <3> QED BY <1>1, <3>1 DEF Sender
  <2> HIDE DEF t
  <2> QED BY <2>1, <2>2, EmitStores
<1> QED BY <1>2, <1>3, <1>4, <1>5

\* Whatever ACKs and SACKs arrive, in whatever order and however often, and
\* whatever is retransmitted, across the wraparound: the sender forgets a packet
\* only when the peer holds its chunk, when its retries are used up, or at an ACK
\* behind sendBase.  The last of these is the one way to lose data, and run
\* StreamStaleAck shows that the program takes it.
THEOREM ForgetsOnlyAtStaleAcks == Spec => OnlyStaleAcksForget
<1> DEFINE Sacks == \A e \in End : SackInv(e)
           Kept(e) == \A u \in snd[e].unacked :
                         \/ \E v \in snd'[e].unacked : v.pkt = u.pkt
                         \/ Holds(Peer(e), u.pkt.chunk)
                         \/ u.retries = MaxRetries /\ RetransmitAny(e)
                         \/ StaleAck(e)
<1>1. ASSUME StreamInv, Sacks, Next PROVE \A e \in End : Kept(e)
  <2>1. PICK a \in End :
            /\ Local(a)
            /\ \/ Send(a) \/ Transmit(a) \/ SendAborted(a) \/ SendClose(a)
               \/ ReceiveAny(a) \/ RetransmitAny(a) \/ UNCHANGED snd
    BY <1>1, Actor
  <2>2. snd'[Peer(a)] = snd[Peer(a)] BY <2>1 DEF Local
  <2>3. Kept(Peer(a)) BY <2>2
  <2>4. ASSUME NEW u \in snd[a].unacked
        PROVE  \/ \E v \in snd'[a].unacked : v.pkt = u.pkt
               \/ Holds(Peer(a), u.pkt.chunk)
               \/ u.retries = MaxRetries /\ RetransmitAny(a)
               \/ StaleAck(a)
    <3>1. CASE Send(a) \/ Transmit(a) \/ SendAborted(a) \/ SendClose(a)
      BY <1>1, <3>1, WriterKeeps
    <3>2. CASE RetransmitAny(a) BY <1>1, <3>2, RetransmitKeeps
    <3>3. CASE UNCHANGED snd BY <3>3
    <3>4. CASE ReceiveAny(a)
      <4>1. PICK p \in net[a], keep \in BOOLEAN, due \in BOOLEAN, cut \in BOOLEAN :
                Receive(a, p, keep, due, cut)
        BY <3>4 DEF ReceiveAny
      <4>2. CASE "ack" \in p.flags /\ seqLess(p.ack, snd[a].sendBase)
        BY <4>1, <4>2 DEF StaleAck
      <4>3. CASE \E v \in snd'[a].unacked : v.pkt = u.pkt BY <4>3
      <4>4. CASE /\ "ack" \in p.flags /\ u \in Covered(snd[a], p.ack)
                 /\ ~seqLess(p.ack, snd[a].sendBase)
        BY <1>1, <4>4, CoveredIsHeld
      <4> QED BY <1>1, <4>1, <4>2, <4>3, <4>4, ReceiveKeeps
    <3> QED BY <2>1, <3>1, <3>2, <3>3, <3>4
  <2> QED BY <2>3, <2>4, PeerFacts
<1>2. StreamInv /\ Sacks /\ [Next]_vars => [\A e \in End : Kept(e)]_vars
  BY <1>1
<1>3. Spec => []Sacks BY SackInvariant, PTL
<1>4. [][\A e \in End : Kept(e)]_vars => OnlyStaleAcksForget
  BY PTL DEF OnlyStaleAcksForget
<1> HIDE DEF Sacks, Kept
<1> QED BY <1>2, <1>3, <1>4, StreamInvariant, PTL DEF Spec
=============================================================================
