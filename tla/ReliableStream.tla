--------------------------- MODULE ReliableStream ---------------------------
(***************************************************************************)
(* A pair of ReliableStream objects (pkg/tunnel/reliable.go), one at the   *)
(* client and one at the server, joined by the unreliable GRE path.        *)
(*                                                                         *)
(* Each object is a sender half snd[e] and a receiver half rcv[e].  The    *)
(* goroutines that touch it are the application's writer (Send, Transmit,  *)
(* SendClose), the transport's receive loop (the Receive actions, one per  *)
(* outcome of Receive), the retransmission ticker (CheckRetransmit), the   *)
(* delayed-ACK timer (AckTimeout) and whoever removes it (RemoveStream).    *)
(*                                                                         *)
(* The network is a set of packets per destination: it may lose, delay and *)
(* reorder packets freely and duplicate them.  Wall-clock time is left     *)
(* out: an RTO, a rate limit or a delay may have elapsed or not.           *)
(***************************************************************************)
EXTENDS SeqNum, Congestion, FiniteSets, Sequences

CONSTANTS
    MaxSend,              \* bound: sequence numbers the writer of e may use
    MaxFaults,            \* bound: losses plus duplications by the network
    MaxRetries,           \* retransmissions before a packet is given up (20)
    FastRetransmitCount,  \* duplicate ACKs that trigger a retransmission (3)
    AckEveryN,            \* in-order packets per immediate ACK (4)
    MaxSackBlocks,        \* SACK blocks per packet (4)
    MaxOutOfOrderBuffer,  \* capacity of the reorder buffer (16384)
    AckReorder,           \* may the network reorder or repeat ACKs?
    Closers               \* endpoints whose application closes the stream

End == {"client", "server"}
Peer(e) == IF e = "client" THEN "server" ELSE "client"

ASSUME StreamAssumption ==
    /\ MaxSend \in [End -> Nat] /\ MaxFaults \in Nat
    /\ MaxRetries \in Nat /\ FastRetransmitCount \in Nat \ {0}
    /\ AckEveryN \in Nat \ {0} /\ MaxSackBlocks \in Nat \ {0}
    /\ MaxOutOfOrderBuffer \in Nat
    /\ AckReorder \in BOOLEAN /\ Closers \in SUBSET End
    \* 16385 < 2^31 in the program
    /\ MaxCwnd + 1 < HalfSpace

(***************************************************************************)
(* A packet.  The flags are the bits of ReliablePacket.Flags (FlagSack is  *)
(* sack # {}), and sack is the set of numbers its SACK blocks cover.       *)
(* chunk names the payload: the k-th number a writer uses carries chunk    *)
(* k - 1.  acked is a history field, the unwrapped value of ack; only the  *)
(* network and the properties look at it.                                  *)
(***************************************************************************)
Packet == [flags : SUBSET {"data", "ack", "close"},
           seq : SeqNums, chunk : Nat,
           ack : SeqNums, acked : Nat, sack : SUBSET SeqNums]

\* An entry of the unacked map.  retries saturates at MaxRetries, the only
\* value it is compared with besides zero.
Unacked == [pkt : Packet, retries : 0 .. MaxRetries, sacked : BOOLEAN]

Sender == [sendSeq : SeqNums, sendBase : SeqNums, unacked : SUBSET Unacked,
           dupAckCount : 0 .. FastRetransmitCount, cc : CongestionState]

Receiver == [recvNext : SeqNums,
             outOfOrder : SUBSET [seq : SeqNums, chunk : Nat],
             recvCounter : 0 .. (AckEveryN - 1), pendingAck : BOOLEAN]

VARIABLES
    snd,        \* sender half of each endpoint's stream
    rcv,        \* receiver half
    writer,     \* the writing goroutine: idle, waiting for window, has sent
                \* its CLOSE ("closed"), or got ErrStreamClosed ("aborted")
    closed,     \* rs.closed
    net,        \* packets in flight towards each endpoint
    sent,       \* history: sequence numbers used so far
    delivered,  \* history: chunks handed to deliverFunc, in order
    eof,        \* history: onClose was called
    gaveUp,     \* history: a packet was dropped after MaxRetries
    faults      \* losses and duplications so far

vars == <<snd, rcv, writer, closed, net, sent, delivered, eof, gaveUp, faults>>

NewSender == [sendSeq |-> 0, sendBase |-> 0, unacked |-> {},
              dupAckCount |-> 0, cc |-> NewCongestion]

NewReceiver == [recvNext |-> 0, outOfOrder |-> {},
                recvCounter |-> 0, pendingAck |-> FALSE]

Init ==
    /\ snd = [e \in End |-> NewSender]
    /\ rcv = [e \in End |-> NewReceiver]
    /\ writer = [e \in End |-> "idle"]
    /\ closed = [e \in End |-> FALSE]
    /\ net = [e \in End |-> {}]
    /\ sent = [e \in End |-> 0]
    /\ delivered = [e \in End |-> <<>>]
    /\ eof = [e \in End |-> FALSE]
    /\ gaveUp = [e \in End |-> FALSE]
    /\ faults = 0

-----------------------------------------------------------------------------
(***************************************************************************)
(* Acknowledgements the receiver half produces.                            *)
(***************************************************************************)
BufferedSeqs(r) == {o.seq : o \in r.outOfOrder}

\* buildSackBlocks: the buffered numbers form maximal runs; a packet reports
\* the first MaxSackBlocks of them in wrap-aware order.
SackedSeqs(r) ==
    LET seqs  == BufferedSeqs(r)
        lefts == {q \in seqs : Plus(q, Space - 1) \notin seqs}
    IN  {q \in seqs :
            Cardinality({l \in lefts : seqLessOrEqual(l, q)}) <= MaxSackBlocks}

\* Mutant: acknowledges the number it still waits for.
BugAckPacket(r, count, sack) ==
    [flags |-> {"ack"}, seq |-> 0, chunk |-> 0,
     ack |-> Plus(r.recvNext, 1), acked |-> count, sack |-> sack]

AckPacket(r, count, sack) ==
    [flags |-> {"ack"}, seq |-> 0, chunk |-> 0,
     ack |-> r.recvNext, acked |-> count, sack |-> sack]

\* The packets of sendAckNow and sendAckWithSack; both clear pendingAck.
AckNow(r, count)      == AckPacket(r, count, {})
AckWithSack(r, count) == AckPacket(r, count, SackedSeqs(r))

\* scheduleAck: every AckEveryN-th packet is acknowledged at once, any other
\* leaves an ACK pending for the timer or for a piggyback.
AcksAtOnce(r) == r.recvCounter + 1 = AckEveryN
ScheduleAck(r) ==
    [r EXCEPT !.recvCounter = IF AcksAtOnce(r) THEN 0 ELSE @ + 1,
              !.pendingAck = ~AcksAtOnce(r)]

\* deliverOutOfOrder: exactly n buffered chunks follow number "next".
IsRun(r, next, n) ==
    /\ \A i \in 0 .. (n - 1) : Plus(next, i) \in BufferedSeqs(r)
    /\ Plus(next, n) \notin BufferedSeqs(r)

ChunkAt(r, q) == (CHOOSE o \in r.outOfOrder : o.seq = q).chunk

RunChunks(r, next, n) == [i \in 1 .. n |-> ChunkAt(r, Plus(next, i - 1))]

\* Mutant: delivers the buffered run before the packet that completes it.
BugHandedOver(dl, c, r, next, n) == dl \o RunChunks(r, next, n) \o <<c>>

\* The chunks dl handed over so far, then chunk c and the run behind it.
HandedOver(dl, c, r, next, n) == dl \o <<c>> \o RunChunks(r, next, n)

\* Mutant: delivered entries are not deleted from the map.
BugDrained(r, next, n) == r.outOfOrder

\* The buffer without the n numbers from "next" on.
Drained(r, next, n) == {o \in r.outOfOrder : Offset(o.seq, next) >= n}

-----------------------------------------------------------------------------
(***************************************************************************)
(* processAck on the sender half.  "due" says whether the SACK rate limit  *)
(* (half an RTO since lastSackTime) has expired, "cut" whether the window  *)
(* was last reduced more than an RTT ago.                                  *)
(***************************************************************************)
Bumped(us) ==
    {[u EXCEPT !.retries = IF @ < MaxRetries THEN @ + 1 ELSE @] : u \in us}

\* The defensive bound on both scan loops.
ScanSpan(n, least) == IF n < least \/ n > 2 * MaxCwnd THEN 2 * MaxCwnd ELSE n

Scanned(us, from, span) == {u \in us : Offset(u.pkt.seq, from) < span}

MaxRight(sack) == CHOOSE m \in sack : \A q \in sack : ~seqGreater(q, m)

\* markSackedAndCollectGaps: the entries it looks at, the ones it marks and
\* the ones it reports lost (older than the highest SACKed number).
Candidates(us, ack, sack) ==
    {u \in Scanned(us, ack, ScanSpan(Diff(Plus(MaxRight(sack), 1), ack), 1)) :
        ~u.sacked}

\* Mutant: a SACK counts as cumulative, the gaps below it included.
BugMarked(us, ack, sack) ==
    IF sack = {} THEN {}
    ELSE {u \in Candidates(us, ack, sack) : ~seqGreater(u.pkt.seq, MaxRight(sack))}

Marked(us, ack, sack) ==
    IF sack = {} THEN {}
    ELSE {u \in Candidates(us, ack, sack) : u.pkt.seq \in sack}

Lost(us, ack, sack) ==
    IF sack = {} THEN {}
    ELSE {u \in Candidates(us, ack, sack) :
             u.pkt.seq \notin sack /\ seqLess(u.pkt.seq, MaxRight(sack))}

\* The unacked map once "mark" is SACKed and "resend" is retransmitted.
Remarked(us, mark, resend) ==
    (us \ (mark \cup resend))
        \cup {[u EXCEPT !.sacked = TRUE] : u \in mark} \cup Bumped(resend)

\* Duplicate ACK: what it retransmits ...
DupCount(s) == IF s.dupAckCount < FastRetransmitCount
               THEN s.dupAckCount + 1 ELSE s.dupAckCount
FastDue(s, sack) == sack = {} /\ DupCount(s) >= FastRetransmitCount
DupResend(s, sack, due) ==
    IF sack # {}
    THEN IF due THEN Lost(s.unacked, s.sendBase, sack) ELSE {}
    ELSE IF FastDue(s, sack)
    THEN {u \in s.unacked : u.pkt.seq = s.sendBase /\ ~u.sacked}
    ELSE {}

\* ... and what it does to the sender.  A SACK that is due reduces the
\* window even when no packet is lost.
DupAck(s, sack, due, cut) ==
    LET resend == DupResend(s, sack, due)
        loss   == (sack # {} /\ due) \/ resend # {}
    IN  [s EXCEPT
            !.dupAckCount = IF FastDue(s, sack) THEN 0 ELSE DupCount(s),
            !.unacked = Remarked(@, Marked(@, s.sendBase, sack), resend),
            !.cc = onLoss(@, loss /\ cut)]

\* Mutant: removes the packet that the ACK asks for, too.
BugCovered(s, ack) ==
    Scanned(s.unacked, s.sendBase, ScanSpan(Diff(ack, s.sendBase), 0) + 1)

\* New cumulative ACK: the entries it removes (any ack other than sendBase
\* comes here, an old one included), and what it retransmits.
Covered(s, ack) ==
    Scanned(s.unacked, s.sendBase, ScanSpan(Diff(ack, s.sendBase), 0))
NewResend(s, ack, sack, due) ==
    IF due THEN Lost(s.unacked \ Covered(s, ack), ack, sack) ELSE {}

\* Mutant: sendBase follows any ACK, old ones included.
BugNewAck(s, ack, sack, due, cut) ==
    [s EXCEPT !.dupAckCount = 0,
              !.unacked = @ \ Covered(s, ack),
              !.sendBase = ack]

NewAck(s, ack, sack, due, cut) ==
    LET rest   == s.unacked \ Covered(s, ack)
        resend == NewResend(s, ack, sack, due)
    IN  [s EXCEPT
            !.dupAckCount = 0,
            !.unacked = Remarked(rest, Marked(rest, ack, sack), resend),
            !.sendBase = IF seqGreater(ack, @) THEN ack ELSE @,
            !.cc = onAckAdvance(onLoss(@, resend # {} /\ cut),
                                Cardinality(Covered(s, ack)))]

ProcessAck(s, p, due, cut) ==
    IF "ack" \notin p.flags THEN s
    ELSE IF p.ack = s.sendBase THEN DupAck(s, p.sack, due, cut)
    ELSE NewAck(s, p.ack, p.sack, due, cut)

AckResends(s, p, due) ==
    IF "ack" \notin p.flags THEN {}
    ELSE {u.pkt : u \in IF p.ack = s.sendBase
                        THEN DupResend(s, p.sack, due)
                        ELSE NewResend(s, p.ack, p.sack, due)}

-----------------------------------------------------------------------------
(***************************************************************************)
(* The writer.                                                             *)
(***************************************************************************)
Stored(s) == {u.pkt : u \in s.unacked}

\* What e may still receive: packets in flight or that the peer may repeat.
Towards(e) == net[e] \cup Stored(snd[Peer(e)])

(***************************************************************************)
(* Environment assumption, needed by any protocol with wrapping sequence   *)
(* numbers: no packet is still around (in flight, or waiting to be sent    *)
(* again) when its sequence or acknowledgement number has become half the  *)
(* space old.  It holds by itself while a stream uses fewer than HalfSpace *)
(* numbers (2^31 packets).                                                 *)
(***************************************************************************)
Lifetime(e) ==
    /\ \A p \in Towards(Peer(e)) :
          "data" \in p.flags => sent[e] - p.chunk < HalfSpace
    /\ \A p \in Towards(e) :
          "ack" \in p.flags => sent[e] - p.acked < HalfSpace

\* Send, up to waitForWindow: take the next sequence number.
Send(e) ==
    /\ writer[e] = "idle" /\ ~closed[e]
    /\ sent[e] < MaxSend[e] /\ Lifetime(e)
    /\ sent' = [sent EXCEPT ![e] = @ + 1]
    /\ snd' = [snd EXCEPT ![e].sendSeq = Plus(@, 1)]
    /\ writer' = [writer EXCEPT ![e] = "waiting"]
    /\ UNCHANGED <<rcv, closed, net, delivered, eof, gaveUp, faults>>

\* The number the waiting writer holds, and waitForWindow's test for it.
HeldSeq(e) == Plus(snd[e].sendSeq, Space - 1)

\* Mutant: one packet more than the window.
BugWindowOpen(e) == Diff(HeldSeq(e), snd[e].sendBase) <= snd[e].cc.cwnd

WindowOpen(e) == Diff(HeldSeq(e), snd[e].sendBase) < snd[e].cc.cwnd

\* A pending ACK travels on the data packet, with SACK blocks if there are.
DataPacket(e) ==
    LET piggyback == rcv[e].pendingAck
    IN  [flags |-> IF piggyback THEN {"data", "ack"} ELSE {"data"},
         seq   |-> HeldSeq(e), chunk |-> sent[e] - 1,
         ack   |-> IF piggyback THEN rcv[e].recvNext ELSE 0,
         acked |-> IF piggyback THEN Len(delivered[e]) ELSE 0,
         sack  |-> IF piggyback THEN SackedSeqs(rcv[e]) ELSE {}]

\* Store a packet for retransmission in the sender half s and send it.
Storing(s, p) ==
    [s EXCEPT !.unacked =
        @ \cup {[pkt |-> p, retries |-> 0, sacked |-> FALSE]}]
Emit(e, s, p) ==
    /\ snd' = [snd EXCEPT ![e] = Storing(s, p)]
    /\ net' = [net EXCEPT ![Peer(e)] = @ \cup {p}]

\* Send, from waitForWindow on.
Transmit(e) ==
    /\ writer[e] = "waiting" /\ ~closed[e] /\ WindowOpen(e)
    /\ Emit(e, snd[e], DataPacket(e))
    /\ rcv' = [rcv EXCEPT ![e].pendingAck = FALSE]
    /\ writer' = [writer EXCEPT ![e] = "idle"]
    /\ UNCHANGED <<closed, sent, delivered, eof, gaveUp, faults>>

\* waitForWindow sees the stream closed: Send returns ErrStreamClosed.
SendAborted(e) ==
    /\ writer[e] = "waiting" /\ closed[e]
    /\ writer' = [writer EXCEPT ![e] = "aborted"]
    /\ UNCHANGED <<snd, rcv, closed, net, sent, delivered, eof, gaveUp, faults>>

\* SendClose: numbered and stored like data, but not subject to the window.
ClosePacket(e) ==
    [flags |-> {"close", "ack"}, seq |-> snd[e].sendSeq, chunk |-> sent[e],
     ack |-> rcv[e].recvNext, acked |-> Len(delivered[e]), sack |-> {}]

SendClose(e) ==
    /\ e \in Closers /\ writer[e] = "idle" /\ ~closed[e] /\ Lifetime(e)
    /\ Emit(e, [snd[e] EXCEPT !.sendSeq = Plus(@, 1)], ClosePacket(e))
    /\ sent' = [sent EXCEPT ![e] = @ + 1]
    /\ writer' = [writer EXCEPT ![e] = "closed"]
    /\ UNCHANGED <<rcv, closed, delivered, eof, gaveUp, faults>>

-----------------------------------------------------------------------------
(***************************************************************************)
(* Receive, called by the transport's receive loop.                        *)
(***************************************************************************)
\* The network hands p to e and may keep a duplicate.
Take(e, p, keep) ==
    /\ ~closed[e] /\ p \in net[e]
    /\ keep => faults < MaxFaults
    /\ ~AckReorder /\ "ack" \in p.flags =>
          /\ ~keep
          /\ \A q \in net[e] : "ack" \in q.flags => p.acked <= q.acked
    /\ faults' = IF keep THEN faults + 1 ELSE faults

\* p has left the network unless kept; e has sent "out".
Exchange(e, p, keep, out) ==
    net' = [net EXCEPT ![e] = IF keep THEN @ ELSE @ \ {p},
                       ![Peer(e)] = @ \cup out]

\* A pure ACK.
ReceiveAck(e, p, keep, due, cut) ==
    /\ Take(e, p, keep) /\ p.flags = {"ack"}
    /\ snd' = [snd EXCEPT ![e] = ProcessAck(@, p, due, cut)]
    /\ Exchange(e, p, keep, AckResends(snd[e], p, due))
    /\ UNCHANGED <<rcv, writer, closed, sent, delivered, eof, gaveUp>>

\* Data with the expected number: delivered with the run buffered behind it.
ReceiveInOrder(e, p, keep, due, cut) ==
    /\ Take(e, p, keep) /\ "data" \in p.flags /\ p.seq = rcv[e].recvNext
    /\ snd' = [snd EXCEPT ![e] = ProcessAck(@, p, due, cut)]
    /\ \E n \in 0 .. MaxOutOfOrderBuffer :
         LET next == Plus(p.seq, 1)
             r    == [rcv[e] EXCEPT !.recvNext = Plus(next, n),
                                    !.outOfOrder = Drained(rcv[e], next, n)]
         IN  /\ IsRun(rcv[e], next, n)
             /\ delivered' = [delivered EXCEPT ![e] =
                                 HandedOver(@, p.chunk, rcv[e], next, n)]
             /\ rcv' = [rcv EXCEPT ![e] = ScheduleAck(r)]
             /\ Exchange(e, p, keep,
                    AckResends(snd[e], p, due) \cup
                    (IF AcksAtOnce(r)
                     THEN {AckNow(r, Len(delivered[e]) + 1 + n)} ELSE {}))
    /\ UNCHANGED <<writer, closed, sent, eof, gaveUp>>

\* Data from the future: buffered while there is room, answered with a SACK.
Buffered(r, p) ==
    IF /\ Cardinality(r.outOfOrder) < MaxOutOfOrderBuffer
       /\ p.seq \notin BufferedSeqs(r)
    THEN r.outOfOrder \cup {[seq |-> p.seq, chunk |-> p.chunk]}
    ELSE r.outOfOrder

ReceiveOutOfOrder(e, p, keep, due, cut) ==
    /\ Take(e, p, keep) /\ "data" \in p.flags
    /\ p.seq # rcv[e].recvNext /\ seqGreater(p.seq, rcv[e].recvNext)
    /\ snd' = [snd EXCEPT ![e] = ProcessAck(@, p, due, cut)]
    /\ LET r == [rcv[e] EXCEPT !.outOfOrder = Buffered(rcv[e], p),
                               !.pendingAck = FALSE]
       IN  /\ rcv' = [rcv EXCEPT ![e] = r]
           /\ Exchange(e, p, keep, AckResends(snd[e], p, due) \cup
                                     {AckWithSack(r, Len(delivered[e]))})
    /\ UNCHANGED <<writer, closed, sent, delivered, eof, gaveUp>>

\* Data already delivered: acknowledged again, in case the ACK was lost.
ReceiveDuplicate(e, p, keep, due, cut) ==
    /\ Take(e, p, keep) /\ "data" \in p.flags
    /\ p.seq # rcv[e].recvNext /\ ~seqGreater(p.seq, rcv[e].recvNext)
    /\ snd' = [snd EXCEPT ![e] = ProcessAck(@, p, due, cut)]
    /\ rcv' = [rcv EXCEPT ![e].pendingAck = FALSE]
    /\ Exchange(e, p, keep, AckResends(snd[e], p, due) \cup
                              {AckNow(rcv[e], Len(delivered[e]))})
    /\ UNCHANGED <<writer, closed, sent, delivered, eof, gaveUp>>

\* Mutant: onClose without RemoveStream, the object keeps receiving.
BugReceiveClose(e, p, keep, due, cut) ==
    /\ Take(e, p, keep) /\ "close" \in p.flags
    /\ snd' = [snd EXCEPT ![e] = ProcessAck(@, p, due, cut)]
    /\ Exchange(e, p, keep, AckResends(snd[e], p, due))
    /\ eof' = [eof EXCEPT ![e] = TRUE]
    /\ UNCHANGED <<rcv, writer, closed, sent, delivered, gaveUp>>

\* CLOSE, whatever its number: the run buffered behind recvNext is delivered,
\* then ReliableManager.Receive calls onClose and RemoveStream, which closes
\* this object.  Its other buffered data and its unacked packets go with it.
ReceiveClose(e, p, keep, due, cut) ==
    /\ Take(e, p, keep) /\ "close" \in p.flags
    /\ snd' = [snd EXCEPT ![e] = ProcessAck(@, p, due, cut)]
    /\ \E n \in 0 .. MaxOutOfOrderBuffer :
         LET next == rcv[e].recvNext
         IN  /\ IsRun(rcv[e], next, n)
             /\ delivered' = [delivered EXCEPT ![e] =
                                 @ \o RunChunks(rcv[e], next, n)]
             /\ rcv' = [rcv EXCEPT ![e].recvNext = Plus(@, n),
                                   ![e].outOfOrder = Drained(rcv[e], next, n)]
    /\ Exchange(e, p, keep, AckResends(snd[e], p, due))
    /\ closed' = [closed EXCEPT ![e] = TRUE]
    /\ eof' = [eof EXCEPT ![e] = TRUE]
    /\ UNCHANGED <<writer, sent, gaveUp>>

-----------------------------------------------------------------------------
(***************************************************************************)
(* Timers, RemoveStream and the network.                                   *)
(***************************************************************************)
\* The delayed-ACK timer fires.
AckTimeout(e) ==
    /\ ~closed[e] /\ rcv[e].pendingAck
    /\ rcv' = [rcv EXCEPT ![e].pendingAck = FALSE]
    /\ net' = [net EXCEPT ![Peer(e)] =
                  @ \cup {AckNow(rcv[e], Len(delivered[e]))}]
    /\ UNCHANGED <<snd, writer, closed, sent, delivered, eof, gaveUp, faults>>

\* The sender half once "expired" left the map and "live" was sent again.
Expired(s, expired, live, cut) ==
    [s EXCEPT !.unacked = (@ \ expired) \cup Bumped(live),
              !.cc = onLoss(@, live # {} /\ cut)]

\* checkRetransmit finds the entries "expired" older than the RTO: it gives
\* up the ones that used all their retries and sends the others again.
CheckRetransmit(e, expired, cut) ==
    /\ ~closed[e] /\ expired # {}
    /\ \A u \in expired : ~u.sacked
    /\ LET dead == {u \in expired : u.retries >= MaxRetries}
           live == expired \ dead
       IN  /\ snd' = [snd EXCEPT ![e] = Expired(@, expired, live, cut)]
           /\ net' = [net EXCEPT ![Peer(e)] = @ \cup {u.pkt : u \in live}]
           /\ gaveUp' = [gaveUp EXCEPT ![e] = @ \/ dead # {}]
    /\ UNCHANGED <<rcv, writer, closed, sent, delivered, eof, faults>>

\* RemoveStream, called by the endpoint's connection handler at its end, or
\* ReliableManager.Close: the object is closed, whatever is still unacked.
\* Packets that arrive for its number later meet another object.
RemoveStream(e) ==
    /\ e \in Closers /\ ~closed[e]
    /\ closed' = [closed EXCEPT ![e] = TRUE]
    /\ UNCHANGED <<snd, rcv, writer, net, sent, delivered, eof, gaveUp, faults>>

Lose(e, p) ==
    /\ faults < MaxFaults
    /\ faults' = faults + 1
    /\ net' = [net EXCEPT ![e] = @ \ {p}]
    /\ UNCHANGED <<snd, rcv, writer, closed, sent, delivered, eof, gaveUp>>

Receive(e, p, keep, due, cut) ==
    \/ ReceiveAck(e, p, keep, due, cut)
    \/ ReceiveInOrder(e, p, keep, due, cut)
    \/ ReceiveOutOfOrder(e, p, keep, due, cut)
    \/ ReceiveDuplicate(e, p, keep, due, cut)
    \/ ReceiveClose(e, p, keep, due, cut)

ReceiveAny(e) ==
    \E p \in net[e], keep, due, cut \in BOOLEAN : Receive(e, p, keep, due, cut)

RetransmitAny(e) ==
    \E expired \in SUBSET snd[e].unacked, cut \in BOOLEAN :
        CheckRetransmit(e, expired, cut)

Next ==
    \E e \in End :
        \/ Send(e) \/ Transmit(e) \/ SendAborted(e) \/ SendClose(e)
        \/ ReceiveAny(e) \/ RetransmitAny(e) \/ AckTimeout(e)
        \/ RemoveStream(e)
        \/ \E p \in net[e] : Lose(e, p)

Spec == Init /\ [][Next]_vars

(***************************************************************************)
(* Fairness.  The retransmission ticker, the ACK timer and the receive     *)
(* loop keep running, and a goroutine that can take its next step does.    *)
(* Nothing obliges the network to lose or duplicate, an application to     *)
(* close, or a stream to be removed.                                       *)
(***************************************************************************)
Fairness ==
    \A e \in End :
        /\ WF_vars(Send(e)) /\ WF_vars(Transmit(e))
        /\ WF_vars(AckTimeout(e))
        /\ WF_vars(ReceiveAny(e)) /\ WF_vars(RetransmitAny(e))

FairSpec == Spec /\ Fairness

-----------------------------------------------------------------------------
\* Every variable has its type: the wrapping counters stay uint32, the
\* congestion window stays between MinCwnd and MaxCwnd, a packet leaves the
\* unacked map before its retry count passes MaxRetries.
TypeOK ==
    /\ snd \in [End -> Sender] /\ rcv \in [End -> Receiver]
    /\ writer \in [End -> {"idle", "waiting", "closed", "aborted"}]
    /\ closed \in [End -> BOOLEAN]
    /\ net \in [End -> SUBSET Packet]
    /\ sent \in [End -> Nat] /\ delivered \in [End -> Seq(Nat)]
    /\ eof \in [End -> BOOLEAN] /\ gaveUp \in [End -> BOOLEAN]
    /\ faults \in 0 .. MaxFaults

\* Chunks the application of e has passed to Send: its sequence numbers but
\* the one its CLOSE used.
WrittenBy(w, n) == IF w = "closed" THEN n - 1 ELSE n
Written(e) == WrittenBy(writer[e], sent[e])

\* processData and deliverOutOfOrder hand the peer's data to the application
\* in order, without gap or duplicate, across losses, reordering, duplicates,
\* retransmissions and the wraparound of the 32-bit numbers.
InOrderDelivery ==
    \A e \in End :
        /\ Len(delivered[e]) <= Written(Peer(e))
        /\ \A i \in 1 .. Len(delivered[e]) : delivered[e][i] = i - 1

Channel == INSTANCE ReliableChannel WITH
    written  <- [e \in End |-> Written(e)],
    finished <- [e \in End |-> writer[e] = "closed"]

\* Two ReliableStreams implement the channel: every step of the packets,
\* timers and buffers is a Write, Finish, Deliver or ReportEnd, or invisible.
ImplementsChannel == Channel!Spec

\* The receiver e holds chunk c: it delivered or buffers it.
Holds(e, c) ==
    c < Len(delivered[e]) \/ \E o \in rcv[e].outOfOrder : o.chunk = c

\* processAck never moves sendBase past what the peer has received, whatever
\* old or repeated ACKs arrive.
BaseNotAhead ==
    \A e \in End : ~seqGreater(snd[e].sendBase, rcv[Peer(e)].recvNext)

\* An entry marked sacked, which checkRetransmit skips for good, is held by
\* the peer, however old the SACK blocks that marked it.
SackedIsHeld ==
    \A e \in End : \A u \in snd[e].unacked :
        u.sacked => Holds(Peer(e), u.pkt.chunk)

\* No packet of the window is refused for want of buffer space: as long as
\* MaxOutOfOrderBuffer >= MaxCwnd (both are 16384) there is always room.
ReorderBufferHasRoom ==
    MaxOutOfOrderBuffer >= MaxCwnd =>
        \A e \in End : Cardinality(rcv[e].outOfOrder) < MaxOutOfOrderBuffer

\* A sent chunk the peer does not hold is still in the unacked map, unless
\* checkRetransmit gave up or one of the two objects was closed.
NothingForgotten ==
    \A e \in End :
        gaveUp[e] \/ closed[e] \/ closed[Peer(e)] \/
        \A c \in 0 .. (Written(e) - 1) :
            \/ Holds(Peer(e), c)
            \/ \E u \in snd[e].unacked : u.pkt.chunk = c
            \/ writer[e] = "waiting" /\ c = sent[e] - 1

\* No step moves sendBase or recvNext backwards in sequence space.
NeverBackwards ==
    [][\A e \in End :
          /\ ~seqLess(snd'[e].sendBase, snd[e].sendBase)
          /\ ~seqLess(rcv'[e].recvNext, rcv[e].recvNext)]_vars

\* The receive loop of e handles an ACK behind sendBase.
StaleAck(e) ==
    \E p \in net[e], keep, due, cut \in BOOLEAN :
        /\ "ack" \in p.flags /\ seqLess(p.ack, snd[e].sendBase)
        /\ Receive(e, p, keep, due, cut)

\* A packet leaves the unacked map only when the peer holds its chunk, when
\* its retries are used up, or because of an ACK behind sendBase (the defect
\* of run StreamStaleAck): no other ACK or SACK, however late or repeated, no
\* retransmission and no data packet makes the sender forget it.
OnlyStaleAcksForget ==
    [][\A e \in End : \A u \in snd[e].unacked :
          \/ \E v \in snd'[e].unacked : v.pkt = u.pkt
          \/ Holds(Peer(e), u.pkt.chunk)
          \/ u.retries = MaxRetries /\ RetransmitAny(e)
          \/ StaleAck(e)]_vars

\* Everything the application may write is eventually delivered: neither the
\* window, the ACK coalescing nor the SACK bookkeeping lets the stream stall
\* short of giving a packet up after MaxRetries.
EventualDelivery ==
    \A e \in End :
        <>(Len(delivered[Peer(e)]) = MaxSend[e] \/ gaveUp[e])

-----------------------------------------------------------------------------
(***************************************************************************)
(* The inductive invariant behind the safety properties.  One direction is *)
(* a sender half s with its writer w and the n numbers it has used, the    *)
(* receiver half r with the chunks dl it delivered, the packets "fwd" that *)
(* travel with the data and the packets "back" that carry the ACKs.  Every *)
(* number in it is the wire form of a counter, and the counters lie within *)
(* half a space of each other.                                             *)
(***************************************************************************)
\* Chunks that went out: not the number a writer holds or never got to send,
\* nor the one its CLOSE used.
SentBy(w, n) == IF w = "idle" THEN n ELSE n - 1

CarriesData(p, w, n) ==
    "data" \in p.flags =>
        p.seq = Wire(p.chunk) /\ p.chunk < SentBy(w, n)
                              /\ n - p.chunk <= HalfSpace

CarriesAck(p, n, d) ==
    "ack" \in p.flags =>
        p.ack = Wire(p.acked) /\ p.acked <= d /\ n - p.acked <= HalfSpace

\* sendBase is the number of a chunk b that the receiver has reached, and
\* the writer is at most a window (and the number it holds) ahead of it.
Window(s, w, n, d) ==
    \E b \in 0 .. d :
        s.sendBase = Wire(b) /\ n <= b + MaxCwnd + (IF w = "idle" THEN 0 ELSE 1)

Buffer(r, w, n, d) ==
    \A o \in r.outOfOrder :
        o.seq = Wire(o.chunk) /\ d < o.chunk /\ o.chunk < SentBy(w, n)

Direction(s, w, n, r, dl, fwd, back) ==
    /\ s.sendSeq = Wire(n) /\ r.recvNext = Wire(Len(dl))
    /\ w # "idle" => n >= 1
    /\ Len(dl) <= SentBy(w, n)
    /\ \A i \in 1 .. Len(dl) : dl[i] = i - 1
    /\ Window(s, w, n, Len(dl))
    /\ Buffer(r, w, n, Len(dl))
    /\ \A p \in fwd : CarriesData(p, w, n)
    /\ \A p \in back : CarriesAck(p, n, Len(dl))

DirectionInv(e) ==
    Direction(snd[e], writer[e], sent[e], rcv[Peer(e)], delivered[Peer(e)],
              Towards(Peer(e)), Towards(e))

\* A CLOSE packet, and the report of one, mean that the peer's writer closed.
EndInv(e) ==
    /\ eof[Peer(e)] => closed[Peer(e)] /\ writer[e] = "closed"
    /\ \A p \in Towards(Peer(e)) : "close" \in p.flags => writer[e] = "closed"

\* All counters of both directions agree up to packets in flight: the numbers
\* in packets, buffers and headers are those of the chunks they stand for.
StreamInv ==
    /\ TypeOK
    /\ \A e \in End : /\ IsFiniteSet(snd[e].unacked)
                       /\ DirectionInv(e) /\ EndInv(e)

(***************************************************************************)
(* On top of it, what the SACK bookkeeping relies on.                      *)
(***************************************************************************)
\* An unacked packet is data or a CLOSE, less than half a space old.
Entry(p, w, n) ==
    /\ p.seq = Wire(p.chunk) /\ p.chunk < n /\ n - p.chunk <= HalfSpace
    /\ p.flags # {"ack"} /\ (w # "closed" => "data" \in p.flags)

\* Every number that SACK blocks under way to e report, and every chunk that
\* they made e mark, is that of a chunk the peer holds.
SackInv(e) ==
    /\ \A u \in snd[e].unacked :
          /\ Entry(u.pkt, writer[e], sent[e])
          /\ u.sacked => Holds(Peer(e), u.pkt.chunk)
    /\ \A p \in Towards(e) : \A q \in p.sack :
          \E c \in (p.acked + 1) .. (p.acked + MaxCwnd) :
              q = Wire(c) /\ Holds(Peer(e), c)
=============================================================================
