-------------------------- MODULE StreamGoroutines --------------------------
(***************************************************************************)
(* One ReliableStream object (pkg/tunnel/reliable.go) at the granularity   *)
(* of its atomic variables: what the goroutines that share it can do to    *)
(* each other between two accesses.                                        *)
(*                                                                         *)
(*   Writer      Send, with waitForWindow and the piggybacked ACK          *)
(*   Receiver    the transport's receive loop, in Receive                  *)
(*   a callback  the function of an AfterFunc timer that has fired         *)
(*   Closer      whoever calls Close                                       *)
(*                                                                         *)
(* ReliableStream models the protocol between two such objects with these  *)
(* operations in one step each.  Here the peer is the environment: it      *)
(* sends its data in any order, again and again until it is acknowledged,  *)
(* and acknowledges whatever it likes of what it was sent.  Numbers do not *)
(* wrap, and SACK blocks are left out.                                     *)
(***************************************************************************)
EXTENDS Integers, FiniteSets

CONSTANTS
    Data,       \* bound: packets the peer has for this object
    Sends,      \* bound: calls of Send
    MaxCwnd,    \* largest congestion window (16384)
    AckEveryN,  \* in-order packets per immediate ACK (4)
    Callbacks,  \* bound: timer callbacks running at the same time
    MaxLosses   \* bound: ACKs the network loses

ASSUME GoroutinesAssumption ==
    /\ Data \in Nat /\ Sends \in Nat /\ MaxCwnd \in Nat \ {0}
    /\ AckEveryN \in Nat \ {0} /\ MaxLosses \in Nat
    /\ {"writer", "receiver", "closer"} \cap Callbacks = {}

Writer == "writer"
Receiver == "receiver"
Closer == "closer"
Proc == {Writer, Receiver, Closer} \cup Callbacks

VARIABLES
    recvNext,     \* rs.recvNext
    outOfOrder,   \* numbers in the reorder buffer
    recvCounter,  \* rs.recvCounter, modulo AckEveryN
    pendingAck,   \* rs.pendingAck
    ackTimer,     \* rs.ackTimer is set and has not fired
    sendSeq,      \* rs.sendSeq
    sendBase,     \* rs.sendBase
    cwnd,         \* rs.cwnd
    unacked,      \* numbers in rs.unacked
    windowAvail,  \* the channel of capacity one holds a signal
    closed,       \* rs.closed is set and rs.closeCh closed
    pc,           \* where each goroutine is
    ack,          \* the recvNext that Send has loaded into its packet
    emitted,      \* numbers the writer has sent so far
    peerBase,     \* the highest ACK that reached the peer
    losses,       \* ACKs lost so far
    silent        \* history: an ACK moved sendBase and found nothing to
                  \* remove, so processAck gave no signal

recvVars == <<recvNext, outOfOrder, recvCounter>>
ackVars == <<pendingAck, ackTimer>>
sendVars == <<sendSeq, sendBase, cwnd, unacked, emitted, silent>>
peerVars == <<peerBase, losses>>
vars == <<recvVars, ackVars, sendVars, windowAvail, closed, pc, ack, peerVars>>

Init ==
    /\ recvNext = 0 /\ outOfOrder = {} /\ recvCounter = 0
    /\ pendingAck = FALSE /\ ackTimer = FALSE
    /\ sendSeq = 0 /\ sendBase = 0 /\ cwnd = 1 /\ unacked = {}
    /\ windowAvail = FALSE /\ closed = FALSE
    /\ pc = [p \in Proc |-> "idle"] /\ ack = 0
    /\ emitted = 0 /\ peerBase = 0 /\ losses = 0 /\ silent = FALSE

At(p, l) == pc[p] = l
Goto(p, l) == pc' = [pc EXCEPT ![p] = l]

\* The network takes a packet with ACK number a to the peer, or loses it.
Deliver(a) ==
    \/ peerBase' = (IF a > peerBase THEN a ELSE peerBase) /\ UNCHANGED losses
    \/ losses < MaxLosses /\ losses' = losses + 1 /\ UNCHANGED peerBase

-----------------------------------------------------------------------------
(***************************************************************************)
(* Send.  The number taken is sendSeq - 1; there is one writer.            *)
(***************************************************************************)
Send ==
    /\ At(Writer, "idle")
    /\ \/ /\ closed /\ Goto(Writer, "aborted") /\ UNCHANGED sendSeq
       \/ /\ ~closed /\ sendSeq < Sends
          /\ sendSeq' = sendSeq + 1 /\ Goto(Writer, "test")
    /\ UNCHANGED <<recvVars, ackVars, sendBase, cwnd, unacked, emitted, silent,
                   windowAvail, closed, ack, peerVars>>

WindowOpen == (sendSeq - 1) - sendBase < cwnd

\* waitForWindow: the top of its loop, its three loads (393-399) in one step ...
TestWindow ==
    /\ At(Writer, "test")
    /\ Goto(Writer, IF closed THEN "aborted"
                    ELSE IF WindowOpen THEN "piggyback" ELSE "drain")
    /\ UNCHANGED <<recvVars, ackVars, sendVars, windowAvail, closed, ack,
                   peerVars>>

\* Mutant: a stale signal is drained and the window not tested again.
BugDrainSignal ==
    /\ At(Writer, "drain")
    /\ windowAvail' = FALSE /\ Goto(Writer, "wait")
    /\ UNCHANGED <<recvVars, ackVars, sendVars, closed, ack, peerVars>>

\* ... the first select: a signal that is there makes it test again ...
DrainSignal ==
    /\ At(Writer, "drain")
    /\ windowAvail' = FALSE
    /\ Goto(Writer, IF windowAvail THEN "test" ELSE "wait")
    /\ UNCHANGED <<recvVars, ackVars, sendVars, closed, ack, peerVars>>

\* Mutant: the second select has no timeout.
BugWait ==
    /\ At(Writer, "wait")
    /\ \/ windowAvail /\ windowAvail' = FALSE /\ Goto(Writer, "test")
       \/ closed /\ Goto(Writer, "aborted") /\ UNCHANGED windowAvail
    /\ UNCHANGED <<recvVars, ackVars, sendVars, closed, ack, peerVars>>

\* ... and the second: a signal, the close, or 100 ms.
Wait ==
    /\ At(Writer, "wait")
    /\ \/ windowAvail /\ windowAvail' = FALSE /\ Goto(Writer, "test")
       \/ closed /\ Goto(Writer, "aborted") /\ UNCHANGED windowAvail
       \/ Goto(Writer, "test") /\ UNCHANGED windowAvail
    /\ UNCHANGED <<recvVars, ackVars, sendVars, closed, ack, peerVars>>

\* The piggyback: pendingAck is loaded, ...
LoadPending ==
    /\ At(Writer, "piggyback")
    /\ Goto(Writer, IF pendingAck THEN "load" ELSE "emit")
    /\ UNCHANGED <<recvVars, ackVars, sendVars, windowAvail, closed, ack,
                   peerVars>>

\* ... then recvNext; pendingAck is cleared and the timer stopped only after
\* that, whatever the receive loop has done meanwhile.
PiggybackAck ==
    /\ \/ /\ At(Writer, "load") /\ ack' = recvNext
          /\ Goto(Writer, "clear") /\ UNCHANGED ackVars
       \/ /\ At(Writer, "clear") /\ pendingAck' = FALSE
          /\ Goto(Writer, "cancel") /\ UNCHANGED <<ackTimer, ack>>
       \/ /\ At(Writer, "cancel") /\ ackTimer' = FALSE
          /\ Goto(Writer, "emit") /\ UNCHANGED <<pendingAck, ack>>
    /\ UNCHANGED <<recvVars, sendVars, windowAvail, closed, peerVars>>

\* Store for retransmission and send.  A packet without the ACK flag is the
\* same to the peer as one that repeats ACK number 0.
Emit ==
    /\ At(Writer, "emit")
    /\ unacked' = unacked \cup {emitted} /\ emitted' = emitted + 1
    /\ Deliver(ack) /\ ack' = 0
    /\ Goto(Writer, "idle")
    /\ UNCHANGED <<recvVars, ackVars, sendSeq, sendBase, cwnd, silent,
                   windowAvail, closed>>

WaitForWindow == TestWindow \/ DrainSignal \/ Wait
Sending == WaitForWindow \/ LoadPending \/ PiggybackAck \/ Emit

-----------------------------------------------------------------------------
(***************************************************************************)
(* sendAckNow and sendAckWithSack, in the receive loop or in a callback:   *)
(* clear pendingAck, stop the timer, send recvNext.                        *)
(***************************************************************************)
SendAckNow(p) ==
    /\ \/ /\ At(p, "clear") /\ pendingAck' = FALSE /\ Goto(p, "cancel")
          /\ UNCHANGED <<ackTimer, peerVars>>
       \/ /\ At(p, "cancel") /\ ackTimer' = FALSE /\ Goto(p, "send")
          /\ UNCHANGED <<pendingAck, peerVars>>
       \/ /\ At(p, "send") /\ Deliver(recvNext)
          /\ Goto(p, "idle") /\ UNCHANGED ackVars
    /\ UNCHANGED <<recvVars, sendVars, windowAvail, closed, ack>>

\* Mutant: a duplicate is not acknowledged.
BugProcessData(s) ==
    /\ At(Receiver, "idle")
    /\ \/ /\ s = recvNext /\ recvNext' = recvNext + 1
          /\ Goto(Receiver, "run") /\ UNCHANGED outOfOrder
       \/ /\ s > recvNext /\ outOfOrder' = outOfOrder \cup {s}
          /\ Goto(Receiver, "clear") /\ UNCHANGED recvNext
    /\ UNCHANGED <<recvCounter, ackVars, sendVars, windowAvail, closed, ack,
                   peerVars>>

\* processData for packet s: the expected one is delivered, a later one is
\* buffered and an earlier one ignored; the last two are acknowledged at once.
ProcessData(s) ==
    /\ At(Receiver, "idle")
    /\ \/ /\ s = recvNext /\ recvNext' = recvNext + 1
          /\ Goto(Receiver, "run") /\ UNCHANGED outOfOrder
       \/ /\ s > recvNext /\ outOfOrder' = outOfOrder \cup {s}
          /\ Goto(Receiver, "clear") /\ UNCHANGED recvNext
       \/ /\ s < recvNext
          /\ Goto(Receiver, "clear") /\ UNCHANGED <<recvNext, outOfOrder>>
    /\ UNCHANGED <<recvCounter, ackVars, sendVars, windowAvail, closed, ack,
                   peerVars>>

\* deliverOutOfOrder, one packet of the run at a time.
DeliverRun ==
    /\ At(Receiver, "run")
    /\ \/ /\ recvNext \in outOfOrder
          /\ outOfOrder' = outOfOrder \ {recvNext} /\ recvNext' = recvNext + 1
          /\ UNCHANGED pc
       \/ /\ recvNext \notin outOfOrder
          /\ Goto(Receiver, "count") /\ UNCHANGED <<recvNext, outOfOrder>>
    /\ UNCHANGED <<recvCounter, ackVars, sendVars, windowAvail, closed, ack,
                   peerVars>>

\* scheduleAck: count, swap pendingAck, start the timer.
ScheduleAck ==
    /\ \/ /\ At(Receiver, "count")
          /\ recvCounter' = (recvCounter + 1) % AckEveryN
          /\ Goto(Receiver, IF recvCounter' = 0 THEN "clear" ELSE "swap")
          /\ UNCHANGED ackVars
       \/ /\ At(Receiver, "swap") /\ pendingAck' = TRUE
          /\ Goto(Receiver, IF pendingAck THEN "idle" ELSE "arm")
          /\ UNCHANGED <<recvCounter, ackTimer>>
       \/ /\ At(Receiver, "arm") /\ ackTimer' = TRUE
          /\ Goto(Receiver, "idle") /\ UNCHANGED <<recvCounter, pendingAck>>
    /\ UNCHANGED <<recvNext, outOfOrder, sendVars, windowAvail, closed, ack,
                   peerVars>>

\* The timer fires: its callback runs in a goroutine of its own, and stopping
\* the timer no longer has an effect on it.
AckTimerFires(c) ==
    /\ ackTimer /\ At(c, "idle")
    /\ ackTimer' = FALSE /\ Goto(c, "fired")
    /\ UNCHANGED <<recvVars, pendingAck, sendVars, windowAvail, closed, ack,
                   peerVars>>

AckCallback(c) ==
    /\ At(c, "fired")
    /\ pendingAck' = FALSE /\ Goto(c, IF pendingAck THEN "clear" ELSE "idle")
    /\ UNCHANGED <<recvVars, ackTimer, sendVars, windowAvail, closed, ack,
                   peerVars>>

-----------------------------------------------------------------------------
(***************************************************************************)
(* processAck for ACK number a: with unackedMu held it removes what a      *)
(* covers (everything, when a is older than sendBase), advances sendBase   *)
(* and grows the window; after the unlock it signals if it removed         *)
(* anything.                                                               *)
(***************************************************************************)
AckCovers(a) == IF a < sendBase THEN unacked ELSE {u \in unacked : u < a}

\* Mutant: the window grows past MaxCwnd.
BugProcessAck(a) ==
    /\ At(Receiver, "idle") /\ a > sendBase
    /\ unacked' = unacked \ AckCovers(a) /\ sendBase' = a
    /\ cwnd' = cwnd + Cardinality(AckCovers(a)) /\ Goto(Receiver, "signal")
    /\ UNCHANGED <<recvVars, ackVars, sendSeq, emitted, silent, windowAvail,
                   closed, ack, peerVars>>

ProcessAck(a) ==
    /\ At(Receiver, "idle") /\ a # sendBase
    /\ unacked' = unacked \ AckCovers(a)
    /\ sendBase' = IF a > sendBase THEN a ELSE sendBase
    /\ \/ /\ AckCovers(a) # {} /\ cwnd' \in cwnd .. MaxCwnd
          /\ Goto(Receiver, "signal") /\ UNCHANGED silent
       \/ /\ AckCovers(a) = {} /\ silent' = (silent \/ a > sendBase)
          /\ UNCHANGED <<cwnd, pc>>
    /\ UNCHANGED <<recvVars, ackVars, sendSeq, emitted, windowAvail, closed,
                   ack, peerVars>>

SignalWindow ==
    /\ At(Receiver, "signal")
    /\ windowAvail' = TRUE /\ Goto(Receiver, "idle")
    /\ UNCHANGED <<recvVars, ackVars, sendVars, closed, ack, peerVars>>

\* checkRetransmit, or a retransmission in processAck: the window shrinks, and
\* packets that used up their retries leave the map.
Retransmit(dead) ==
    /\ ~closed /\ unacked # {}
    /\ unacked' = unacked \ dead /\ cwnd' \in 1 .. cwnd
    /\ UNCHANGED <<recvVars, ackVars, sendSeq, sendBase, emitted, silent,
                   windowAvail, closed, pc, ack, peerVars>>

\* Close.  A Receive that is under way goes on.
Close ==
    /\ \/ /\ At(Closer, "idle") /\ closed' = TRUE /\ Goto(Closer, "cancel")
          /\ UNCHANGED <<ackTimer, windowAvail>>
       \/ /\ At(Closer, "cancel") /\ ackTimer' = FALSE /\ Goto(Closer, "signal")
          /\ UNCHANGED <<closed, windowAvail>>
       \/ /\ At(Closer, "signal") /\ windowAvail' = TRUE /\ Goto(Closer, "done")
          /\ UNCHANGED <<closed, ackTimer>>
    /\ UNCHANGED <<recvVars, pendingAck, sendVars, ack, peerVars>>

\* The peer sends, or the network repeats, packet s.  Once the object is closed
\* packets meet another one.
PeerSends(s) == ~closed /\ ProcessData(s)
PeerAcks(a) == ~closed /\ a <= emitted /\ ProcessAck(a)

Receiving == DeliverRun \/ ScheduleAck \/ SendAckNow(Receiver) \/ SignalWindow
Callback(c) == AckCallback(c) \/ SendAckNow(c)

Next ==
    \/ Send \/ Sending \/ Receiving \/ Close
    \/ \E s \in 0 .. (Data - 1) : PeerSends(s)
    \/ \E a \in 0 .. Sends : PeerAcks(a)
    \/ \E c \in Callbacks : AckTimerFires(c) \/ Callback(c)
    \/ \E dead \in SUBSET unacked : Retransmit(dead)

Spec == Init /\ [][Next]_vars

(***************************************************************************)
(* Fairness.  The writer and the receive loop run.  The peer keeps sending *)
(* the packet it has no ACK for, and its ACKs of all it was sent arrive    *)
(* some time (strong fairness: the receive loop may be busy whenever one   *)
(* comes).  Nothing obliges the application to send or to close, and the   *)
(* properties do not rely on the ACK timer.                                *)
(***************************************************************************)
FairSpec ==
    /\ Spec /\ WF_vars(Sending) /\ WF_vars(Receiving)
    /\ SF_vars(peerBase < Data /\ PeerSends(peerBase))
    /\ SF_vars(PeerAcks(emitted))

-----------------------------------------------------------------------------
\* Every variable has its type.
TypeOK ==
    /\ recvNext \in 0 .. Data /\ outOfOrder \subseteq 0 .. (Data - 1)
    /\ recvCounter \in 0 .. (AckEveryN - 1)
    /\ pendingAck \in BOOLEAN /\ ackTimer \in BOOLEAN
    /\ sendSeq \in 0 .. Sends /\ emitted \in 0 .. sendSeq
    /\ sendBase \in 0 .. emitted /\ cwnd \in 1 .. MaxCwnd
    /\ unacked \subseteq 0 .. (emitted - 1)
    /\ windowAvail \in BOOLEAN /\ closed \in BOOLEAN
    /\ DOMAIN pc = Proc /\ ack \in 0 .. recvNext
    /\ peerBase \in 0 .. recvNext /\ losses \in 0 .. MaxLosses
    /\ silent \in BOOLEAN

\* waitForWindow loses no signal: while the writer sleeps on an open window,
\* a signal is there or about to come, so the 100 ms timeout is not needed,
\* unless an ACK moved sendBase over packets already given up or dropped (for
\* which processAck does not signal).
NoLostWakeup ==
    At(Writer, "wait") /\ WindowOpen =>
        windowAvail \/ At(Receiver, "signal") \/ silent

\* However Send's piggyback, the timer's callback and scheduleAck undo each
\* other's pendingAck and timer, what was delivered is acknowledged in the end:
\* the peer's retransmission meets the duplicate path, which always answers.
EventuallyAcked ==
    \A n \in 1 .. Data : (recvNext >= n) ~> (peerBase >= n \/ closed)

\* A Send that waits for the window returns when the peer acknowledges what it
\* was sent, or when the stream is closed, even if processAck gave no signal.
SendReturns == At(Writer, "test") ~> pc[Writer] \in {"idle", "aborted"}
=============================================================================
