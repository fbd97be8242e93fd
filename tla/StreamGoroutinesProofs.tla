----------------------- MODULE StreamGoroutinesProofs -----------------------
(***************************************************************************)
(* Proofs about StreamGoroutines, for any amount of data, any number of    *)
(* calls of Send, any largest window, any number of timer callbacks and    *)
(* any number of lost ACKs.                                                *)
(***************************************************************************)
EXTENDS StreamGoroutines, TLAPS

Label == {"idle", "test", "drain", "wait", "piggyback", "load", "clear",
          "cancel", "emit", "aborted", "run", "count", "swap", "arm", "send",
          "signal", "fired", "done"}

\* Send has taken a number and has not sent its packet yet.
InSend == pc[Writer] \in {"test", "drain", "wait", "piggyback", "load",
                          "clear", "cancel", "emit"}

\* The writer has seen the window closed and has not slept yet, or sleeps.
Waiting == pc[Writer] \in {"drain", "wait"}

\* What gets the writer out of its sleep.
WakeupComes == windowAvail \/ At(Receiver, "signal") \/ silent

\* The two halves of TypeOK, numbers and flags.
NumbersOK ==
    /\ recvNext \in 0 .. Data /\ outOfOrder \subseteq 0 .. (Data - 1)
    /\ recvCounter \in 0 .. (AckEveryN - 1)
    /\ sendSeq \in 0 .. Sends /\ emitted \in 0 .. sendSeq
    /\ sendBase \in 0 .. emitted /\ cwnd \in 1 .. MaxCwnd
    /\ unacked \subseteq 0 .. (emitted - 1)
    /\ ack \in 0 .. recvNext /\ peerBase \in 0 .. recvNext
    /\ losses \in 0 .. MaxLosses

FlagsOK ==
    /\ pendingAck \in BOOLEAN /\ ackTimer \in BOOLEAN
    /\ windowAvail \in BOOLEAN /\ closed \in BOOLEAN /\ silent \in BOOLEAN

(***************************************************************************)
(* The inductive invariant.  NoLostWakeup alone says nothing of a writer   *)
(* that has tested the window and is about to look for a stale signal: an  *)
(* ACK that comes in between must have left one.                           *)
(***************************************************************************)
Inv ==
    /\ NumbersOK /\ FlagsOK /\ pc \in [Proc -> Label]
    /\ InSend => emitted < sendSeq
    /\ Waiting /\ WindowOpen => WakeupComes
-----------------------------------------------------------------------------
(***************************************************************************)
(* What the steps of the proofs share: the names of the goroutines and     *)
(* the parts of the state.                                                 *)
(***************************************************************************)

\* The fixed goroutines are three, and no timer callback is one of them.
LEMMA ProcDistinct ==
    /\ Writer \in Proc /\ Receiver \in Proc /\ Closer \in Proc
    /\ Writer # Receiver /\ Writer # Closer /\ Receiver # Closer
    /\ \A c \in Callbacks : c \in Proc /\ c # Writer /\ c # Receiver /\ c # Closer
BY GoroutinesAssumption DEF Proc, Writer, Receiver, Closer

\* The invariant holds in the initial state.
LEMMA InitInv == Init => Inv
<1> SUFFICES ASSUME Init PROVE Inv
  OBVIOUS
<1>1. NumbersOK /\ FlagsOK
  <2>1. NumbersOK
    BY GoroutinesAssumption DEF Init, NumbersOK
  <2>2. FlagsOK
    BY DEF Init, FlagsOK
  <2> QED
    BY <2>1, <2>2
<1>2. pc \in [Proc -> Label] /\ pc[Writer] = "idle"
  BY ProcDistinct DEF Init, Label
<1> QED
  BY <1>1, <1>2 DEF Inv, InSend, Waiting

\* Every step of every goroutine, of the peer and of the timers keeps the
\* invariant.
LEMMA NextInv == Inv /\ [Next]_vars => Inv'
<1> SUFFICES ASSUME Inv, [Next]_vars PROVE Inv'
  OBVIOUS
<1> USE GoroutinesAssumption, ProcDistinct
        DEF Inv, NumbersOK, FlagsOK, Label, InSend, Waiting, WindowOpen, WakeupComes, At,
            Goto, recvVars, ackVars, sendVars, peerVars
<1>1. CASE Send
  BY <1>1 DEF Send
<1>2. CASE TestWindow
  BY <1>2 DEF TestWindow
<1>3. CASE DrainSignal
  BY <1>3 DEF DrainSignal
<1>4. CASE Wait
  BY <1>4 DEF Wait
<1>5. CASE LoadPending
  BY <1>5 DEF LoadPending
<1>6. CASE PiggybackAck
  <2>1. CASE At(Writer, "load")
    BY <1>6, <2>1 DEF PiggybackAck
  <2>2. CASE At(Writer, "clear")
    BY <1>6, <2>2 DEF PiggybackAck
  <2>3. CASE At(Writer, "cancel")
    BY <1>6, <2>3 DEF PiggybackAck
  <2> QED
    BY <1>6, <2>1, <2>2, <2>3 DEF PiggybackAck
<1>7. CASE Emit
  BY <1>7 DEF Emit, Deliver
<1>8. CASE DeliverRun
  <2>1. CASE recvNext \in outOfOrder
    <3>0. /\ recvNext' = recvNext + 1 /\ outOfOrder' = outOfOrder \ {recvNext}
          /\ UNCHANGED <<recvCounter, sendVars, ack, peerVars>>
      BY <1>8, <2>1 DEF DeliverRun
    <3>1. NumbersOK'
      BY <2>1, <3>0
    <3>2. FlagsOK' /\ UNCHANGED <<windowAvail, silent>>
      BY <1>8, <2>1 DEF DeliverRun
    <3>3. /\ pc' \in [Proc -> Label] /\ pc'[Writer] = pc[Writer]
          /\ ~ At(Receiver, "signal")
      BY <1>8, <2>1 DEF DeliverRun
    <3> QED
      BY <3>0, <3>1, <3>2, <3>3
  <2>2. CASE recvNext \notin outOfOrder
    BY <1>8, <2>2 DEF DeliverRun
  <2> QED
    BY <2>1, <2>2
<1>9. CASE ScheduleAck
  <2>1. CASE At(Receiver, "count")
    <3>1. recvCounter' \in 0 .. (AckEveryN - 1)
      BY <1>9, <2>1 DEF ScheduleAck
    <3> QED
      BY <1>9, <2>1, <3>1 DEF ScheduleAck
  <2>2. CASE At(Receiver, "swap")
    BY <1>9, <2>2 DEF ScheduleAck
  <2>3. CASE At(Receiver, "arm")
    BY <1>9, <2>3 DEF ScheduleAck
  <2> QED
    BY <1>9, <2>1, <2>2, <2>3 DEF ScheduleAck
<1>10. CASE SendAckNow(Receiver)
  <2>1. CASE At(Receiver, "clear")
    BY <1>10, <2>1 DEF SendAckNow
  <2>2. CASE At(Receiver, "cancel")
    BY <1>10, <2>2 DEF SendAckNow
  <2>3. CASE At(Receiver, "send")
    BY <1>10, <2>3 DEF SendAckNow, Deliver
  <2> QED
    BY <1>10, <2>1, <2>2, <2>3 DEF SendAckNow
<1>11. CASE SignalWindow
  BY <1>11 DEF SignalWindow
<1>12. CASE Close
  BY <1>12 DEF Close
<1>13. ASSUME NEW s \in 0 .. (Data - 1), PeerSends(s) PROVE Inv'
  <2>1. CASE s = recvNext
    <3>0. /\ recvNext' = recvNext + 1 /\ outOfOrder' = outOfOrder
          /\ UNCHANGED <<recvCounter, sendVars, ack, peerVars>>
      BY <1>13, <2>1 DEF PeerSends, ProcessData
    <3>1. NumbersOK'
      BY <1>13, <2>1, <3>0
    <3>2. FlagsOK' /\ UNCHANGED <<windowAvail, silent>>
      BY <1>13, <2>1 DEF PeerSends, ProcessData
    <3>3. /\ pc' \in [Proc -> Label] /\ pc'[Writer] = pc[Writer]
          /\ ~ At(Receiver, "signal")
      BY <1>13, <2>1 DEF PeerSends, ProcessData
    <3> QED
      BY <3>0, <3>1, <3>2, <3>3
  <2>2. CASE s > recvNext
    <3>0. /\ recvNext' = recvNext /\ outOfOrder' = outOfOrder \cup {s}
          /\ UNCHANGED <<recvCounter, sendVars, ack, peerVars>>
      BY <1>13, <2>2 DEF PeerSends, ProcessData
    <3>1. NumbersOK'
      BY <1>13, <2>2, <3>0
    <3>2. FlagsOK' /\ UNCHANGED <<windowAvail, silent>>
      BY <1>13, <2>2 DEF PeerSends, ProcessData
    <3>3. /\ pc' \in [Proc -> Label] /\ pc'[Writer] = pc[Writer]
          /\ ~ At(Receiver, "signal")
      BY <1>13, <2>2 DEF PeerSends, ProcessData
    <3> QED
      BY <3>0, <3>1, <3>2, <3>3
  <2>3. CASE s < recvNext
    <3>0. /\ recvNext' = recvNext /\ outOfOrder' = outOfOrder
          /\ UNCHANGED <<recvCounter, sendVars, ack, peerVars>>
      BY <1>13, <2>3 DEF PeerSends, ProcessData
    <3>1. NumbersOK'
      BY <1>13, <2>3, <3>0
    <3>2. FlagsOK' /\ UNCHANGED <<windowAvail, silent>>
      BY <1>13, <2>3 DEF PeerSends, ProcessData
    <3>3. /\ pc' \in [Proc -> Label] /\ pc'[Writer] = pc[Writer]
          /\ ~ At(Receiver, "signal")
      BY <1>13, <2>3 DEF PeerSends, ProcessData
    <3> QED
      BY <3>0, <3>1, <3>2, <3>3
  <2> QED
    BY <2>1, <2>2, <2>3
<1>14. ASSUME NEW a \in 0 .. Sends, PeerAcks(a) PROVE Inv'
  <2> USE <1>14 DEF PeerAcks, ProcessAck, AckCovers
  <2>1. CASE AckCovers(a) # {}
    <3>1. /\ unacked' \subseteq unacked /\ sendBase' \in 0 .. emitted
          /\ cwnd' \in 1 .. MaxCwnd /\ UNCHANGED <<sendSeq, emitted>>
      BY <2>1
    <3>2. /\ pc' \in [Proc -> Label] /\ At(Receiver, "signal")'
          /\ pc'[Writer] = pc[Writer]
      BY <2>1
    <3> QED
      BY <2>1, <3>1, <3>2
  <2>2. CASE AckCovers(a) = {}
    <3>1. silent' \in BOOLEAN /\ (silent => silent')
      BY <2>2
    <3>2. silent' \/ sendBase' = sendBase
      BY <2>2
    <3>3. /\ unacked' \subseteq unacked /\ sendBase' \in 0 .. emitted
          /\ cwnd' = cwnd /\ pc' = pc /\ UNCHANGED <<sendSeq, emitted>>
      BY <2>2
    <3> QED
      BY <3>1, <3>2, <3>3
  <2> QED
    BY <2>1, <2>2
<1>15. ASSUME NEW c \in Callbacks, AckTimerFires(c) PROVE Inv'
  BY <1>15 DEF AckTimerFires
<1>16. ASSUME NEW c \in Callbacks, AckCallback(c) PROVE Inv'
  BY <1>16 DEF AckCallback
<1>17. ASSUME NEW c \in Callbacks, SendAckNow(c) PROVE Inv'
  <2>1. CASE At(c, "clear")
    BY <1>17, <2>1 DEF SendAckNow
  <2>2. CASE At(c, "cancel")
    BY <1>17, <2>2 DEF SendAckNow
  <2>3. CASE At(c, "send")
    BY <1>17, <2>3 DEF SendAckNow, Deliver
  <2> QED
    BY <1>17, <2>1, <2>2, <2>3 DEF SendAckNow
<1>18. ASSUME NEW dead \in SUBSET unacked, Retransmit(dead) PROVE Inv'
  BY <1>18 DEF Retransmit
<1>19. CASE UNCHANGED vars
  BY <1>19 DEF vars
<1> HIDE DEF Inv
<1> QED
  BY <1>1, <1>2, <1>3, <1>4, <1>5, <1>6, <1>7, <1>8, <1>9, <1>10, <1>11, <1>12, <1>13,
     <1>14, <1>15, <1>16, <1>17, <1>18, <1>19
     DEF Next, Sending, WaitForWindow, Receiving, Callback

\* The inductive invariant holds in every reachable state.
LEMMA SpecInv == Spec => []Inv
BY InitInv, NextInv, PTL DEF Spec

\* Every variable of the object keeps its type however its goroutines
\* interleave: the window never exceeds its limits, no ACK number is ahead of
\* what was received or sent, and what waits for an ACK has been sent.
THEOREM TypeCorrect == Spec => []TypeOK
<1>1. Inv => TypeOK
  BY DEF Inv, NumbersOK, FlagsOK, TypeOK
<1> QED
  BY <1>1, SpecInv, PTL

\* waitForWindow loses no signal: a writer that sleeps on an open window has
\* one in the channel or coming, unless processAck kept silent.
THEOREM NoWakeupLost == Spec => []NoLostWakeup
<1>1. Inv => NoLostWakeup
  BY DEF Inv, Waiting, WakeupComes, NoLostWakeup, At
<1> QED
  BY <1>1, SpecInv, PTL
=============================================================================
