------------------------- MODULE ClientStreamProofs -------------------------
(***************************************************************************)
(* Proofs about ClientStream, for any number of chunks, any capacity of    *)
(* writeCh and any set of events.                                          *)
(***************************************************************************)
EXTENDS ClientStream, SequenceTheorems, TLAPS

(***************************************************************************)
(* The inductive invariant.                                                *)
(***************************************************************************)
MainLabel == {"idle", "accepted", "read", "send", "ended", "sendClose", "wait",
              "join", "signal", "closeCh", "hangUp", "finish", "done"}
WriterLabel == {"idle", "select", "sleep", "drain", "done"}
LingerLabel == {"idle", "sleep", "remove", "done"}
RecvLabel == {"idle", "check", "send", "close", "signal", "closeCh", "hangUp",
              "endSignal", "endCloseCh", "handled"}
ShutLabel == {"idle", "range", "close", "signal", "closeCh", "hangUp", "wait", "done"}
Label == MainLabel \cup WriterLabel \cup LingerLabel \cup RecvLabel \cup ShutLabel

PcOK ==
    /\ pc \in [Proc -> Label]
    /\ pc["main"] \in MainLabel /\ pc["writer"] \in WriterLabel
    /\ pc["linger"] \in LingerLabel /\ pc["recv"] \in RecvLabel
    /\ pc["shut"] \in ShutLabel

FlagsOK ==
    /\ entry \in BOOLEAN /\ closeCh \in BOOLEAN /\ serverClosed \in BOOLEAN
    /\ closed \in BOOLEAN /\ deadline \in BOOLEAN /\ serverEnd \in BOOLEAN
    /\ closeSent \in BOOLEAN /\ panicked \in BOOLEAN
    /\ conn \in {"open", "closed"}
    /\ reliable \in {"unused", "first", "removed", "again"}
    /\ faults \subseteq Events \cup {"slow"}

Chunk == 1 .. Chunks

QueueOK ==
    /\ calls \in 0 .. Chunks
    /\ writeCh \in Seq(Chunk) /\ Len(writeCh) <= WriteCap
    /\ got \in Seq(Chunk) /\ out \in Seq(Chunk) /\ due \in Nat
    /\ pc["recv"] \in {"check", "send"} => calls >= 1

\* What the receive loop has done when it ends a stream.
RecvOK ==
    /\ serverClosed => serverEnd
    /\ pc["recv"] \in {"signal", "closeCh", "hangUp"} => closed
    /\ pc["recv"] \in {"endSignal", "endCloseCh", "handled"} => serverEnd

\* handleConnection has sent its CLOSE, if one was due.
Told == closeSent \/ serverEnd \/ reliable = "unused"
PastClose == {"wait", "join", "signal", "closeCh", "hangUp", "finish", "done"}
TellInv ==
    /\ "shutdown" \notin faults => pc["shut"] = "idle"
    /\ reliable \in {"removed", "again"} => serverEnd \/ pc["main"] = "done"
    /\ pc["linger"] # "idle" => pc["main"] = "done"
    /\ pc["main"] \in PastClose /\ "shutdown" \notin faults => Told

\* Without an error or a timeout nothing but the server's CLOSE ends the
\* writer, and the connection is closed after that.
Clean ==
    faults = {} =>
        /\ (closeCh => serverEnd) /\ (closed => closeCh)
        /\ pc["recv"] \notin {"close", "signal", "closeCh", "hangUp"}
        /\ pc["shut"] = "idle"
        /\ pc["main"] \notin {"signal", "closeCh", "join"}
        /\ conn = "closed" => pc["main"] \in {"finish", "done"}
        /\ pc["main"] \in {"hangUp", "finish", "done"} => pc["writer"] = "done"
        /\ pc["writer"] \in {"sleep", "drain", "done"} => closeCh

Control == PcOK /\ FlagsOK /\ RecvOK /\ TellInv /\ Clean

\* The chunk the receive loop holds, which is in got and not in writeCh.
Carried == IF pc["recv"] \in {"check", "send"} THEN <<calls>> ELSE <<>>
Prefix(s, t) == Len(s) <= Len(t) /\ \A i \in 1 .. Len(s) : s[i] = t[i]

Complete == out \o writeCh \o Carried = got

\* What is written, queued and carried is what was meant for the connection;
\* or a chunk was dropped, and then no later one is queued; or the connection
\* is closed, and no chunk will be written.
Flow ==
    \/ Complete
    \/ "write" \in faults
    \/ conn = "closed" /\ Prefix(out, got)
    \/ /\ closed \/ pc["recv"] = "close"
       /\ pc["recv"] # "send" /\ Prefix(out \o writeCh, got)

\* Nothing is lost before the server's CLOSE, and of what came before it the
\* writer leaves nothing behind; late chunks may stay in the queue.
Ended ==
    IF serverEnd
      THEN /\ due <= Len(out) + Len(writeCh)
           /\ pc["writer"] = "done" => due <= Len(out)
      ELSE Complete

Inv == Control /\ QueueOK /\ Flow /\ (faults = {} => Ended)
-----------------------------------------------------------------------------
(***************************************************************************)
(* Control: every action keeps it, whatever the queue holds.               *)
(***************************************************************************)

\* The steps of the specification, one by one.
LEMMA NextCases ==
    Next <=>
        \/ Accept
        \/ Register
        \/ ReadData
        \/ SendReturns
        \/ ReadFails
        \/ ReadEof
        \/ CheckServerClosed
        \/ SendClose
        \/ WriterDone
        \/ WaitTimeout
        \/ Finish
        \/ Forget
        \/ RemoveReliable
        \/ Interrupt
        \/ WriteChunk
        \/ WriterTold
        \/ StopAccepting
        \/ Drain
        \/ LookUp
        \/ CheckClosed
        \/ Enqueue
        \/ EnqueueTimeout
        \/ ServerClose
        \/ ServerCloseDone
        \/ Shutdown
        \/ CloseAll
        \/ ShutdownDone
        \/ signalClose("main", "signal", "closeCh", "join")
        \/ signalClose("recv", "signal", "closeCh", "hangUp")
        \/ signalClose("recv", "endSignal", "endCloseCh", "handled")
        \/ signalClose("shut", "signal", "closeCh", "hangUp")
        \/ MarkClosed("recv")
        \/ MarkClosed("shut")
        \/ HangUp("main", "finish")
        \/ HangUp("recv", "idle")
        \/ HangUp("shut", "wait")
BY DEF Next, Connection, Lingering, Writing, Handling, Closing

\* Every step keeps the labels, the flags, and what they tell of each other.
LEMMA ControlStep == Control /\ [Next]_vars => Control'
<1> SUFFICES ASSUME Control, [Next]_vars PROVE Control'
  OBVIOUS
<1> USE DEF Control, PcOK, FlagsOK, RecvOK, TellInv, Clean, Told, PastClose, Label,
            MainLabel, WriterLabel, LingerLabel, RecvLabel, ShutLabel, Proc, At, Goto
<1>1. CASE Accept
  BY <1>1 DEF Accept
<1>2. CASE Register
  BY <1>2 DEF Register
<1>3. CASE ReadData
  BY <1>3 DEF ReadData, Made
<1>4. CASE SendReturns
  BY <1>4 DEF SendReturns
<1>5. CASE ReadFails
  BY <1>5 DEF ReadFails
<1>6. CASE ReadEof
  BY <1>6 DEF ReadEof
<1>7. CASE CheckServerClosed
  BY <1>7 DEF CheckServerClosed
<1>8. CASE SendClose
  <2>1. PcOK'
    BY <1>8 DEF SendClose
  <2>2. FlagsOK'
    BY <1>8 DEF SendClose
  <2>3. RecvOK'
    BY <1>8 DEF SendClose
  <2>4. TellInv'
    BY <1>8 DEF SendClose
  <2>5. Clean'
    BY <1>8 DEF SendClose
  <2> QED
    BY <2>1, <2>2, <2>3, <2>4, <2>5 DEF Control
<1>9. CASE WriterDone
  BY <1>9 DEF WriterDone
<1>10. CASE WaitTimeout
  BY <1>10 DEF WaitTimeout
<1>11. CASE Finish
  BY <1>11 DEF Finish
<1>12. CASE Forget
  <2>1. PcOK'
    BY <1>12 DEF Forget
  <2>2. FlagsOK'
    BY <1>12 DEF Forget
  <2>3. RecvOK'
    BY <1>12 DEF Forget
  <2>4. TellInv'
    BY <1>12 DEF Forget
  <2>5. Clean'
    BY <1>12 DEF Forget
  <2> QED
    BY <2>1, <2>2, <2>3, <2>4, <2>5 DEF Control
<1>13. CASE RemoveReliable
  BY <1>13 DEF RemoveReliable
<1>14. CASE Interrupt
  <2>1. PcOK'
    BY <1>14 DEF Interrupt
  <2>2. FlagsOK'
    BY <1>14 DEF Interrupt
  <2>3. RecvOK'
    BY <1>14 DEF Interrupt
  <2>4. TellInv'
    BY <1>14 DEF Interrupt
  <2>5. Clean'
    BY <1>14 DEF Interrupt
  <2> QED
    BY <2>1, <2>2, <2>3, <2>4, <2>5 DEF Control
<1>15. CASE WriteChunk
  <2>1. PcOK'
    BY <1>15 DEF WriteChunk, WithFailure, CanFail, CanWrite
  <2>2. FlagsOK'
    BY <1>15 DEF WriteChunk, WithFailure, CanFail, CanWrite
  <2>3. RecvOK'
    BY <1>15 DEF WriteChunk, WithFailure, CanFail, CanWrite
  <2>4. TellInv'
    BY <1>15 DEF WriteChunk, WithFailure, CanFail, CanWrite
  <2>5. Clean'
    BY <1>15 DEF WriteChunk, WithFailure, CanFail, CanWrite
  <2> QED
    BY <2>1, <2>2, <2>3, <2>4, <2>5 DEF Control
<1>16. CASE WriterTold
  BY <1>16 DEF WriterTold
<1>17. CASE StopAccepting
  BY <1>17 DEF StopAccepting
<1>18. CASE Drain
  <2>1. PcOK'
    BY <1>18 DEF Drain, WithFailure, CanFail, CanWrite
  <2>2. FlagsOK'
    BY <1>18 DEF Drain, WithFailure, CanFail, CanWrite
  <2>3. RecvOK'
    BY <1>18 DEF Drain, WithFailure, CanFail, CanWrite
  <2>4. TellInv'
    BY <1>18 DEF Drain, WithFailure, CanFail, CanWrite
  <2>5. Clean'
    BY <1>18 DEF Drain, WithFailure, CanFail, CanWrite
  <2> QED
    BY <2>1, <2>2, <2>3, <2>4, <2>5 DEF Control
<1>19. CASE LookUp
  BY <1>19 DEF LookUp, Made
<1>20. CASE CheckClosed
  BY <1>20 DEF CheckClosed
<1>21. CASE Enqueue
  BY <1>21 DEF Enqueue
<1>22. CASE EnqueueTimeout
  BY <1>22 DEF EnqueueTimeout
<1>23. CASE ServerClose
  BY <1>23 DEF ServerClose, Made
<1>24. CASE ServerCloseDone
  BY <1>24 DEF ServerCloseDone
<1>25. CASE Shutdown
  BY <1>25 DEF Shutdown
<1>26. CASE CloseAll
  BY <1>26 DEF CloseAll
<1>27. CASE ShutdownDone
  BY <1>27 DEF ShutdownDone
<1>28. CASE signalClose("main", "signal", "closeCh", "join")
  <2>1. PcOK'
    BY <1>28 DEF signalClose
  <2>2. FlagsOK'
    BY ZenonT(30), <1>28 DEF signalClose
  <2>3. RecvOK'
    BY <1>28 DEF signalClose
  <2>4. TellInv'
    BY <1>28 DEF signalClose
  <2>5. Clean'
    BY <1>28 DEF signalClose
  <2> QED
    BY <2>1, <2>2, <2>3, <2>4, <2>5 DEF Control
<1>29. CASE signalClose("recv", "signal", "closeCh", "hangUp")
  <2>1. PcOK'
    BY <1>29 DEF signalClose
  <2>2. FlagsOK'
    BY ZenonT(30), <1>29 DEF signalClose
  <2>3. RecvOK'
    BY <1>29 DEF signalClose
  <2>4. TellInv'
    BY <1>29 DEF signalClose
  <2>5. Clean'
    BY <1>29 DEF signalClose
  <2> QED
    BY <2>1, <2>2, <2>3, <2>4, <2>5 DEF Control
<1>30. CASE signalClose("shut", "signal", "closeCh", "hangUp")
  <2>1. PcOK'
    BY <1>30 DEF signalClose
  <2>2. FlagsOK'
    BY ZenonT(30), <1>30 DEF signalClose
  <2>3. RecvOK'
    BY <1>30 DEF signalClose
  <2>4. TellInv'
    BY <1>30 DEF signalClose
  <2>5. Clean'
    BY <1>30 DEF signalClose
  <2> QED
    BY <2>1, <2>2, <2>3, <2>4, <2>5 DEF Control
<1>31. CASE MarkClosed("recv")
  BY <1>31 DEF MarkClosed
<1>32. CASE MarkClosed("shut")
  BY <1>32 DEF MarkClosed
<1>33. CASE HangUp("main", "finish")
  BY <1>33 DEF HangUp
<1>34. CASE HangUp("recv", "idle")
  BY <1>34 DEF HangUp
<1>35. CASE HangUp("shut", "wait")
  BY <1>35 DEF HangUp
<1>37. CASE signalClose("recv", "endSignal", "endCloseCh", "handled")
  <2>1. PcOK'
    BY <1>37 DEF signalClose
  <2>2. FlagsOK'
    BY ZenonT(30), <1>37 DEF signalClose
  <2>3. RecvOK'
    BY <1>37 DEF signalClose
  <2>4. TellInv'
    BY <1>37 DEF signalClose
  <2>5. Clean'
    BY <1>37 DEF signalClose
  <2> QED
    BY <2>1, <2>2, <2>3, <2>4, <2>5 DEF Control
<1>36. CASE UNCHANGED vars
  BY <1>36 DEF vars
<1> QED
  BY NextCases, <1>1, <1>2, <1>3, <1>4, <1>5, <1>6, <1>7, <1>8, <1>9, <1>10, <1>11, <1>12,
     <1>13, <1>14, <1>15, <1>16, <1>17, <1>18, <1>19, <1>20, <1>21, <1>22, <1>23, <1>24,
     <1>25, <1>26, <1>27, <1>28, <1>29, <1>30, <1>31, <1>32, <1>33, <1>34, <1>35, <1>36, <1>37
-----------------------------------------------------------------------------
(***************************************************************************)
(* Sequences of chunks.                                                    *)
(***************************************************************************)

\* Writing the first chunk of the queue leaves the line of chunks as it was.
LEMMA WriteMoves ==
    ASSUME NEW S, NEW o \in Seq(S), NEW w \in Seq(S), w # <<>>
    PROVE  /\ Append(o, Head(w)) \in Seq(S) /\ Tail(w) \in Seq(S)
           /\ Append(o, Head(w)) \o Tail(w) = o \o w
           /\ Len(Tail(w)) = Len(w) - 1
<1>1. /\ Head(w) \in S /\ Tail(w) \in Seq(S) /\ Len(Tail(w)) = Len(w) - 1
      /\ Len(w) \in Nat \ {0} /\ Len(o) \in Nat
  OBVIOUS
<1>2. Append(o, Head(w)) \in Seq(S) /\ Len(Append(o, Head(w))) = Len(o) + 1
  BY <1>1
<1>3. \A i \in 1 .. (Len(o) + Len(w)) :
          (Append(o, Head(w)) \o Tail(w))[i] = (o \o w)[i]
  BY <1>1, <1>2
<1>4. /\ Append(o, Head(w)) \o Tail(w) \in Seq(S) /\ o \o w \in Seq(S)
      /\ Len(Append(o, Head(w)) \o Tail(w)) = Len(o) + Len(w)
      /\ Len(o \o w) = Len(o) + Len(w)
  BY <1>1, <1>2
<1> QED
  BY <1>1, <1>2, <1>3, <1>4, SeqEqual

\* A chunk that is put into the queue stays at its place in the line.
LEMMA QueueMoves ==
    ASSUME NEW S, NEW o \in Seq(S), NEW w \in Seq(S), NEW c \in S
    PROVE  o \o Append(w, c) = (o \o w) \o <<c>>
<1>1. /\ Len(w) \in Nat /\ Len(o) \in Nat /\ <<c>> \in Seq(S) /\ Len(<<c>>) = 1
      /\ Append(w, c) \in Seq(S) /\ Len(Append(w, c)) = Len(w) + 1
  OBVIOUS
<1>2. /\ o \o Append(w, c) \in Seq(S) /\ (o \o w) \o <<c>> \in Seq(S)
      /\ Len(o \o Append(w, c)) = Len(o) + Len(w) + 1
      /\ Len((o \o w) \o <<c>>) = Len(o) + Len(w) + 1
  BY <1>1
<1>3. \A i \in 1 .. (Len(o) + Len(w) + 1) :
          (o \o Append(w, c))[i] = ((o \o w) \o <<c>>)[i]
  BY <1>1
<1> QED
  BY <1>2, <1>3, SeqEqual

\* The beginning of a line is a prefix of it, and so is its own beginning.
LEMMA PrefixFacts ==
    ASSUME NEW S, NEW o \in Seq(S), NEW w \in Seq(S), NEW g \in Seq(S)
    PROVE  /\ Prefix(o \o w, g) => Prefix(o, g)
           /\ o \o w = g => Prefix(o, g)
           /\ Prefix(o, o)
<1>1. /\ Len(o) \in Nat /\ Len(w) \in Nat /\ Len(o \o w) = Len(o) + Len(w)
      /\ \A i \in 1 .. Len(o) : (o \o w)[i] = o[i]
  OBVIOUS
<1> QED
  BY <1>1 DEF Prefix

\* A prefix in the sense of the proofs is one in that of WithoutGap.
LEMMA PrefixIsSubSeq ==
    ASSUME NEW S, NEW s \in Seq(S), NEW t \in Seq(S), Prefix(s, t)
    PROVE  Len(s) <= Len(t) /\ s = SubSeq(t, 1, Len(s))
<1>1. Len(s) \in Nat /\ Len(t) \in Nat /\ Len(s) <= Len(t)
  BY DEF Prefix
<1>2. /\ SubSeq(t, 1, Len(s)) \in Seq(S) /\ Len(SubSeq(t, 1, Len(s))) = Len(s)
      /\ \A i \in 1 .. Len(s) : SubSeq(t, 1, Len(s))[i] = t[i]
  BY <1>1
<1> QED
  BY <1>1, <1>2, SeqEqual DEF Prefix

\* Nothing is carried, or the last chunk that came is.
LEMMA CarriedType ==
    ASSUME QueueOK PROVE Carried \in Seq(Chunk)
<1>1. CASE pc["recv"] \in {"check", "send"}
  <2>1. calls \in Chunk
    BY <1>1, ClientAssumption DEF QueueOK, Chunk
  <2> QED
    BY <1>1, <2>1 DEF Carried
<1>2. CASE pc["recv"] \notin {"check", "send"}
  BY <1>2 DEF Carried
<1> QED
  BY <1>1, <1>2
-----------------------------------------------------------------------------
(***************************************************************************)
(* The way of the chunks.                                                  *)
(***************************************************************************)

\* Steps that touch neither the queue nor a chunk the receive loop holds.
LEMMA FlowKept ==
    ASSUME QueueOK, Flow, UNCHANGED <<out, writeCh, got, calls>>, due' \in Nat,
           \/ pc'["recv"] = pc["recv"]
           \/ /\ pc["recv"] \notin {"check", "send"}
              /\ pc'["recv"] \notin {"check", "send"}
              /\ pc["recv"] = "close" => closed',
           closed => closed', conn = "closed" => conn' = "closed",
           faults \subseteq faults'
    PROVE  QueueOK' /\ Flow' /\ (Complete => Complete')
<1>1. QueueOK' /\ Carried' = Carried
  BY DEF QueueOK, Carried
<1>2. Complete => Complete'
  BY <1>1 DEF Complete
<1>3. Flow'
  <2>1. CASE Complete
    BY <1>2, <2>1 DEF Flow
  <2>2. CASE "write" \in faults
    BY <2>2 DEF Flow
  <2>3. CASE conn = "closed" /\ Prefix(out, got)
    BY <2>3 DEF Flow
  <2>4. CASE /\ closed \/ pc["recv"] = "close"
             /\ pc["recv"] # "send" /\ Prefix(out \o writeCh, got)
    <3>1. /\ closed' \/ pc'["recv"] = "close"
          /\ pc'["recv"] # "send"
      BY <2>4
    <3> QED
      BY <2>4, <3>1 DEF Flow
  <2> QED
    BY <2>1, <2>2, <2>3, <2>4 DEF Flow
<1> QED
  BY <1>1, <1>2, <1>3

\* Whatever the writer or the receive loop does, what was written is in order.
LEMMA WrittenSoFar ==
    ASSUME QueueOK, Flow, "write" \notin faults
    PROVE  /\ Prefix(out, got)
           /\ conn = "open" /\ pc["recv"] # "send" /\ ~Complete
                => Prefix(out \o writeCh, got) /\ (closed \/ pc["recv"] = "close")
           /\ conn = "open" /\ pc["recv"] = "send" => Complete
           /\ Complete => Prefix(out \o writeCh, got)
<1>1. /\ out \in Seq(Chunk) /\ writeCh \in Seq(Chunk)
      /\ got \in Seq(Chunk) /\ Carried \in Seq(Chunk)
  BY CarriedType DEF QueueOK
<1>2. out \o writeCh \in Seq(Chunk)
  BY <1>1
<1>3. Complete => Prefix(out \o writeCh, got)
  BY <1>1, <1>2, PrefixFacts DEF Complete
<1>4. Prefix(out \o writeCh, got) => Prefix(out, got)
  BY <1>1, PrefixFacts
<1> QED
  BY <1>3, <1>4 DEF Flow

\* The writer takes the first chunk of the queue.
LEMMA TakeStep ==
    ASSUME QueueOK, Flow, writeCh # <<>>, writeCh' = Tail(writeCh),
           pc'["recv"] = pc["recv"], UNCHANGED <<got, due, calls, conn>>,
           closed => closed', faults \subseteq faults',
           \/ out' = Append(out, Head(writeCh)) /\ conn = "open"
           \/ out' = out /\ conn = "closed"
           \/ out' = out /\ "write" \in faults'
    PROVE  /\ QueueOK' /\ Flow'
           /\ Complete /\ out' # out => Complete'
<1>0. /\ out \in Seq(Chunk) /\ writeCh \in Seq(Chunk)
      /\ got \in Seq(Chunk) /\ Carried \in Seq(Chunk)
      /\ Carried' = Carried
  <2>1. Carried' = Carried
    BY DEF Carried
  <2> QED
    BY <2>1, CarriedType DEF QueueOK
<1>1. /\ Append(out, Head(writeCh)) \in Seq(Chunk) /\ writeCh' \in Seq(Chunk)
      /\ Append(out, Head(writeCh)) \o writeCh' = out \o writeCh
      /\ Len(writeCh') = Len(writeCh) - 1
  BY SMTT(30), <1>0, WriteMoves
<1>2. QueueOK'
  <2>1. Len(writeCh') <= WriteCap
    BY <1>0, <1>1, ClientAssumption DEF QueueOK
  <2> QED
    BY <1>0, <1>1, <2>1 DEF QueueOK
<1>3. out' # out => out' \o writeCh' = out \o writeCh
  BY <1>1
<1>4. Complete /\ out' # out => Complete'
  BY <1>0, <1>3 DEF Complete
<1>5. Flow'
  <2>1. CASE "write" \in faults'
    BY <2>1 DEF Flow
  <2>2. CASE "write" \notin faults' /\ conn = "closed"
    BY <2>2, WrittenSoFar DEF Flow
  <2>3. CASE "write" \notin faults' /\ conn = "open" /\ Complete
    <3>1. out' = Append(out, Head(writeCh))
      BY <2>3
    <3>2. Complete'
      BY <1>0, <1>1, <2>3, <3>1 DEF Complete
    <3> QED
      BY <3>2 DEF Flow
  <2>4. CASE "write" \notin faults' /\ conn = "open" /\ ~Complete
    <3>1. out' = Append(out, Head(writeCh)) /\ pc["recv"] # "send"
      BY <2>4, WrittenSoFar
    <3>2. /\ Prefix(out \o writeCh, got) /\ (closed \/ pc["recv"] = "close")
      BY <2>4, <3>1, WrittenSoFar
    <3>3. Prefix(out' \o writeCh', got')
      BY <1>1, <3>1, <3>2
    <3> QED
      BY <3>1, <3>2, <3>3 DEF Flow
  <2>5. conn \in {"open", "closed"} \/ "write" \in faults'
    OBVIOUS
  <2> QED
    BY <2>1, <2>2, <2>3, <2>4, <2>5
<1> QED
  BY <1>2, <1>4, <1>5

\* The chunks, and that none is missing without an error or a timeout.
FlowInv == QueueOK /\ Flow /\ (faults = {} => Ended)

\* The steps that leave the queue and the chunk in hand alone.
LEMMA OtherSteps ==
    ASSUME Control, FlowInv, Next \/ UNCHANGED vars,
           ~WriteChunk, ~Drain, ~LookUp, ~CheckClosed, ~Enqueue, ~EnqueueTimeout,
           ~ServerClose
    PROVE  FlowInv'
<1> DEFINE Kept ==
      /\ UNCHANGED <<out, writeCh, got, due, calls, serverEnd>>
      /\ pc'["writer"] = "done" => pc["writer"] = "done"
      /\ \/ pc'["recv"] = pc["recv"]
         \/ /\ pc["recv"] \notin {"check", "send"}
            /\ pc'["recv"] \notin {"check", "send"}
            /\ pc["recv"] = "close" => closed'
      /\ closed => closed'
      /\ conn = "closed" => conn' = "closed"
      /\ faults \subseteq faults'
<1>0. pc \in [Proc -> Label]
  BY DEF Control, PcOK
<1>a. Kept
  <2> USE <1>0 DEF At, Goto, Proc
  <2>1. CASE Accept
    BY <2>1 DEF Accept
  <2>2. CASE Register
    BY <2>2 DEF Register
  <2>3. CASE ReadData
    BY <2>3 DEF ReadData, Made
  <2>4. CASE SendReturns
    BY <2>4 DEF SendReturns
  <2>5. CASE ReadFails
    BY <2>5 DEF ReadFails
  <2>6. CASE ReadEof
    BY <2>6 DEF ReadEof
  <2>7. CASE CheckServerClosed
    BY <2>7 DEF CheckServerClosed
  <2>8. CASE SendClose
    BY <2>8 DEF SendClose
  <2>9. CASE WriterDone
    BY <2>9 DEF WriterDone
  <2>10. CASE WaitTimeout
    BY <2>10 DEF WaitTimeout
  <2>11. CASE Finish
    BY <2>11 DEF Finish
  <2>12. CASE Forget
    BY <2>12 DEF Forget
  <2>13. CASE RemoveReliable
    BY <2>13 DEF RemoveReliable
  <2>14. CASE Interrupt
    BY <2>14 DEF Interrupt
  <2>15. CASE WriterTold
    BY <2>15 DEF WriterTold
  <2>16. CASE StopAccepting
    BY <2>16 DEF StopAccepting
  <2>17. CASE signalClose("recv", "endSignal", "endCloseCh", "handled")
    BY <2>17 DEF signalClose
  <2>18. CASE ServerCloseDone
    BY <2>18 DEF ServerCloseDone
  <2>19. CASE Shutdown
    BY <2>19 DEF Shutdown
  <2>20. CASE CloseAll
    BY <2>20 DEF CloseAll
  <2>21. CASE ShutdownDone
    BY <2>21 DEF ShutdownDone
  <2>22. CASE signalClose("main", "signal", "closeCh", "join")
    BY <2>22 DEF signalClose
  <2>23. CASE signalClose("recv", "signal", "closeCh", "hangUp")
    BY <2>23 DEF signalClose
  <2>24. CASE signalClose("shut", "signal", "closeCh", "hangUp")
    BY <2>24 DEF signalClose
  <2>25. CASE MarkClosed("recv")
    BY <2>25 DEF MarkClosed
  <2>26. CASE MarkClosed("shut")
    BY <2>26 DEF MarkClosed
  <2>27. CASE HangUp("main", "finish")
    BY <2>27 DEF HangUp
  <2>28. CASE HangUp("recv", "idle")
    BY <2>28 DEF HangUp
  <2>29. CASE HangUp("shut", "wait")
    BY <2>29 DEF HangUp
  <2>30. CASE UNCHANGED vars
    BY <2>30 DEF vars
  <2> QED
    BY NextCases, <2>1, <2>2, <2>3, <2>4, <2>5, <2>6, <2>7, <2>8, <2>9, <2>10, <2>11,
       <2>12, <2>13, <2>14, <2>15, <2>16, <2>17, <2>18, <2>19, <2>20, <2>21, <2>22, <2>23,
       <2>24, <2>25, <2>26, <2>27, <2>28, <2>29, <2>30
<1>b. QueueOK' /\ Flow' /\ (Complete => Complete')
  <2>1. due' \in Nat
    BY <1>a DEF FlowInv, QueueOK
  <2> QED
    BY <1>a, <2>1, FlowKept DEF FlowInv
<1> QED
  BY <1>a, <1>b DEF FlowInv, Ended

\* handleReliableClose: what has come so far is queued or written.
LEMMA EndStep == ASSUME Control, FlowInv, ServerClose PROVE FlowInv'
<1>0. /\ pc \in [Proc -> Label] /\ QueueOK /\ Flow /\ (faults = {} => Ended)
  BY DEF Control, PcOK, FlowInv
<1>1. /\ UNCHANGED <<out, writeCh, got, calls, closed, conn, faults>> /\ serverEnd'
      /\ pc["recv"] = "idle" /\ pc'["recv"] \in {"endSignal", "handled"}
      /\ pc'["writer"] = pc["writer"]
      /\ due' = IF serverEnd THEN due ELSE Len(got)
  BY <1>0 DEF ServerClose, At, Goto, Proc
<1>2. /\ out \in Seq(Chunk) /\ writeCh \in Seq(Chunk) /\ got \in Seq(Chunk)
      /\ due' \in Nat
  BY <1>0, <1>1 DEF QueueOK
<1>3. QueueOK' /\ Flow'
  BY <1>0, <1>1, <1>2, FlowKept
<1>4. faults = {} => Ended'
  <2> SUFFICES ASSUME faults = {} PROVE Ended'
    OBVIOUS
  <2>1. CASE serverEnd
    BY <1>0, <1>1, <2>1 DEF Ended
  <2>2. CASE ~serverEnd
    <3>1. pc["writer"] # "done"
      BY <2>2 DEF Control, Clean
    <3>2. out \o writeCh = got
      BY <1>0, <1>1, <1>2, <2>2 DEF Ended, Complete, Carried
    <3>3. Len(got) = Len(out) + Len(writeCh)
      BY <1>2, <3>2
    <3> QED
      BY <1>1, <2>2, <3>1, <3>3 DEF Ended
  <2> QED
    BY <2>1, <2>2
<1> QED
  BY <1>1, <1>3, <1>4 DEF FlowInv

\* writeLoop and drainWriteCh.
LEMMA WriterSteps ==
    ASSUME Control, FlowInv, WriteChunk \/ Drain PROVE FlowInv'
<1>0. /\ pc \in [Proc -> Label] /\ QueueOK /\ Flow /\ (faults = {} => Ended)
      /\ conn \in {"open", "closed"}
  BY DEF Control, PcOK, FlagsOK, FlowInv
<1>1. CASE Drain /\ writeCh = <<>>
  <2>1. /\ UNCHANGED <<out, writeCh, got, due, calls, closed, conn, faults, serverEnd>>
        /\ pc'["recv"] = pc["recv"]
    BY <1>0, <1>1 DEF Drain, Goto, Proc
  <2>2. due' \in Nat /\ Len(out) \in Nat /\ Len(writeCh) = 0
    BY <1>0, <1>1, <2>1 DEF QueueOK
  <2>3. QueueOK' /\ Flow' /\ (Complete => Complete')
    BY <1>0, <2>1, <2>2, FlowKept
  <2>4. Ended => Ended'
    BY <2>1, <2>2, <2>3 DEF Ended
  <2> QED
    BY <1>0, <2>1, <2>3, <2>4 DEF FlowInv
<1>2. CASE WriteChunk \/ (Drain /\ writeCh # <<>>)
  <2>1. /\ writeCh # <<>> /\ writeCh' = Tail(writeCh)
        /\ pc'["recv"] = pc["recv"] /\ UNCHANGED <<got, due, calls, conn, serverEnd>>
        /\ closed => closed'
    BY <1>0, <1>2 DEF WriteChunk, Drain, Goto, Proc
  <2>2. /\ faults \subseteq faults'
        /\ \/ out' = Append(out, Head(writeCh)) /\ conn = "open"
           \/ out' = out /\ conn = "closed"
           \/ out' = out /\ "write" \in faults'
    BY <1>0, <1>2 DEF WriteChunk, Drain, CanWrite, CanFail, WithFailure
  <2>3. pc["writer"] \in {"select", "drain"}
    BY <1>2 DEF WriteChunk, Drain, At
  <2>4. QueueOK' /\ Flow' /\ (Complete /\ out' # out => Complete')
    BY <1>0, <2>1, <2>2, TakeStep
  <2>5. faults' = {} => Ended'
    <3> SUFFICES ASSUME faults' = {} PROVE Ended'
      OBVIOUS
    <3>1. faults = {} /\ Ended
      BY <1>0, <2>2
    <3>2. conn = "open"
      BY <1>0, <2>3, <3>1 DEF Control, Clean
    <3>3. out' = Append(out, Head(writeCh))
      BY <2>2, <3>2
    <3>4. out' # out
      <4>1. /\ out \in Seq(Chunk) /\ Head(writeCh) \in Chunk
        BY <1>0, <2>1 DEF QueueOK
      <4>2. Len(out') = Len(out) + 1 /\ Len(out) \in Nat
        BY <3>3, <4>1
      <4> QED
        BY <4>2
    <3>5. Len(out') + Len(writeCh') = Len(out) + Len(writeCh)
      <4>1. /\ out \in Seq(Chunk) /\ writeCh \in Seq(Chunk) /\ Head(writeCh) \in Chunk
        BY <1>0, <2>1 DEF QueueOK
      <4>2. /\ Len(out') = Len(out) + 1 /\ Len(writeCh') = Len(writeCh) - 1
            /\ Len(out) \in Nat /\ Len(writeCh) \in Nat
        BY <2>1, <3>3, <4>1
      <4> QED
        BY <4>2
    <3>6. pc'["writer"] # "done"
      BY <1>0, <1>2, <2>2, <3>1, <3>2, <3>3, <3>4 DEF WriteChunk, Drain, At, Goto, Proc
    <3> QED
      BY <2>1, <2>4, <3>1, <3>4, <3>5, <3>6 DEF Ended
  <2> QED
    BY <2>4, <2>5 DEF FlowInv
<1> QED
  BY <1>1, <1>2

\* handleReliableData.
LEMMA DataSteps ==
    ASSUME Control, FlowInv, LookUp \/ CheckClosed \/ Enqueue \/ EnqueueTimeout
    PROVE  FlowInv'
<1>0. /\ pc \in [Proc -> Label] /\ QueueOK /\ Flow /\ (faults = {} => Ended)
      /\ conn \in {"open", "closed"} /\ closed \in BOOLEAN
  BY DEF Control, PcOK, FlagsOK, FlowInv
<1>1. /\ out \in Seq(Chunk) /\ writeCh \in Seq(Chunk)
      /\ got \in Seq(Chunk) /\ Carried \in Seq(Chunk)
      /\ out \o writeCh \in Seq(Chunk) /\ calls \in 0 .. Chunks
  BY <1>0, CarriedType DEF QueueOK
<1>a. /\ UNCHANGED <<out, due, serverEnd>> /\ pc'["writer"] = pc["writer"]
      /\ UNCHANGED writeCh \/ writeCh' = Append(writeCh, calls)
  BY <1>0 DEF LookUp, CheckClosed, Enqueue, EnqueueTimeout, Goto, Proc
<1>b. faults = {} /\ (~serverEnd /\ Complete => Complete') => Ended'
  <2> SUFFICES ASSUME faults = {}, serverEnd PROVE Ended'
    BY <1>0, <1>a DEF Ended
  <2>1. /\ Len(writeCh') >= Len(writeCh) /\ Len(writeCh') \in Nat /\ Len(writeCh) \in Nat
        /\ Len(out) \in Nat /\ due \in Nat
    BY <1>0, <1>1, <1>a DEF QueueOK
  <2>2. due <= Len(out) + Len(writeCh) /\ (pc["writer"] = "done" => due <= Len(out))
    BY <1>0 DEF Ended
  <2> QED
    BY <1>a, <2>1, <2>2 DEF Ended
<1>2. CASE LookUp
  <2>1. /\ pc["recv"] = "idle" /\ calls' = calls + 1 /\ calls' \in Chunk
        /\ UNCHANGED <<out, writeCh, closed, conn, faults>>
        /\ Carried = <<>>
    BY <1>1, <1>2, ClientAssumption DEF LookUp, At, Chunk, Carried
  <2>2. CASE entry
    <3>1. got' = Append(got, calls') /\ pc'["recv"] = "check" /\ Carried' = <<calls'>>
      BY <1>0, <1>2, <2>1, <2>2 DEF LookUp, Goto, Proc, Carried
    <3>2. QueueOK'
      BY <1>0, <1>a, <1>1, <2>1, <3>1, ClientAssumption DEF QueueOK, Chunk
    <3>3. Complete => Complete'
      <4> SUFFICES ASSUME Complete PROVE Complete'
        OBVIOUS
      <4>1. out \o writeCh = got
        BY <1>1, <2>1 DEF Complete
      <4> QED
        BY <1>1, <2>1, <3>1, <4>1 DEF Complete
    <3>4. \A s \in Seq(Chunk) : Prefix(s, got) => Prefix(s, got')
      BY <1>1, <2>1, <3>1 DEF Prefix
    <3>5. Flow'
      <4>1. CASE Complete
        BY <3>3, <4>1 DEF Flow
      <4>2. CASE "write" \in faults
        BY <2>1, <4>2 DEF Flow
      <4>3. CASE conn = "closed" /\ Prefix(out, got)
        BY <1>1, <2>1, <3>4, <4>3 DEF Flow
      <4>4. CASE closed /\ Prefix(out \o writeCh, got)
        <5>1. Prefix((out \o writeCh)', got')
          BY <1>1, <2>1, <3>4, <4>4
        <5>2. closed' /\ pc'["recv"] # "send"
          BY <2>1, <3>1, <4>4
        <5> QED
          BY <5>1, <5>2 DEF Flow
      <4> QED
        BY <1>0, <2>1, <4>1, <4>2, <4>3, <4>4 DEF Flow
    <3> QED
      BY <1>b, <2>1, <3>2, <3>3, <3>5 DEF FlowInv
  <2>3. CASE ~entry
    <3>1. got' = got /\ pc'["recv"] = "idle" /\ Carried' = <<>>
      BY <1>0, <1>2, <2>1, <2>3 DEF LookUp, Goto, Proc, Carried
    <3>2. QueueOK'
      BY <1>0, <1>a, <1>1, <2>1, <3>1, ClientAssumption DEF QueueOK, Chunk
    <3>3. Complete => Complete'
      BY <2>1, <3>1 DEF Complete
    <3>4. Flow'
      BY <1>0, <2>1, <3>1, <3>3 DEF Flow
    <3> QED
      BY <1>b, <2>1, <3>2, <3>3, <3>4 DEF FlowInv
  <2> QED
    BY <2>2, <2>3
<1>3. CASE CheckClosed
  <2>1. /\ pc["recv"] = "check" /\ Carried = <<calls>>
        /\ UNCHANGED <<out, writeCh, got, calls, closed, conn, faults>>
    BY <1>3 DEF CheckClosed, At, Carried
  <2>2. CASE ~closed
    <3>1. pc'["recv"] = "send" /\ Carried' = <<calls>>
      BY <1>0, <1>3, <2>1, <2>2 DEF CheckClosed, Goto, Proc, Carried
    <3>2. Complete => Complete'
      BY <2>1, <3>1 DEF Complete
    <3>3. QueueOK' /\ Flow'
      BY <1>0, <1>a, <2>1, <2>2, <3>1, <3>2 DEF QueueOK, Flow
    <3> QED
      BY <1>b, <2>1, <3>2, <3>3 DEF FlowInv
  <2>3. CASE closed
    <3>1. pc'["recv"] = "idle"
      BY <1>0, <1>3, <2>1, <2>3 DEF CheckClosed, Goto, Proc
    <3>2. faults = {} => serverEnd
      BY <2>3 DEF Control, Clean
    <3>3. QueueOK'
      BY <1>0, <1>a, <2>1, <3>1 DEF QueueOK
    <3>4. Flow'
      BY <1>0, <2>1, <2>3, <3>1, WrittenSoFar DEF Flow
    <3> QED
      BY <1>b, <2>1, <3>2, <3>3, <3>4 DEF FlowInv
  <2> QED
    BY <1>0, <2>2, <2>3
<1>4. CASE Enqueue
  <2>1. /\ pc["recv"] = "send" /\ Carried = <<calls>>
        /\ writeCh' = Append(writeCh, calls) /\ Len(writeCh) < WriteCap
        /\ UNCHANGED <<out, got, calls, closed, conn, faults>>
    BY <1>4 DEF Enqueue, At, Carried
  <2>2. pc'["recv"] = "idle" /\ Carried' = <<>>
    BY <1>0, <1>4 DEF Enqueue, Goto, Proc, Carried
  <2>3. calls \in Chunk
    BY <1>0, <1>a, <2>1, ClientAssumption DEF QueueOK, Chunk
  <2>4. writeCh' \in Seq(Chunk) /\ Len(writeCh') = Len(writeCh) + 1 /\ Len(writeCh) \in Nat
    BY <1>1, <2>1, <2>3
  <2>5. QueueOK'
    <3>1. Len(writeCh') <= WriteCap
      BY <2>1, <2>4, ClientAssumption
    <3> QED
      BY <1>0, <1>a, <2>1, <2>2, <2>4, <3>1 DEF QueueOK
  <2>6. out \o writeCh' = (out \o writeCh) \o <<calls>>
    <3>1. out \in Seq(Chunk) /\ writeCh \in Seq(Chunk)
      BY <1>1
    <3>2. out \o Append(writeCh, calls) = (out \o writeCh) \o <<calls>>
      BY <2>3, <3>1, QueueMoves
    <3> QED
      BY <2>1, <3>2
  <2>7. Complete => Complete'
    <3>1. (out \o writeCh') \o <<>> = out \o writeCh'
      BY <1>1, <2>4
    <3> QED
      BY <2>1, <2>2, <2>6, <3>1 DEF Complete
  <2>8. Flow'
    <3>1. CASE Complete
      BY <2>7, <3>1 DEF Flow
    <3>2. CASE "write" \in faults
      BY <2>1, <3>2 DEF Flow
    <3>3. CASE conn = "closed" /\ Prefix(out, got)
      BY <2>1, <3>3 DEF Flow
    <3> QED
      BY <1>0, <2>1, <3>1, <3>2, <3>3 DEF Flow
  <2> QED
    BY <1>b, <2>1, <2>5, <2>7, <2>8 DEF FlowInv
<1>5. CASE EnqueueTimeout
  <2>1. /\ pc["recv"] = "send" /\ faults' = faults \cup {"slow"}
        /\ UNCHANGED <<out, writeCh, got, calls, closed, conn>>
    BY <1>5 DEF EnqueueTimeout, At
  <2>2. pc'["recv"] = "close"
    BY <1>0, <1>5 DEF EnqueueTimeout, Goto, Proc
  <2>3. QueueOK'
    BY <1>0, <1>a, <2>1, <2>2 DEF QueueOK
  <2>4. Flow'
    BY <1>0, <2>1, <2>2, WrittenSoFar DEF Flow
  <2>5. faults' # {}
    BY <2>1
  <2> QED
    BY <2>3, <2>4, <2>5 DEF FlowInv
<1> QED
  BY <1>2, <1>3, <1>4, <1>5
-----------------------------------------------------------------------------
(***************************************************************************)
(* The theorems.                                                           *)
(***************************************************************************)

\* The invariant holds before the connection is accepted.
LEMMA InitInv == Init => Inv
<1> SUFFICES ASSUME Init PROVE Inv
  OBVIOUS
<1>1. PcOK
  BY DEF Init, PcOK, Proc, Label, MainLabel, WriterLabel, LingerLabel, RecvLabel, ShutLabel
<1>2. FlagsOK /\ RecvOK
  BY <1>1 DEF Init, FlagsOK, RecvOK, Proc
<1>3. TellInv /\ Clean
  BY DEF Init, TellInv, PastClose, Clean, Proc
<1>4. QueueOK
  BY ClientAssumption DEF Init, QueueOK, Proc
<1>5. Complete
  BY DEF Init, Complete, Carried, Proc
<1>6. Ended
  BY <1>5 DEF Init, Ended
<1> QED
  BY <1>1, <1>2, <1>3, <1>4, <1>5, <1>6 DEF Inv, Control, Flow

\* Every step of every goroutine, of the application and of the server keeps it.
LEMMA NextInv == Inv /\ [Next]_vars => Inv'
<1> SUFFICES ASSUME Inv, [Next]_vars PROVE Inv'
  OBVIOUS
<1>1. Control /\ FlowInv /\ Control'
  BY ControlStep DEF Inv, FlowInv
<1>2. FlowInv'
  BY <1>1, OtherSteps, EndStep, WriterSteps, DataSteps
<1> QED
  BY <1>1, <1>2 DEF Inv, FlowInv

\* Inv holds throughout every behaviour.
LEMMA SpecInv == Spec => []Inv
<1>1. Init => Inv
  BY InitInv
<1>2. Inv /\ [Next]_vars => Inv'
  BY NextInv
<1> QED
  BY <1>1, <1>2, PTL DEF Spec

\* Every variable of the client's connection keeps its type, and writeCh never
\* holds more than WriteCap chunks, whatever WriteCap is.
THEOREM TypeCorrect == Spec => []TypeOK
<1>1. Inv => TypeOK
  <2> SUFFICES ASSUME Inv PROVE TypeOK
    OBVIOUS
  <2>1. DOMAIN pc = Proc
    BY DEF Inv, Control, PcOK
  <2>2. /\ {entry, closeCh, serverClosed, closed, deadline, serverEnd,
            closeSent, panicked} \subseteq BOOLEAN
        /\ conn \in {"open", "closed"}
        /\ reliable \in {"unused", "first", "removed", "again"}
        /\ faults \subseteq Events \cup {"slow"}
    BY DEF Inv, Control, FlagsOK
  <2> QED
    BY <2>1, <2>2 DEF Inv, QueueOK, TypeOK, Chunk
<1> QED
  BY <1>1, SpecInv, PTL

\* However the writer, the receive loop, handleConnection and Client.Close
\* interleave, what the application has got is a prefix of the chunks meant for
\* it, until a Write to it fails: once handleReliableData has dropped a chunk
\* it queues no later one.
THEOREM NoGap == Spec => []WithoutGap
<1>1. Inv => WithoutGap
  <2> SUFFICES ASSUME Inv, "write" \notin faults
               PROVE  Len(out) <= Len(got) /\ out = SubSeq(got, 1, Len(out))
    BY DEF WithoutGap
  <2>1. Prefix(out, got) /\ out \in Seq(Chunk) /\ got \in Seq(Chunk)
    BY WrittenSoFar DEF Inv, QueueOK
  <2> QED
    BY <2>1, PrefixIsSubSeq
<1> QED
  BY <1>1, SpecInv, PTL

\* Without an error or a timeout, handleConnection closes the application's
\* connection only after the server's CLOSE, when every chunk that came before
\* it has been written.
THEOREM WrittenBeforeClose == Spec => []AllWritten
<1>1. Inv => AllWritten
  <2> SUFFICES ASSUME Inv, pc["main"] \in {"finish", "done"}, faults = {}
               PROVE  serverEnd /\ Len(out) >= due
    BY DEF AllWritten
  <2>1. serverEnd /\ pc["writer"] = "done"
    BY DEF Inv, Control, Clean
  <2>2. due <= Len(out) /\ due \in Nat /\ out \in Seq(Chunk)
    BY <2>1 DEF Inv, Ended, QueueOK
  <2> QED
    BY <2>1, <2>2
<1> QED
  BY <1>1, SpecInv, PTL

\* Short of Client.Close, handleConnection never ends without its CLOSE, unless
\* the server closed first or knows nothing of the connection.
THEOREM ServerTold == Spec => []TellsServer
<1>1. Inv => TellsServer
  BY DEF Inv, Control, TellInv, Told, PastClose, TellsServer
<1> QED
  BY <1>1, SpecInv, PTL
=============================================================================
