------------------------- MODULE ServerStreamProofs -------------------------
(***************************************************************************)
(* Proofs about ServerStream, for any number of chunks and serverStream    *)
(* objects, any capacity of writeCh and any set of events; some results    *)
(* are about a server that is not shut down.                               *)
(***************************************************************************)
EXTENDS ServerStream, SequenceTheorems, TLAPS

(***************************************************************************)
(* The labels, and the variables' types.                                   *)
(***************************************************************************)
\* In close: about to claim it, and past the claim.
PastClaim == {"closeWrite", "closeWrite2", "closeAll", "closeAll2", "closeConn"}
Closing == {"close"} \cup PastClaim

\* The receive loop with a chunk that is not in an object yet.
InHand == {"created", "loaded", "lock", "check", "send"}
RecvLabel == {"idle", "halfClose", "halfClose2", "halfClosed"} \cup InHand \cup Closing
ShutLabel == {"idle", "range", "done"} \cup Closing
RunLabel == {"idle", "dial", "dialFailed", "sendClose", "connected", "flush",
             "wait", "remove", "done"} \cup Closing
WriterLabel == {"idle", "select", "drain", "drainFin", "done"} \cup Closing
ReaderLabel == {"idle", "loop", "read", "send", "sendClose", "done"} \cup Closing
Label == RecvLabel \cup ShutLabel \cup RunLabel \cup WriterLabel \cup ReaderLabel

PcOK ==
    /\ pc \in [Proc -> Label]
    /\ pc[Recv] \in RecvLabel /\ pc[Shut] \in ShutLabel
    /\ \A i \in Streams : /\ pc[Run(i)] \in RunLabel /\ pc[Writer(i)] \in WriterLabel
                          /\ pc[Reader(i)] \in ReaderLabel

VarsOK ==
    /\ entry \in Streams \cup {None} /\ target \in [{Recv, Shut} -> Streams \cup {None}]
    /\ calls \in 0 .. Chunks /\ clientEnd \in BOOLEAN
    /\ reliable \in {"first", "none", "again", "shut"}
    /\ closeSent \in BOOLEAN /\ panicked \in BOOLEAN

TargetOK ==
    /\ pc[Recv] # "idle" => target[Recv] \in Streams
    /\ pc[Shut] \in Closing => target[Shut] \in Streams
    /\ pc[Recv] \in InHand => calls >= 1

ObjectsOK == ss \in [Streams -> Object] /\ \A i \in Streams : Len(ss[i].writeCh) <= WriteCap

TypeInv == PcOK /\ VarsOK /\ TargetOK /\ ObjectsOK

(***************************************************************************)
(* The life of an object, and the line of its chunks: those its backend    *)
(* has, then those connectAndRun is about to write, the pending ones, and  *)
(* the queue.                                                              *)
(***************************************************************************)
LifeOK(i) ==
    /\ ss[i].state = "unborn" =>
          /\ pc[Run(i)] = "idle" /\ ss[i].pending = <<>> /\ ss[i].writeCh = <<>>
          /\ ss[i].got = <<>> /\ target[Recv] # i /\ target[Shut] # i /\ entry # i
    /\ ss[i].state = "connecting" =>
          pc[Run(i)] \in {"dial", "connected"} /\ ss[i].writeCh = <<>>
    /\ pc[Run(i)] \in {"idle", "dial", "dialFailed", "connected", "sendClose"} =>
          ss[i].out = <<>> /\ ss[i].flush = <<>>
    /\ pc[Run(i)] \in {"flush", "wait"} => ss[i].pending = <<>> /\ ss[i].state # "connecting"
    /\ pc[Writer(i)] # "idle" => ss[i].flush = <<>> /\ ss[i].pending = <<>>
                                 /\ pc[Run(i)] \in {"wait", "remove", "done"}
    /\ pc[Reader(i)] # "idle" => pc[Run(i)] \in {"wait", "remove", "done"}
    /\ ss[i].state = "unborn" <=> pc[Run(i)] = "idle"
    /\ pc[Recv] \in {"check", "send"} /\ target[Recv] = i => ss[i].state # "connecting"

Line(x) == (x.out \o x.flush) \o (x.pending \o x.writeCh)
Increasing(s) == \A a, b \in 1 .. Len(s) : a < b => s[a] < s[b]
Below(s, n) == \A a \in 1 .. Len(s) : s[a] <= n

\* The latest chunk that an object may hold.
Latest == IF pc[Recv] \in InHand THEN calls - 1 ELSE calls

LineOK(i) == Increasing(Line(ss[i])) /\ Below(Line(ss[i]), Latest)

OrderInv == \A i \in Streams : LifeOK(i) /\ LineOK(i)

(***************************************************************************)
(* Who has told the client.                                                *)
(***************************************************************************)
Told == closeSent \/ clientEnd \/ pc[Shut] # "idle"
TellInv ==
    /\ pc[Recv] \in {"halfClose", "halfClose2", "halfClosed"} => clientEnd
    /\ reliable # "first" => Told
    /\ \A i \in Streams :
          /\ pc[Reader(i)] \in Closing \cup {"done"} => Told
          /\ pc[Run(i)] = "remove" => Told
          /\ pc[Run(i)] \in Closing => ss[i].flush # <<>>
          /\ pc[Run(i)] = "done" => Told \/ ss[i].flush # <<>>

(***************************************************************************)
(* Without a shutdown.                                                     *)
(***************************************************************************)
\* A goroutine that works on object i is at one of the labels ls.
Somebody(i, ls) ==
    \/ target[Recv] = i /\ pc[Recv] \in ls
    \/ pc[Run(i)] \in ls \/ pc[Writer(i)] \in ls \/ pc[Reader(i)] \in ls

\* connectAndRun has the object connecting until it is connected, or has failed.
DialOK(i) ==
    /\ pc[Run(i)] \in {"dial", "connected"} => ss[i].state = "connecting"
    /\ pc[Run(i)] = "connected" => ss[i].backend = "open"
    /\ pc[Run(i)] \in {"idle", "dial", "dialFailed", "sendClose"} => ss[i].backend = "nil"
    /\ pc[Run(i)] = "flush" \/ pc[Writer(i)] # "idle" => ss[i].backend # "nil"

\* Nobody closes it before, who closes has set the state, and the reader does.
ClosesOK(i) ==
    /\ Somebody(i, Closing) => ss[i].state # "connecting"
    /\ Somebody(i, PastClaim) => ss[i].state = "closed"
    /\ pc[Reader(i)] = "done" => ss[i].state = "closed"

\* Whoever closed writeCloseCh; and the writer has seen it closed.
HalfOK(i) ==
    /\ ss[i].writeCloseCh => ss[i].state = "closed" \/ ss[i].clientCloseRecv
    /\ pc[Writer(i)] = "drainFin" => ss[i].writeCloseCh
    /\ pc[Recv] \in {"halfClose", "halfClose2"} /\ target[Recv] = i =>
          ss[i].clientCloseRecv

\* A closed object has no backend connection, or somebody is closing it.
EndOK(i) ==
    ss[i].state = "closed" /\ ss[i].backend \notin {"nil", "closed"} =>
        Somebody(i, PastClaim)

\* Server.Close has not been called.
QuietOK == pc[Shut] = "idle"

StateInv ==
    QuietOK /\ \A i \in Streams : DialOK(i) /\ ClosesOK(i) /\ HalfOK(i) /\ EndOK(i)

\* The chunk the receive loop holds for object i, which is in got.
Carried(i) == IF pc[Recv] \in {"lock", "check", "send"} /\ target[Recv] = i
              THEN <<calls>> ELSE <<>>
IsPrefix(s, t) == Len(s) <= Len(t) /\ \A k \in 1 .. Len(s) : s[k] = t[k]
Complete(i) == Line(ss[i]) \o Carried(i) = ss[i].got

\* The queue of object i is shut to the chunks that come from now on.
QueueShut(i) ==
    /\ ss[i].writeCloseCh /\ ss[i].state \in {"connected", "closed"}
    /\ target[Recv] = i => pc[Recv] \notin {"lock", "send"}

\* What an object has and the receive loop carries to it is what was meant for
\* it; or a chunk was dropped, and no later one gets there; or its backend gets
\* nothing any more.
Flow(i) ==
    \/ Complete(i)
    \/ ss[i].failed
    \/ ss[i].backend \in {"finSent", "closed"} /\ IsPrefix(ss[i].out, ss[i].got)
    \/ /\ ss[i].state = "closed" \/ (pc[Recv] = "close" /\ target[Recv] = i)
       /\ Carried(i) = <<>> /\ IsPrefix(Line(ss[i]), ss[i].got)
    \/ QueueShut(i) /\ IsPrefix(Line(ss[i]), ss[i].got)

\* Until it is closed, an object has what came before the client's close, or
\* its backend has, once that was sent the FIN.
FinOK(i) ==
    ss[i].state # "closed" =>
        /\ ss[i].backend # "closed"
        /\ ss[i].backend = "finSent" => ss[i].clientCloseRecv
        /\ ss[i].failed \/ ss[i].due <= Len(IF ss[i].backend = "finSent" THEN ss[i].out
                                            ELSE Line(ss[i]))

FlowInv == \A i \in Streams : Flow(i) /\ FinOK(i)

\* An object that has no backend connection and will open none.
Settled(i) == /\ ss[i].backend \in {"nil", "closed"}
              /\ pc[Run(i)] \in {"sendClose", "remove", "done"}

\* The map holds any other, or will when LoadOrStore returns, or the receive
\* loop is about to close its connection.
Held(i) == \/ Settled(i) \/ entry = i
           \/ pc[Recv] = "created" /\ target[Recv] = i
           \/ /\ pc[Recv] \in PastClaim /\ target[Recv] = i
              /\ pc[Run(i)] \in {"remove", "done"}

OneInv ==
    /\ pc[Recv] = "created" => entry = None
    /\ \A i, j \in Streams : i < j /\ ss[j].state # "unborn" =>
          ss[i].state # "unborn" /\ Settled(i)
    /\ \A i \in Streams : ss[i].state # "unborn" => Held(i)

AlwaysInv == TypeInv /\ OrderInv /\ TellInv
QuietInv == AlwaysInv /\ StateInv /\ FlowInv /\ OneInv
-----------------------------------------------------------------------------
(***************************************************************************)
(* The goroutines, and what a step of one of them leaves alone.            *)
(***************************************************************************)

\* The goroutines are in Proc.
LEMMA ProcNames ==
    /\ Recv \in Proc /\ Shut \in Proc /\ Recv # Shut
    /\ \A i \in Streams : Run(i) \in Proc /\ Writer(i) \in Proc /\ Reader(i) \in Proc
BY DEF Proc, Recv, Shut, Run, Writer, Reader

\* The goroutines of an object are neither the receive loop nor Server.Close.
LEMMA OwnNames ==
    \A i \in Streams : /\ Run(i) \notin {Recv, Shut} /\ Writer(i) \notin {Recv, Shut}
                       /\ Reader(i) \notin {Recv, Shut}
BY DEF Recv, Shut, Run, Writer, Reader

\* No two goroutines of objects are the same.
LEMMA NamesDiffer ==
    \A i, j \in Streams : /\ Run(i) # Writer(j) /\ Run(i) # Reader(j)
                          /\ Writer(i) # Reader(j)
                          /\ i # j => /\ Run(i) # Run(j) /\ Writer(i) # Writer(j)
                                      /\ Reader(i) # Reader(j)
BY DEF Run, Writer, Reader

\* Every goroutine is the receive loop, in Server.Close, or one of an object.
LEMMA ProcCases ==
    \A p \in Proc : \/ p \in {Recv, Shut}
                    \/ \E i \in Streams : p \in {Run(i), Writer(i), Reader(i)}
<1> SUFFICES ASSUME NEW p \in Proc, p \notin {Recv, Shut}
             PROVE  \E i \in Streams : p \in {Run(i), Writer(i), Reader(i)}
  OBVIOUS
<1>1. p \in {"run", "writer", "reader"} \X Streams
  BY DEF Proc
<1>2. p = <<p[1], p[2]>> /\ p[1] \in {"run", "writer", "reader"} /\ p[2] \in Streams
  BY <1>1
<1> QED
  BY <1>2 DEF Run, Writer, Reader

\* The object each goroutine works on.
LEMMA StreamOfFacts ==
    /\ StreamOf(Recv) = target[Recv] /\ StreamOf(Shut) = target[Shut]
    /\ \A i \in Streams : StreamOf(Run(i)) = i /\ StreamOf(Writer(i)) = i
                          /\ StreamOf(Reader(i)) = i
<1>1. \A i \in Streams : Run(i)[2] = i /\ Writer(i)[2] = i /\ Reader(i)[2] = i
  BY DEF Run, Writer, Reader
<1> QED
  BY <1>1, OwnNames DEF StreamOf
-----------------------------------------------------------------------------
(***************************************************************************)
(* What the steps do to the objects: at most one becomes another record.   *)
(***************************************************************************)
Becomes(i, x) == ss' = [ss EXCEPT ![i] = x]

\* An object that changes changes alone.
LEMMA BecomesFacts ==
    ASSUME ObjectsOK, NEW i \in Streams, NEW x, Becomes(i, x)
    PROVE  /\ ss'[i] = x /\ \A j \in Streams : j # i => ss'[j] = ss[j]
           /\ x \in Object /\ Len(x.writeCh) <= WriteCap => ObjectsOK'
BY DEF ObjectsOK, Becomes

\* LookUp: createStream, or the object in the map.
LEMMA LookUpEffect ==
    ASSUME ObjectsOK, LookUp
    PROVE  \/ entry # None /\ ss' = ss
           \/ \E i \in Streams : /\ entry = None /\ Fresh(i)
                                 /\ Becomes(i, [ss[i] EXCEPT !.state = "connecting"])
BY DEF LookUp, ObjectsOK, Becomes

\* LoadState.
LEMMA LoadStateEffect ==
    ASSUME ObjectsOK, LoadState, NEW i \in Streams, i = target[Recv]
    PROVE  Becomes(i, [ss[i] EXCEPT !.got = Append(@, calls)])
BY DEF LoadState, ObjectsOK, Becomes

\* Pend, for an object that still connects, and for another.
LEMMA PendEffect ==
    ASSUME ObjectsOK, Pend, NEW i \in Streams, i = target[Recv]
    PROVE  /\ ss[i].state = "connecting" =>
                  Becomes(i, [ss[i] EXCEPT !.pending = Append(@, calls)])
           /\ ss[i].state # "connecting" => ss' = ss
BY DEF Pend, ObjectsOK, Becomes

\* Enqueue.
LEMMA EnqueueEffect ==
    ASSUME ObjectsOK, Enqueue, NEW i \in Streams, i = target[Recv]
    PROVE  Becomes(i, [ss[i] EXCEPT !.writeCh = Append(@, calls)])
BY DEF Enqueue, ObjectsOK, Becomes

\* ClientClose notes the close, and how many chunks came before the first.
Noted(i) == [ss[i] EXCEPT !.clientCloseRecv = TRUE,
                          !.due = IF ss[i].clientCloseRecv THEN @ ELSE Len(ss[i].got)]

\* ClientClose.
LEMMA ClientCloseEffect ==
    ASSUME ObjectsOK, VarsOK, ClientClose
    PROVE  \/ entry = None /\ ss' = ss
           \/ entry \in Streams /\ Becomes(entry, Noted(entry))
BY DEF ClientClose, ObjectsOK, VarsOK, Becomes, Noted

\* The close of writeCloseCh and that of closeCh.
LEMMA CloseChannelEffect ==
    ASSUME ObjectsOK, NEW p, NEW m, NEW next, NEW i \in Streams, i = StreamOf(p)
    PROVE  /\ CloseChannel(p, m, "writeCloseCh", next) =>
                  Becomes(i, [ss[i] EXCEPT !.writeCloseCh = TRUE])
           /\ CloseChannel(p, m, "closeCh", next) =>
                  Becomes(i, [ss[i] EXCEPT !.closeCh = TRUE])
BY DEF CloseChannel, ObjectsOK, Becomes

\* Claim and the close of the backend connection.
LEMMA CloseEffect ==
    ASSUME ObjectsOK, NEW p, NEW i \in Streams, i = StreamOf(p)
    PROVE  /\ Claim(p) => Becomes(i, [ss[i] EXCEPT !.state = "closed"])
           /\ CloseBackend(p) => Becomes(i, [ss[i] EXCEPT !.backend =
                                    IF @ = "nil" THEN @ ELSE "closed"])
BY DEF Claim, CloseBackend, ObjectsOK, Becomes

\* connectAndRun: the dial and the change to connected.
LEMMA DialEffect ==
    ASSUME ObjectsOK, NEW i \in Streams
    PROVE  /\ DialFails(i) => Becomes(i, [ss[i] EXCEPT !.state = "closed"])
           /\ DialSucceeds(i) => Becomes(i, [ss[i] EXCEPT !.backend = "open"])
           /\ TakePending(i) =>
                 Becomes(i, [ss[i] EXCEPT !.flush = ss[i].pending, !.pending = <<>>,
                                          !.state = "connected"])
BY DEF DialFails, DialSucceeds, TakePending, ObjectsOK, Becomes

\* A Write of pending data.
LEMMA FlushEffect ==
    ASSUME ObjectsOK, NEW i \in Streams, Flush(i)
    PROVE  \/ /\ ss[i].backend = "open"
              /\ Becomes(i, [ss[i] EXCEPT !.out = Append(@, Head(ss[i].flush)),
                                          !.flush = Tail(@)])
           \/ Becomes(i, [ss[i] EXCEPT !.failed = Broken(i)])
BY DEF Flush, CanWrite, ObjectsOK, Becomes

\* The writer takes a chunk from the queue, and writes it or fails.
Written(i) == [ss[i] EXCEPT !.out = Append(@, Head(ss[i].writeCh)), !.writeCh = Tail(@)]
Dropped(i) == [ss[i] EXCEPT !.writeCh = Tail(@), !.failed = Broken(i)]

\* A Write from the queue, in the loop and while draining.
LEMMA WriteEffect ==
    ASSUME ObjectsOK, NEW i \in Streams
    PROVE  /\ WriteChunk(i) => \/ ss[i].backend = "open" /\ Becomes(i, Written(i))
                               \/ Becomes(i, Dropped(i))
           /\ Drain(i) /\ ss[i].writeCh # <<>> =>
                               \/ ss[i].backend = "open" /\ Becomes(i, Written(i))
                               \/ Becomes(i, Dropped(i))
           /\ Drain(i) /\ ss[i].writeCh = <<>> =>
                Becomes(i, [ss[i] EXCEPT !.backend =
                    IF @ = "open" /\ pc[Writer(i)] = "drainFin" THEN "finSent" ELSE @])
BY DEF WriteChunk, Drain, CanWrite, ObjectsOK, Becomes, Written, Dropped

\* The reader's deadline.
LEMMA DeadlineEffect ==
    ASSUME ObjectsOK, NEW i \in Streams
    PROVE  /\ SetDeadline(i) => Becomes(i, [ss[i] EXCEPT !.deadline = ss[i].clientCloseRecv])
           /\ ReadData(i) => Becomes(i, [ss[i] EXCEPT !.deadline = FALSE])
BY DEF SetDeadline, ReadData, ObjectsOK, Becomes
-----------------------------------------------------------------------------
(***************************************************************************)
(* The same, field by field.                                               *)
(***************************************************************************)
Others(i) == \A j \in Streams : j # i => ss'[j] = ss[j]
SameLine(i) == /\ ss'[i].out = ss[i].out /\ ss'[i].flush = ss[i].flush
               /\ ss'[i].pending = ss[i].pending /\ ss'[i].writeCh = ss[i].writeCh
SameHistory(i) == ss'[i].got = ss[i].got /\ ss'[i].failed = ss[i].failed
SameLife(i) == ss'[i].state = ss[i].state /\ ss'[i].backend = ss[i].backend
SameHalf(i) == /\ ss'[i].writeCloseCh = ss[i].writeCloseCh
               /\ ss'[i].clientCloseRecv = ss[i].clientCloseRecv
               /\ ss'[i].due = ss[i].due

\* createStream.
LEMMA CreateFields ==
    ASSUME ObjectsOK, NEW i \in Streams, ss' = [ss EXCEPT ![i].state = "connecting"]
    PROVE  /\ Others(i) /\ SameLine(i) /\ SameHistory(i) /\ SameHalf(i)
           /\ ss'[i].backend = ss[i].backend /\ ss'[i].state = "connecting"
BY DEF ObjectsOK, Object, Others, SameLine, SameHistory, SameHalf

\* LoadState.
LEMMA LoadStateFields ==
    ASSUME ObjectsOK, LoadState, NEW i \in Streams, i = target[Recv]
    PROVE  /\ Others(i) /\ SameLine(i) /\ SameLife(i) /\ SameHalf(i)
           /\ ss'[i].got = Append(ss[i].got, calls) /\ ss'[i].failed = ss[i].failed
BY DEF LoadState, ObjectsOK, Object, Others, SameLine, SameLife, SameHalf

\* Pend.
LEMMA PendFields ==
    ASSUME ObjectsOK, Pend, NEW i \in Streams, i = target[Recv], ss[i].state = "connecting"
    PROVE  /\ Others(i) /\ SameHistory(i) /\ SameLife(i) /\ SameHalf(i)
           /\ ss'[i].pending = Append(ss[i].pending, calls)
           /\ ss'[i].out = ss[i].out /\ ss'[i].flush = ss[i].flush
           /\ ss'[i].writeCh = ss[i].writeCh
BY ZenonT(30) DEF Pend, ObjectsOK, Object, Others, SameHistory, SameLife, SameHalf

\* Enqueue.
LEMMA EnqueueFields ==
    ASSUME ObjectsOK, Enqueue, NEW i \in Streams, i = target[Recv]
    PROVE  /\ Others(i) /\ SameHistory(i) /\ SameLife(i) /\ SameHalf(i)
           /\ ss'[i].writeCh = Append(ss[i].writeCh, calls)
           /\ ss'[i].out = ss[i].out /\ ss'[i].flush = ss[i].flush
           /\ ss'[i].pending = ss[i].pending
BY DEF Enqueue, ObjectsOK, Object, Others, SameHistory, SameLife, SameHalf

\* ClientClose touches no field but clientCloseRecv and due, of the object in the
\* map.
LEMMA ClientCloseFields ==
    ASSUME ObjectsOK, VarsOK, ClientClose, NEW i \in Streams
    PROVE  /\ SameLine(i) /\ SameHistory(i) /\ SameLife(i)
           /\ ss'[i].writeCloseCh = ss[i].writeCloseCh
           /\ \/ SameHalf(i)
              \/ /\ entry = i /\ ss'[i].clientCloseRecv = TRUE
                 /\ ss'[i].due = IF ss[i].clientCloseRecv THEN ss[i].due
                                 ELSE Len(ss[i].got)
<1>1. CASE ss'[i] = ss[i]
  BY <1>1 DEF SameHistory, SameLine, SameLife, SameHalf
<1>2. CASE entry = i /\ ss'[i] = Noted(i)
  BY <1>2 DEF ObjectsOK, Object, SameHistory, SameLine, SameLife, Noted
<1> QED
  BY <1>1, <1>2, ClientCloseEffect, BecomesFacts

\* Nor does the reader one but its deadline.
LEMMA DeadlineFields ==
    ASSUME ObjectsOK, NEW i \in Streams, NEW k \in Streams, SetDeadline(i) \/ ReadData(i)
    PROVE  SameLine(k) /\ SameHistory(k) /\ SameLife(k) /\ SameHalf(k)
<1>1. PICK v \in {ss[i].clientCloseRecv, FALSE} : ss' = [ss EXCEPT ![i].deadline = v]
  BY DEF SetDeadline, ReadData
<1>2. CASE k = i
  BY <1>1, <1>2 DEF ObjectsOK, Object, SameHistory, SameLine, SameLife, SameHalf
<1>3. CASE k # i
  BY <1>1, <1>3 DEF ObjectsOK, SameHistory, SameLine, SameLife, SameHalf
<1> QED
  BY <1>2, <1>3

\* The close of writeCloseCh.
LEMMA CloseWriteFields ==
    ASSUME ObjectsOK, NEW p, NEW m, NEW next, NEW i \in Streams, i = StreamOf(p),
           CloseChannel(p, m, "writeCloseCh", next)
    PROVE  /\ Others(i) /\ SameLine(i) /\ SameHistory(i) /\ SameLife(i)
           /\ ss'[i].writeCloseCh = TRUE
           /\ ss'[i].clientCloseRecv = ss[i].clientCloseRecv /\ ss'[i].due = ss[i].due
BY DEF CloseChannel, ObjectsOK, Object, Others, SameHistory, SameLine, SameLife

\* The close of closeCh.
LEMMA CloseAllFields ==
    ASSUME ObjectsOK, NEW p, NEW m, NEW next, NEW i \in Streams, i = StreamOf(p),
           CloseChannel(p, m, "closeCh", next)
    PROVE  Others(i) /\ SameLine(i) /\ SameHistory(i) /\ SameLife(i) /\ SameHalf(i)
BY DEF CloseChannel, ObjectsOK, Object, Others, SameHistory, SameLine, SameLife, SameHalf

\* The CompareAndSwap pair of close.
LEMMA ClaimFields ==
    ASSUME ObjectsOK, NEW p, NEW i \in Streams, i = StreamOf(p), Claim(p)
    PROVE  /\ Others(i) /\ SameLine(i) /\ SameHistory(i) /\ SameHalf(i)
           /\ ss'[i].state = "closed" /\ ss'[i].backend = ss[i].backend
BY DEF Claim, ObjectsOK, Object, Others, SameHistory, SameLine, SameHalf

\* The close of the backend connection.
LEMMA CloseBackendFields ==
    ASSUME ObjectsOK, NEW p, NEW i \in Streams, i = StreamOf(p), CloseBackend(p)
    PROVE  /\ Others(i) /\ SameLine(i) /\ SameHistory(i) /\ SameHalf(i)
           /\ ss'[i].state = ss[i].state
           /\ ss[i].backend = "nil" => ss'[i].backend = "nil"
           /\ ss[i].backend # "nil" => ss'[i].backend = "closed"
BY DEF CloseBackend, ObjectsOK, Object, Others, SameHistory, SameLine, SameHalf

\* A dial that fails.
LEMMA DialFailsFields ==
    ASSUME ObjectsOK, NEW i \in Streams, DialFails(i)
    PROVE  /\ Others(i) /\ SameLine(i) /\ SameHistory(i) /\ SameHalf(i)
           /\ ss'[i].state = "closed" /\ ss'[i].backend = ss[i].backend
BY DEF DialFails, ObjectsOK, Object, Others, SameHistory, SameLine, SameHalf

\* A dial that succeeds.
LEMMA DialSucceedsFields ==
    ASSUME ObjectsOK, NEW i \in Streams, DialSucceeds(i)
    PROVE  /\ Others(i) /\ SameLine(i) /\ SameHistory(i) /\ SameHalf(i)
           /\ ss'[i].state = ss[i].state /\ ss'[i].backend = "open"
BY DEF DialSucceeds, ObjectsOK, Object, Others, SameHistory, SameLine, SameHalf

\* The pending data becomes what is to be flushed.
LEMMA TakePendingFields ==
    ASSUME ObjectsOK, NEW i \in Streams, TakePending(i)
    PROVE  /\ Others(i) /\ SameHistory(i) /\ SameHalf(i)
           /\ ss'[i].state = "connected" /\ ss'[i].backend = ss[i].backend
           /\ ss'[i].flush = ss[i].pending /\ ss'[i].pending = <<>>
           /\ ss'[i].out = ss[i].out /\ ss'[i].writeCh = ss[i].writeCh
BY DEF TakePending, ObjectsOK, Object, Others, SameHistory, SameHalf

\* One Write of pending data, in order; or it fails.
LEMMA FlushFields ==
    ASSUME ObjectsOK, NEW i \in Streams, Flush(i)
    PROVE  /\ Others(i) /\ SameLife(i) /\ SameHalf(i) /\ ss'[i].got = ss[i].got
           /\ ss'[i].pending = ss[i].pending /\ ss'[i].writeCh = ss[i].writeCh
           /\ \/ /\ ss[i].backend = "open" /\ ss'[i].failed = ss[i].failed
                 /\ ss'[i].out = Append(ss[i].out, Head(ss[i].flush))
                 /\ ss'[i].flush = Tail(ss[i].flush)
                 /\ pc' = pc
              \/ /\ ss'[i].failed = Broken(i)
                 /\ ss'[i].out = ss[i].out /\ ss'[i].flush = ss[i].flush
                 /\ Goto(Run(i), "close")
<1>1. CASE /\ CanWrite(i)
           /\ ss' = [ss EXCEPT ![i].out = Append(@, Head(ss[i].flush)),
                               ![i].flush = Tail(@)]
           /\ UNCHANGED pc
  BY <1>1 DEF CanWrite, ObjectsOK, Object, Others, SameLife, SameHalf
<1>2. CASE /\ ss' = [ss EXCEPT ![i].failed = Broken(i)]
           /\ Goto(Run(i), "close")
  BY <1>2 DEF ObjectsOK, Object, Others, SameLife, SameHalf
<1> QED
  BY <1>1, <1>2 DEF Flush

\* The queue's first chunk is written, or lost by a Write that fails.
TakesChunk(i) ==
    /\ Others(i) /\ SameLife(i) /\ SameHalf(i) /\ ss'[i].got = ss[i].got
    /\ ss'[i].pending = ss[i].pending /\ ss'[i].flush = ss[i].flush
    /\ ss'[i].writeCh = Tail(ss[i].writeCh)
    /\ \/ /\ ss[i].backend = "open" /\ ss'[i].failed = ss[i].failed
          /\ ss'[i].out = Append(ss[i].out, Head(ss[i].writeCh))
       \/ ss'[i].failed = Broken(i) /\ ss'[i].out = ss[i].out

\* The two effects of a Write from the queue.
LEMMA TakesFields ==
    ASSUME ObjectsOK, NEW i \in Streams,
           \/ CanWrite(i) /\ ss' = [ss EXCEPT ![i].out = Append(@, Head(ss[i].writeCh)),
                                              ![i].writeCh = Tail(@)]
           \/ ss' = [ss EXCEPT ![i].writeCh = Tail(@), ![i].failed = Broken(i)]
    PROVE  TakesChunk(i)
<1>1. CASE CanWrite(i) /\ ss' = [ss EXCEPT ![i].out = Append(@, Head(ss[i].writeCh)),
                                           ![i].writeCh = Tail(@)]
  BY <1>1 DEF CanWrite, ObjectsOK, Object, Others, SameLife, SameHalf, TakesChunk
<1>2. CASE ss' = [ss EXCEPT ![i].writeCh = Tail(@), ![i].failed = Broken(i)]
  BY <1>2 DEF ObjectsOK, Object, Others, SameLife, SameHalf, TakesChunk
<1> QED
  BY <1>1, <1>2

\* The writer's Write, in its loop and while it drains.
LEMMA WriteFields ==
    ASSUME ObjectsOK, NEW i \in Streams
    PROVE  /\ WriteChunk(i) => ss[i].writeCh # <<>> /\ TakesChunk(i)
           /\ Drain(i) /\ ss[i].writeCh # <<>> => TakesChunk(i) /\ pc' = pc
<1>1. ASSUME WriteChunk(i) PROVE ss[i].writeCh # <<>> /\ TakesChunk(i)
  <2>1. \/ CanWrite(i) /\ ss' = [ss EXCEPT ![i].out = Append(@, Head(ss[i].writeCh)),
                                           ![i].writeCh = Tail(@)]
        \/ ss' = [ss EXCEPT ![i].writeCh = Tail(@), ![i].failed = Broken(i)]
    BY <1>1 DEF WriteChunk
  <2>2. ss[i].writeCh # <<>>
    BY <1>1 DEF WriteChunk
  <2> QED
    BY <2>1, <2>2, TakesFields
<1>2. ASSUME Drain(i), ss[i].writeCh # <<>> PROVE TakesChunk(i) /\ pc' = pc
  <2>1. \/ CanWrite(i) /\ ss' = [ss EXCEPT ![i].out = Append(@, Head(ss[i].writeCh)),
                                           ![i].writeCh = Tail(@)]
        \/ ss' = [ss EXCEPT ![i].writeCh = Tail(@), ![i].failed = Broken(i)]
    BY <1>2 DEF Drain
  <2>2. pc' = pc
    BY <1>2 DEF Drain
  <2> QED
    BY <2>1, <2>2, TakesFields
<1> QED
  BY <1>1, <1>2

\* The end of draining.
LEMMA DrainedFields ==
    ASSUME ObjectsOK, NEW i \in Streams, Drain(i), ss[i].writeCh = <<>>
    PROVE  /\ Others(i) /\ SameLine(i) /\ SameHistory(i) /\ SameHalf(i)
           /\ ss'[i].state = ss[i].state
           /\ \/ ss'[i].backend = ss[i].backend
              \/ /\ ss[i].backend = "open" /\ pc[Writer(i)] = "drainFin"
                 /\ ss'[i].backend = "finSent"
           /\ Goto(Writer(i), "done")
<1>1. /\ ss' = [ss EXCEPT ![i].backend =
            IF @ = "open" /\ pc[Writer(i)] = "drainFin" THEN "finSent" ELSE @]
      /\ Goto(Writer(i), "done")
  BY DEF Drain
<1> QED
  BY <1>1 DEF ObjectsOK, Object, Others, SameHistory, SameLine, SameHalf
-----------------------------------------------------------------------------
(***************************************************************************)
(* Types.                                                                  *)
(***************************************************************************)

\* The steps of the specification, one by one.
LEMMA NextCases ==
    Next <=>
        \/ LookUp
        \/ Store
        \/ LoadState
        \/ Pend
        \/ CheckWriteClosed
        \/ Enqueue
        \/ EnqueueTimeout
        \/ ClientClose
        \/ ClientCloseDone
        \/ Shutdown
        \/ TestChannel(Recv, "halfClose", "writeCloseCh", "halfClose2", "halfClosed")
        \/ CloseChannel(Recv, "halfClose2", "writeCloseCh", "halfClosed")
        \/ \E i \in Streams :
              \/ DialSucceeds(i)
              \/ DialFails(i)
              \/ DialFailed(i)
              \/ TakePending(i)
              \/ Flush(i)
              \/ Serve(i)
              \/ Unmap(i)
              \/ RemoveReliable(i)
              \/ WriteChunk(i)
              \/ WriterTold(i)
              \/ Drain(i)
              \/ SetDeadline(i)
              \/ ReadFails(i)
              \/ ReadData(i)
              \/ SendReply(i)
              \/ ReadEof(i)
              \/ SendClose(Run(i), "done")
              \/ SendClose(Reader(i), "close")
        \/ \E p \in Proc :
              \/ Claim(p)
              \/ TestChannel(p, "closeWrite", "writeCloseCh", "closeWrite2", "closeAll")
              \/ CloseChannel(p, "closeWrite2", "writeCloseCh", "closeAll")
              \/ TestChannel(p, "closeAll", "closeCh", "closeAll2", "closeConn")
              \/ CloseChannel(p, "closeAll2", "closeCh", "closeConn")
              \/ CloseBackend(p)
BY DEF Next, Handling, HalfClose, Connecting, Writing, Reading, Close

\* The object the receive loop works on was created.
LEMMA TargetBorn ==
    ASSUME AlwaysInv, pc[Recv] # "idle"
    PROVE  target[Recv] \in Streams /\ ss[target[Recv]].state # "unborn"
BY DEF AlwaysInv, TypeInv, TargetOK, OrderInv, LifeOK

\* So was the object of a goroutine in close.
LEMMA ClosingBorn ==
    ASSUME AlwaysInv, NEW p \in Proc, pc[p] \in Closing \/ (p = Recv /\ pc[p] # "idle")
    PROVE  StreamOf(p) \in Streams /\ ss[StreamOf(p)].state # "unborn"
<1>1. CASE p = Recv
  BY <1>1, TargetBorn, StreamOfFacts DEF Closing, PastClaim
<1>2. CASE p = Shut
  BY <1>2, ProcNames, StreamOfFacts DEF AlwaysInv, TypeInv, TargetOK, OrderInv, LifeOK
<1>3. CASE \E i \in Streams : p \in {Run(i), Writer(i), Reader(i)}
  <2>1. PICK i \in Streams : p \in {Run(i), Writer(i), Reader(i)}
    BY <1>3
  <2>2. StreamOf(p) = i
    BY <2>1, StreamOfFacts
  <2>3. pc[p] # "idle"
    BY <2>1, OwnNames DEF Closing, PastClaim
  <2>4. pc[Run(i)] # "idle"
    BY <2>1, <2>3 DEF AlwaysInv, OrderInv, LifeOK
  <2> QED
    BY <2>2, <2>4 DEF AlwaysInv, OrderInv, LifeOK
<1> QED
  BY <1>1, <1>2, <1>3, ProcCases

\* Whether a channel is closed is TRUE or FALSE.
LEMMA ChannelType ==
    ASSUME ObjectsOK, NEW i \in Streams
    PROVE  ss[i]["writeCloseCh"] \in BOOLEAN /\ ss[i]["closeCh"] \in BOOLEAN
BY DEF ObjectsOK, Object

\* Every goroutine goes from one of its labels to one of its labels.
LEMMA PcStep == AlwaysInv /\ [Next]_vars => PcOK'
<1> SUFFICES ASSUME AlwaysInv, [Next]_vars PROVE PcOK'
  OBVIOUS
<1> USE ProcNames, OwnNames, NamesDiffer
       DEF AlwaysInv, TypeInv, PcOK, At, Goto, Label, RecvLabel, ShutLabel, RunLabel,
           WriterLabel, ReaderLabel, InHand, Closing, PastClaim
<1>1. CASE LookUp
  BY <1>1 DEF LookUp
<1>2. CASE Store
  BY <1>2 DEF Store
<1>3. CASE LoadState
  <2>1. ss[target[Recv]].state \in {"connecting", "connected", "closed"}
    BY <1>3, TargetBorn DEF LoadState, ObjectsOK, Object
  <2>2. \E l \in {"idle", "lock", "check"} : Goto(Recv, l)
    BY <1>3, <2>1 DEF LoadState
  <2> QED
    BY <2>2
<1>4. CASE Pend
  BY <1>4 DEF Pend
<1>5. CASE CheckWriteClosed
  BY <1>5 DEF CheckWriteClosed
<1>6. CASE Enqueue
  BY <1>6 DEF Enqueue
<1>7. CASE EnqueueTimeout
  BY <1>7 DEF EnqueueTimeout
<1>8. CASE ClientClose
  BY <1>8 DEF ClientClose
<1>9. CASE ClientCloseDone
  BY <1>9 DEF ClientCloseDone
<1>10. CASE Shutdown
  BY <1>10 DEF Shutdown
<1>11. CASE TestChannel(Recv, "halfClose", "writeCloseCh", "halfClose2", "halfClosed")
  BY <1>11 DEF TestChannel
<1>12. CASE CloseChannel(Recv, "halfClose2", "writeCloseCh", "halfClosed")
  BY <1>12 DEF CloseChannel
<1>13. ASSUME NEW i \in Streams, DialSucceeds(i) PROVE PcOK'
  BY <1>13 DEF DialSucceeds
<1>14. ASSUME NEW i \in Streams, DialFails(i) PROVE PcOK'
  BY <1>14 DEF DialFails
<1>15. ASSUME NEW i \in Streams, DialFailed(i) PROVE PcOK'
  BY <1>15 DEF DialFailed
<1>16. ASSUME NEW i \in Streams, TakePending(i) PROVE PcOK'
  BY <1>16 DEF TakePending
<1>17. ASSUME NEW i \in Streams, Flush(i) PROVE PcOK'
  BY <1>17 DEF Flush
<1>18. ASSUME NEW i \in Streams, Serve(i) PROVE PcOK'
  BY <1>18 DEF Serve
<1>19. ASSUME NEW i \in Streams, Unmap(i) PROVE PcOK'
  BY <1>19 DEF Unmap
<1>20. ASSUME NEW i \in Streams, RemoveReliable(i) PROVE PcOK'
  BY <1>20 DEF RemoveReliable
<1>21. ASSUME NEW i \in Streams, WriteChunk(i) PROVE PcOK'
  BY <1>21 DEF WriteChunk
<1>22. ASSUME NEW i \in Streams, WriterTold(i) PROVE PcOK'
  BY <1>22 DEF WriterTold
<1>23. ASSUME NEW i \in Streams, Drain(i) PROVE PcOK'
  BY <1>23 DEF Drain
<1>24. ASSUME NEW i \in Streams, SetDeadline(i) PROVE PcOK'
  BY <1>24 DEF SetDeadline
<1>25. ASSUME NEW i \in Streams, ReadFails(i) PROVE PcOK'
  BY <1>25 DEF ReadFails
<1>26. ASSUME NEW i \in Streams, ReadData(i) PROVE PcOK'
  BY <1>26 DEF ReadData
<1>27. ASSUME NEW i \in Streams, SendReply(i) PROVE PcOK'
  BY <1>27 DEF SendReply
<1>28. ASSUME NEW i \in Streams, ReadEof(i) PROVE PcOK'
  BY <1>28 DEF ReadEof
<1>29. ASSUME NEW i \in Streams, SendClose(Run(i), "done") PROVE PcOK'
  BY <1>29 DEF SendClose
<1>30. ASSUME NEW i \in Streams, SendClose(Reader(i), "close") PROVE PcOK'
  BY <1>30 DEF SendClose
<1>31. ASSUME NEW p \in Proc, Claim(p) PROVE PcOK'
  BY <1>31, ProcCases DEF Claim, After
<1>32. ASSUME NEW p \in Proc, TestChannel(p, "closeWrite", "writeCloseCh", "closeWrite2", "closeAll")
       PROVE  PcOK'
  BY <1>32, ProcCases DEF TestChannel
<1>33. ASSUME NEW p \in Proc, CloseChannel(p, "closeWrite2", "writeCloseCh", "closeAll")
       PROVE  PcOK'
  BY <1>33, ProcCases DEF CloseChannel
<1>34. ASSUME NEW p \in Proc, TestChannel(p, "closeAll", "closeCh", "closeAll2", "closeConn")
       PROVE  PcOK'
  BY <1>34, ProcCases DEF TestChannel
<1>35. ASSUME NEW p \in Proc, CloseChannel(p, "closeAll2", "closeCh", "closeConn")
       PROVE  PcOK'
  BY <1>35, ProcCases DEF CloseChannel
<1>36. ASSUME NEW p \in Proc, CloseBackend(p) PROVE PcOK'
  BY <1>36, ProcCases DEF CloseBackend, After
<1>37. CASE UNCHANGED vars
  BY <1>37 DEF vars
<1> QED
  BY NextCases, <1>1, <1>2, <1>3, <1>4, <1>5, <1>6, <1>7, <1>8, <1>9, <1>10, <1>11, <1>12,
     <1>13, <1>14, <1>15, <1>16, <1>17, <1>18, <1>19, <1>20, <1>21, <1>22, <1>23, <1>24,
     <1>25, <1>26, <1>27, <1>28, <1>29, <1>30, <1>31, <1>32, <1>33, <1>34, <1>35, <1>36,
     <1>37

\* The map, the counters and the flags keep their types.
LEMMA VarsStep == AlwaysInv /\ [Next]_vars => VarsOK'
<1> SUFFICES ASSUME AlwaysInv, [Next]_vars PROVE VarsOK'
  OBVIOUS
<1> USE ProcNames, ServerAssumption DEF AlwaysInv, TypeInv, VarsOK, Streams, None, Made
<1>1. CASE LookUp
  BY <1>1 DEF LookUp
<1>2. CASE Store
  BY <1>2 DEF Store
<1>3. CASE LoadState
  BY <1>3 DEF LoadState
<1>4. CASE Pend
  BY <1>4 DEF Pend
<1>5. CASE CheckWriteClosed
  BY <1>5 DEF CheckWriteClosed
<1>6. CASE Enqueue
  BY <1>6 DEF Enqueue
<1>7. CASE EnqueueTimeout
  BY <1>7 DEF EnqueueTimeout
<1>8. CASE ClientClose
  BY <1>8 DEF ClientClose
<1>9. CASE ClientCloseDone
  BY <1>9 DEF ClientCloseDone
<1>10. CASE Shutdown
  BY <1>10 DEF Shutdown
<1>11. CASE TestChannel(Recv, "halfClose", "writeCloseCh", "halfClose2", "halfClosed")
  BY <1>11 DEF TestChannel
<1>12. CASE CloseChannel(Recv, "halfClose2", "writeCloseCh", "halfClosed")
  <2>1. StreamOf(Recv) \in Streams
    BY <1>12, ClosingBorn DEF CloseChannel, At, Closing, PastClaim
  <2>2. panicked' \in BOOLEAN
    BY <1>12, <2>1, ChannelType DEF CloseChannel
  <2> QED
    BY <1>12, <2>2 DEF CloseChannel
<1>13. ASSUME NEW i \in Streams, DialSucceeds(i) PROVE VarsOK'
  BY <1>13 DEF DialSucceeds
<1>14. ASSUME NEW i \in Streams, DialFails(i) PROVE VarsOK'
  BY <1>14 DEF DialFails
<1>15. ASSUME NEW i \in Streams, DialFailed(i) PROVE VarsOK'
  BY <1>15 DEF DialFailed
<1>16. ASSUME NEW i \in Streams, TakePending(i) PROVE VarsOK'
  BY <1>16 DEF TakePending
<1>17. ASSUME NEW i \in Streams, Flush(i) PROVE VarsOK'
  BY <1>17 DEF Flush
<1>18. ASSUME NEW i \in Streams, Serve(i) PROVE VarsOK'
  BY <1>18 DEF Serve
<1>19. ASSUME NEW i \in Streams, Unmap(i) PROVE VarsOK'
  BY <1>19 DEF Unmap
<1>20. ASSUME NEW i \in Streams, RemoveReliable(i) PROVE VarsOK'
  BY <1>20 DEF RemoveReliable
<1>21. ASSUME NEW i \in Streams, WriteChunk(i) PROVE VarsOK'
  BY <1>21 DEF WriteChunk
<1>22. ASSUME NEW i \in Streams, WriterTold(i) PROVE VarsOK'
  BY <1>22 DEF WriterTold
<1>23. ASSUME NEW i \in Streams, Drain(i) PROVE VarsOK'
  BY <1>23 DEF Drain
<1>24. ASSUME NEW i \in Streams, SetDeadline(i) PROVE VarsOK'
  BY <1>24 DEF SetDeadline
<1>25. ASSUME NEW i \in Streams, ReadFails(i) PROVE VarsOK'
  BY <1>25 DEF ReadFails
<1>26. ASSUME NEW i \in Streams, ReadData(i) PROVE VarsOK'
  BY <1>26 DEF ReadData
<1>27. ASSUME NEW i \in Streams, SendReply(i) PROVE VarsOK'
  BY <1>27 DEF SendReply
<1>28. ASSUME NEW i \in Streams, ReadEof(i) PROVE VarsOK'
  BY <1>28 DEF ReadEof
<1>29. ASSUME NEW i \in Streams, SendClose(Run(i), "done") PROVE VarsOK'
  BY <1>29 DEF SendClose
<1>30. ASSUME NEW i \in Streams, SendClose(Reader(i), "close") PROVE VarsOK'
  BY <1>30 DEF SendClose
<1>31. ASSUME NEW p \in Proc, Claim(p) PROVE VarsOK'
  BY <1>31 DEF Claim
<1>32. ASSUME NEW p \in Proc, TestChannel(p, "closeWrite", "writeCloseCh", "closeWrite2", "closeAll")
       PROVE  VarsOK'
  BY <1>32 DEF TestChannel
<1>33. ASSUME NEW p \in Proc, CloseChannel(p, "closeWrite2", "writeCloseCh", "closeAll")
       PROVE  VarsOK'
  <2>1. StreamOf(p) \in Streams
    BY <1>33, ClosingBorn DEF CloseChannel, At, Closing, PastClaim
  <2>2. panicked' \in BOOLEAN
    BY <1>33, <2>1, ChannelType DEF CloseChannel
  <2> QED
    BY <1>33, <2>2 DEF CloseChannel
<1>34. ASSUME NEW p \in Proc, TestChannel(p, "closeAll", "closeCh", "closeAll2", "closeConn")
       PROVE  VarsOK'
  BY <1>34 DEF TestChannel
<1>35. ASSUME NEW p \in Proc, CloseChannel(p, "closeAll2", "closeCh", "closeConn")
       PROVE  VarsOK'
  <2>1. StreamOf(p) \in Streams
    BY <1>35, ClosingBorn DEF CloseChannel, At, Closing, PastClaim
  <2>2. panicked' \in BOOLEAN
    BY <1>35, <2>1, ChannelType DEF CloseChannel
  <2> QED
    BY <1>35, <2>2 DEF CloseChannel
<1>36. ASSUME NEW p \in Proc, CloseBackend(p) PROVE VarsOK'
  BY <1>36 DEF CloseBackend
<1>37. CASE UNCHANGED vars
  BY <1>37 DEF vars
<1> QED
  BY NextCases, <1>1, <1>2, <1>3, <1>4, <1>5, <1>6, <1>7, <1>8, <1>9, <1>10, <1>11, <1>12,
     <1>13, <1>14, <1>15, <1>16, <1>17, <1>18, <1>19, <1>20, <1>21, <1>22, <1>23, <1>24,
     <1>25, <1>26, <1>27, <1>28, <1>29, <1>30, <1>31, <1>32, <1>33, <1>34, <1>35, <1>36,
     <1>37

\* A goroutine that works on an object has one, and a chunk has a number.
LEMMA TargetStep == AlwaysInv /\ [Next]_vars => TargetOK'
<1> SUFFICES ASSUME AlwaysInv, [Next]_vars PROVE TargetOK'
  OBVIOUS
<1> USE ProcNames, OwnNames, TargetBorn, ServerAssumption
       DEF AlwaysInv, TypeInv, PcOK, VarsOK, TargetOK, At, Goto, InHand, Closing, PastClaim
<1>1. CASE LookUp
  BY <1>1 DEF LookUp
<1>2. CASE Store
  BY <1>2 DEF Store
<1>3. CASE LoadState
  BY <1>3 DEF LoadState
<1>4. CASE Pend
  BY <1>4 DEF Pend
<1>5. CASE CheckWriteClosed
  BY <1>5 DEF CheckWriteClosed
<1>6. CASE Enqueue
  BY <1>6 DEF Enqueue
<1>7. CASE EnqueueTimeout
  BY <1>7 DEF EnqueueTimeout
<1>8. CASE ClientClose
  BY <1>8 DEF ClientClose
<1>9. CASE ClientCloseDone
  BY <1>9 DEF ClientCloseDone
<1>10. CASE Shutdown
  BY <1>10 DEF Shutdown
<1>11. CASE TestChannel(Recv, "halfClose", "writeCloseCh", "halfClose2", "halfClosed")
  BY <1>11 DEF TestChannel
<1>12. CASE CloseChannel(Recv, "halfClose2", "writeCloseCh", "halfClosed")
  BY <1>12 DEF CloseChannel
<1>13. ASSUME NEW i \in Streams, DialSucceeds(i) PROVE TargetOK'
  BY <1>13 DEF DialSucceeds
<1>14. ASSUME NEW i \in Streams, DialFails(i) PROVE TargetOK'
  BY <1>14 DEF DialFails
<1>15. ASSUME NEW i \in Streams, DialFailed(i) PROVE TargetOK'
  BY <1>15 DEF DialFailed
<1>16. ASSUME NEW i \in Streams, TakePending(i) PROVE TargetOK'
  BY <1>16 DEF TakePending
<1>17. ASSUME NEW i \in Streams, Flush(i) PROVE TargetOK'
  BY <1>17 DEF Flush
<1>18. ASSUME NEW i \in Streams, Serve(i) PROVE TargetOK'
  BY <1>18 DEF Serve
<1>19. ASSUME NEW i \in Streams, Unmap(i) PROVE TargetOK'
  BY <1>19 DEF Unmap
<1>20. ASSUME NEW i \in Streams, RemoveReliable(i) PROVE TargetOK'
  BY <1>20 DEF RemoveReliable
<1>21. ASSUME NEW i \in Streams, WriteChunk(i) PROVE TargetOK'
  BY <1>21 DEF WriteChunk
<1>22. ASSUME NEW i \in Streams, WriterTold(i) PROVE TargetOK'
  BY <1>22 DEF WriterTold
<1>23. ASSUME NEW i \in Streams, Drain(i) PROVE TargetOK'
  BY <1>23 DEF Drain
<1>24. ASSUME NEW i \in Streams, SetDeadline(i) PROVE TargetOK'
  BY <1>24 DEF SetDeadline
<1>25. ASSUME NEW i \in Streams, ReadFails(i) PROVE TargetOK'
  BY <1>25 DEF ReadFails
<1>26. ASSUME NEW i \in Streams, ReadData(i) PROVE TargetOK'
  BY <1>26 DEF ReadData
<1>27. ASSUME NEW i \in Streams, SendReply(i) PROVE TargetOK'
  BY <1>27 DEF SendReply
<1>28. ASSUME NEW i \in Streams, ReadEof(i) PROVE TargetOK'
  BY <1>28 DEF ReadEof
<1>29. ASSUME NEW i \in Streams, SendClose(Run(i), "done") PROVE TargetOK'
  BY <1>29 DEF SendClose
<1>30. ASSUME NEW i \in Streams, SendClose(Reader(i), "close") PROVE TargetOK'
  BY <1>30 DEF SendClose
<1>31. ASSUME NEW p \in Proc, Claim(p) PROVE TargetOK'
  BY <1>31 DEF Claim, After
<1>32. ASSUME NEW p \in Proc, TestChannel(p, "closeWrite", "writeCloseCh", "closeWrite2", "closeAll")
       PROVE  TargetOK'
  BY <1>32 DEF TestChannel
<1>33. ASSUME NEW p \in Proc, CloseChannel(p, "closeWrite2", "writeCloseCh", "closeAll")
       PROVE  TargetOK'
  BY <1>33 DEF CloseChannel
<1>34. ASSUME NEW p \in Proc, TestChannel(p, "closeAll", "closeCh", "closeAll2", "closeConn")
       PROVE  TargetOK'
  BY <1>34 DEF TestChannel
<1>35. ASSUME NEW p \in Proc, CloseChannel(p, "closeAll2", "closeCh", "closeConn")
       PROVE  TargetOK'
  BY <1>35 DEF CloseChannel
<1>36. ASSUME NEW p \in Proc, CloseBackend(p) PROVE TargetOK'
  BY <1>36 DEF CloseBackend, After
<1>37. CASE UNCHANGED vars
  BY <1>37 DEF vars
<1> QED
  BY NextCases, <1>1, <1>2, <1>3, <1>4, <1>5, <1>6, <1>7, <1>8, <1>9, <1>10, <1>11, <1>12,
     <1>13, <1>14, <1>15, <1>16, <1>17, <1>18, <1>19, <1>20, <1>21, <1>22, <1>23, <1>24,
     <1>25, <1>26, <1>27, <1>28, <1>29, <1>30, <1>31, <1>32, <1>33, <1>34, <1>35, <1>36,
     <1>37

\* Chunks by their numbers.
Chunk == 1 .. Chunks

\* The chunk in hand has a number.
LEMMA CallsType ==
    ASSUME AlwaysInv, pc[Recv] \in InHand PROVE calls \in Chunk
BY ServerAssumption DEF AlwaysInv, TypeInv, TargetOK, VarsOK, Chunk

\* The types of the fields of an object.
LEMMA ObjectFields ==
    ASSUME ObjectsOK, NEW i \in Streams
    PROVE  /\ ss[i] \in Object /\ Len(ss[i].writeCh) <= WriteCap
           /\ ss[i].pending \in Seq(Chunk) /\ ss[i].writeCh \in Seq(Chunk)
           /\ ss[i].flush \in Seq(Chunk) /\ ss[i].got \in Seq(Chunk)
           /\ ss[i].out \in Seq(Chunk) /\ ss[i].failed \in BOOLEAN
           /\ ss[i].clientCloseRecv \in BOOLEAN /\ ss[i].due \in Nat
           /\ ss[i].backend \in {"nil", "open", "finSent", "closed"}
           /\ ss[i].state \in {"unborn", "connecting", "connected", "closed"}
BY DEF ObjectsOK, Object, Chunk

\* A sequence without its first element, and one with another at its end.
LEMMA SeqTypes ==
    ASSUME NEW S, NEW s \in Seq(S), NEW c \in S
    PROVE  /\ Append(s, c) \in Seq(S) /\ Len(Append(s, c)) = Len(s) + 1
           /\ s # <<>> => Tail(s) \in Seq(S) /\ Len(Tail(s)) = Len(s) - 1 /\ Head(s) \in S
OBVIOUS

\* What is left of a queue when its first element is taken.
LEMMA TailType ==
    ASSUME NEW S, NEW w \in Seq(S), w # <<>>
    PROVE  /\ Tail(w) \in Seq(S) /\ Head(w) \in S
           /\ Len(Tail(w)) = Len(w) - 1 /\ Len(w) \in Nat
OBVIOUS

\* Taking a chunk from the queue keeps the type of the object.
LEMMA WriteTypes ==
    ASSUME ObjectsOK, NEW i \in Streams, ss[i].writeCh # <<>>
    PROVE  /\ Written(i) \in Object /\ Len(Written(i).writeCh) <= WriteCap
           /\ Dropped(i) \in Object /\ Len(Dropped(i).writeCh) <= WriteCap
<1>0. ss[i].writeCh \in Seq(Chunk) /\ Len(ss[i].writeCh) <= WriteCap
  BY ObjectFields
<1>1. /\ Tail(ss[i].writeCh) \in Seq(Chunk) /\ Head(ss[i].writeCh) \in Chunk
      /\ Len(Tail(ss[i].writeCh)) <= WriteCap
  <2>1. /\ Tail(ss[i].writeCh) \in Seq(Chunk) /\ Head(ss[i].writeCh) \in Chunk
        /\ Len(Tail(ss[i].writeCh)) = Len(ss[i].writeCh) - 1 /\ Len(ss[i].writeCh) \in Nat
    BY <1>0, TailType
  <2> QED
    BY <1>0, <2>1, ServerAssumption
<1>2. Append(ss[i].out, Head(ss[i].writeCh)) \in Seq(Chunk)
  BY <1>1, ObjectFields
<1>3. Broken(i) \in BOOLEAN
  BY ObjectFields DEF Broken
<1> QED
  BY <1>1, <1>2, <1>3, ObjectFields DEF Object, Chunk, Written, Dropped

\* The objects keep their types, and no queue grows beyond its capacity.
LEMMA ObjectsStep == AlwaysInv /\ [Next]_vars => ObjectsOK'
<1> SUFFICES ASSUME AlwaysInv, [Next]_vars PROVE ObjectsOK'
  OBVIOUS
<1> ObjectsOK /\ VarsOK
  BY DEF AlwaysInv, TypeInv
<1> USE DEF AlwaysInv, TypeInv, ObjectsOK
<1>1. CASE LookUp
  <2>1. CASE ss' = ss
    BY <2>1
  <2>2. ASSUME NEW i \in Streams, Becomes(i, [ss[i] EXCEPT !.state = "connecting"])
        PROVE  ObjectsOK'
    <3> DEFINE x == [ss[i] EXCEPT !.state = "connecting"]
    <3>1. x \in Object /\ Len(x.writeCh) <= WriteCap
      BY ObjectFields DEF Object, Chunk
    <3> QED
      BY <2>2, <3>1, BecomesFacts
  <2> QED
    BY <1>1, <2>1, <2>2, LookUpEffect
<1>2. CASE Store
  BY <1>2 DEF Store
<1>3. CASE LoadState
  <2>1. PICK i \in Streams : i = target[Recv]
    BY <1>3, TargetBorn DEF LoadState, At
  <2>2. calls \in Chunk
    BY <1>3, CallsType DEF LoadState, At, InHand
  <2> DEFINE x == [ss[i] EXCEPT !.got = Append(@, calls)]
  <2>3. x \in Object
    BY ZenonT(30), <2>2, ObjectFields, SeqTypes DEF Object, Chunk
  <2>4. Len(x.writeCh) <= WriteCap
    BY ObjectFields DEF Object, Chunk
  <2> QED
    BY <1>3, <2>1, <2>3, <2>4, LoadStateEffect, BecomesFacts
<1>4. CASE Pend
  <2>1. PICK i \in Streams : i = target[Recv]
    BY <1>4, TargetBorn DEF Pend, At
  <2>2. calls \in Chunk
    BY <1>4, CallsType DEF Pend, At, InHand
  <2> DEFINE x == [ss[i] EXCEPT !.pending = Append(@, calls)]
  <2>3. x \in Object
    BY ZenonT(30), <2>2, ObjectFields, SeqTypes DEF Object, Chunk
  <2>4. Len(x.writeCh) <= WriteCap
    BY ObjectFields DEF Object, Chunk
  <2>5. CASE ss' = ss
    BY <2>5
  <2> QED
    BY <1>4, <2>1, <2>3, <2>4, <2>5, PendEffect, BecomesFacts
<1>5. CASE CheckWriteClosed
  BY <1>5 DEF CheckWriteClosed
<1>6. CASE Enqueue
  <2>1. PICK i \in Streams : i = target[Recv]
    BY <1>6, TargetBorn DEF Enqueue, At
  <2>2. calls \in Chunk
    BY <1>6, CallsType DEF Enqueue, At, InHand
  <2> DEFINE x == [ss[i] EXCEPT !.writeCh = Append(@, calls)]
  <2>3. x \in Object
    BY ZenonT(30), <2>2, ObjectFields, SeqTypes DEF Object, Chunk
  <2>4. Len(x.writeCh) <= WriteCap
    <3>1. Len(ss[i].writeCh) < WriteCap
      BY <1>6, <2>1 DEF Enqueue
    <3>2. x.writeCh = Append(ss[i].writeCh, calls)
      BY ObjectFields DEF Object, Chunk
    <3>3. Len(x.writeCh) = Len(ss[i].writeCh) + 1 /\ Len(ss[i].writeCh) \in Nat
      BY <2>2, <3>2, ObjectFields, SeqTypes
    <3> QED
      BY <3>1, <3>3, ServerAssumption
  <2> QED
    BY <1>6, <2>1, <2>3, <2>4, EnqueueEffect, BecomesFacts
<1>7. CASE EnqueueTimeout
  BY <1>7 DEF EnqueueTimeout
<1>8. CASE ClientClose
  <2>1. CASE ss' = ss
    BY <2>1
  <2>2. ASSUME NEW i \in Streams, Becomes(i, Noted(i)) PROVE ObjectsOK'
    <3>1. Len(ss[i].got) \in Nat
      BY ObjectFields
    <3>2. Noted(i) \in Object /\ Len(Noted(i).writeCh) <= WriteCap
      BY <3>1, ObjectFields DEF Object, Chunk, Noted
    <3> QED
      BY <2>2, <3>2, BecomesFacts
  <2> QED
    BY <1>8, <2>1, <2>2, ClientCloseEffect
<1>9. CASE ClientCloseDone
  BY <1>9 DEF ClientCloseDone
<1>10. CASE Shutdown
  BY <1>10 DEF Shutdown
<1>11. CASE TestChannel(Recv, "halfClose", "writeCloseCh", "halfClose2", "halfClosed")
  BY <1>11 DEF TestChannel
<1>12. CASE CloseChannel(Recv, "halfClose2", "writeCloseCh", "halfClosed")
  <2>1. PICK i \in Streams : i = StreamOf(Recv)
    BY <1>12, ClosingBorn, ProcNames DEF CloseChannel, At, Closing, PastClaim
  <2> DEFINE x == [ss[i] EXCEPT !.writeCloseCh = TRUE]
  <2>2. x \in Object /\ Len(x.writeCh) <= WriteCap
    BY ObjectFields DEF Object, Chunk
  <2> QED
    BY <1>12, <2>1, <2>2, CloseChannelEffect, BecomesFacts
<1>13. ASSUME NEW i \in Streams, DialSucceeds(i) PROVE ObjectsOK'
  <2> DEFINE x == [ss[i] EXCEPT !.backend = "open"]
  <2>1. x \in Object /\ Len(x.writeCh) <= WriteCap
    BY ZenonT(30), ObjectFields DEF Object, Chunk
  <2> QED
    BY <1>13, <2>1, DialEffect, BecomesFacts
<1>14. ASSUME NEW i \in Streams, DialFails(i) PROVE ObjectsOK'
  <2> DEFINE x == [ss[i] EXCEPT !.state = "closed"]
  <2>1. x \in Object /\ Len(x.writeCh) <= WriteCap
    BY ObjectFields DEF Object, Chunk
  <2> QED
    BY <1>14, <2>1, DialEffect, BecomesFacts
<1>15. ASSUME NEW i \in Streams, DialFailed(i) PROVE ObjectsOK'
  BY <1>15 DEF DialFailed
<1>16. ASSUME NEW i \in Streams, TakePending(i) PROVE ObjectsOK'
  <2> DEFINE x == [ss[i] EXCEPT !.flush = ss[i].pending, !.pending = <<>>,
                                  !.state = "connected"]
  <2>0. <<>> \in Seq(Chunk)
    OBVIOUS
  <2>1. x \in Object /\ Len(x.writeCh) <= WriteCap
    BY ZenonT(30), <2>0, ObjectFields DEF Object, Chunk
  <2> QED
    BY <1>16, <2>1, DialEffect, BecomesFacts
<1>17. ASSUME NEW i \in Streams, Flush(i) PROVE ObjectsOK'
  <2> DEFINE x == [ss[i] EXCEPT !.out = Append(@, Head(ss[i].flush)), !.flush = Tail(@)]
             y == [ss[i] EXCEPT !.failed = Broken(i)]
  <2>1. ss[i].flush # <<>>
    BY <1>17 DEF Flush
  <2>2. x \in Object /\ Len(x.writeCh) <= WriteCap
    <3>1. /\ Tail(ss[i].flush) \in Seq(Chunk) /\ Head(ss[i].flush) \in Chunk
          /\ ss[i].out \in Seq(Chunk)
      BY <2>1, ObjectFields, TailType
    <3>2. Append(ss[i].out, Head(ss[i].flush)) \in Seq(Chunk)
      BY <3>1
    <3> QED
      BY ZenonT(30), <3>1, <3>2, ObjectFields DEF Object, Chunk
  <2>3. y \in Object /\ Len(y.writeCh) <= WriteCap
    BY ObjectFields DEF Object, Chunk, Broken
  <2> QED
    BY <1>17, <2>2, <2>3, FlushEffect, BecomesFacts
<1>18. ASSUME NEW i \in Streams, Serve(i) PROVE ObjectsOK'
  BY <1>18 DEF Serve
<1>19. ASSUME NEW i \in Streams, Unmap(i) PROVE ObjectsOK'
  BY <1>19 DEF Unmap
<1>20. ASSUME NEW i \in Streams, RemoveReliable(i) PROVE ObjectsOK'
  BY <1>20 DEF RemoveReliable
<1>21. ASSUME NEW i \in Streams, WriteChunk(i) PROVE ObjectsOK'
  <2>1. ss[i].writeCh # <<>>
    BY <1>21 DEF WriteChunk
  <2> QED
    BY <1>21, <2>1, WriteTypes, WriteEffect, BecomesFacts
<1>22. ASSUME NEW i \in Streams, WriterTold(i) PROVE ObjectsOK'
  BY <1>22 DEF WriterTold
<1>23. ASSUME NEW i \in Streams, Drain(i) PROVE ObjectsOK'
  <2>1. CASE ss[i].writeCh # <<>>
    BY <1>23, <2>1, WriteTypes, WriteEffect, BecomesFacts
  <2>2. CASE ss[i].writeCh = <<>>
    <3> DEFINE x == [ss[i] EXCEPT !.backend =
                       IF @ = "open" /\ pc[Writer(i)] = "drainFin" THEN "finSent" ELSE @]
    <3>1. x \in Object /\ Len(x.writeCh) <= WriteCap
      BY ZenonT(30), ObjectFields DEF Object, Chunk
    <3> QED
      BY <1>23, <2>2, <3>1, WriteEffect, BecomesFacts
  <2> QED
    BY <2>1, <2>2
<1>24. ASSUME NEW i \in Streams, SetDeadline(i) PROVE ObjectsOK'
  <2> DEFINE x == [ss[i] EXCEPT !.deadline = ss[i].clientCloseRecv]
  <2>1. x \in Object /\ Len(x.writeCh) <= WriteCap
    BY ObjectFields DEF Object, Chunk
  <2> QED
    BY <1>24, <2>1, DeadlineEffect, BecomesFacts
<1>25. ASSUME NEW i \in Streams, ReadFails(i) PROVE ObjectsOK'
  BY <1>25 DEF ReadFails
<1>26. ASSUME NEW i \in Streams, ReadData(i) PROVE ObjectsOK'
  <2> DEFINE x == [ss[i] EXCEPT !.deadline = FALSE]
  <2>1. x \in Object /\ Len(x.writeCh) <= WriteCap
    BY ZenonT(30), ObjectFields DEF Object, Chunk
  <2> QED
    BY <1>26, <2>1, DeadlineEffect, BecomesFacts
<1>27. ASSUME NEW i \in Streams, SendReply(i) PROVE ObjectsOK'
  BY <1>27 DEF SendReply
<1>28. ASSUME NEW i \in Streams, ReadEof(i) PROVE ObjectsOK'
  BY <1>28 DEF ReadEof
<1>29. ASSUME NEW i \in Streams, SendClose(Run(i), "done") PROVE ObjectsOK'
  BY <1>29 DEF SendClose
<1>30. ASSUME NEW i \in Streams, SendClose(Reader(i), "close") PROVE ObjectsOK'
  BY <1>30 DEF SendClose
<1>31. ASSUME NEW p \in Proc, Claim(p) PROVE ObjectsOK'
  <2>1. PICK i \in Streams : i = StreamOf(p)
    BY <1>31, ClosingBorn, ProcNames DEF Claim, At, Closing, PastClaim
  <2> DEFINE x == [ss[i] EXCEPT !.state = "closed"]
  <2>2. x \in Object /\ Len(x.writeCh) <= WriteCap
    BY ObjectFields DEF Object, Chunk
  <2> QED
    BY <1>31, <2>1, <2>2, CloseEffect, BecomesFacts
<1>32. ASSUME NEW p \in Proc, TestChannel(p, "closeWrite", "writeCloseCh", "closeWrite2", "closeAll")
       PROVE  ObjectsOK'
  BY <1>32 DEF TestChannel
<1>33. ASSUME NEW p \in Proc, CloseChannel(p, "closeWrite2", "writeCloseCh", "closeAll")
       PROVE  ObjectsOK'
  <2>1. PICK i \in Streams : i = StreamOf(p)
    BY <1>33, ClosingBorn, ProcNames DEF CloseChannel, At, Closing, PastClaim
  <2> DEFINE x == [ss[i] EXCEPT !.writeCloseCh = TRUE]
  <2>2. x \in Object /\ Len(x.writeCh) <= WriteCap
    BY ObjectFields DEF Object, Chunk
  <2> QED
    BY <1>33, <2>1, <2>2, CloseChannelEffect, BecomesFacts
<1>34. ASSUME NEW p \in Proc, TestChannel(p, "closeAll", "closeCh", "closeAll2", "closeConn")
       PROVE  ObjectsOK'
  BY <1>34 DEF TestChannel
<1>35. ASSUME NEW p \in Proc, CloseChannel(p, "closeAll2", "closeCh", "closeConn")
       PROVE  ObjectsOK'
  <2>1. PICK i \in Streams : i = StreamOf(p)
    BY <1>35, ClosingBorn, ProcNames DEF CloseChannel, At, Closing, PastClaim
  <2> DEFINE x == [ss[i] EXCEPT !.closeCh = TRUE]
  <2>2. x \in Object /\ Len(x.writeCh) <= WriteCap
    BY ObjectFields DEF Object, Chunk
  <2> QED
    BY <1>35, <2>1, <2>2, CloseChannelEffect, BecomesFacts
<1>36. ASSUME NEW p \in Proc, CloseBackend(p) PROVE ObjectsOK'
  <2>1. PICK i \in Streams : i = StreamOf(p)
    BY <1>36, ClosingBorn, ProcNames DEF CloseBackend, At, Closing, PastClaim
  <2> DEFINE x == [ss[i] EXCEPT !.backend = IF @ = "nil" THEN @ ELSE "closed"]
  <2>2. x \in Object /\ Len(x.writeCh) <= WriteCap
    BY ObjectFields DEF Object, Chunk
  <2> QED
    BY <1>36, <2>1, <2>2, CloseEffect, BecomesFacts
<1>37. CASE UNCHANGED vars
  BY <1>37 DEF vars
<1> QED
  BY NextCases, <1>1, <1>2, <1>3, <1>4, <1>5, <1>6, <1>7, <1>8, <1>9, <1>10, <1>11, <1>12,
     <1>13, <1>14, <1>15, <1>16, <1>17, <1>18, <1>19, <1>20, <1>21, <1>22, <1>23, <1>24,
     <1>25, <1>26, <1>27, <1>28, <1>29, <1>30, <1>31, <1>32, <1>33, <1>34, <1>35, <1>36,
     <1>37
-----------------------------------------------------------------------------
(***************************************************************************)
(* The life of an object.                                                  *)
(***************************************************************************)

\* The record of object k keeps the fields that say how far it is.
KeepsLife(k) ==
    ss'[k].state = ss[k].state /\ SameLine(k) /\ ss'[k].got = ss[k].got
SamePlaces(k) ==
    pc'[Run(k)] = pc[Run(k)] /\ pc'[Writer(k)] = pc[Writer(k)] /\ pc'[Reader(k)] = pc[Reader(k)]

\* An object whose record and goroutines stay as they are.
LEMMA LifeKept ==
    ASSUME NEW k \in Streams, LifeOK(k), KeepsLife(k), SamePlaces(k),
           target'[Recv] = target[Recv] \/ target'[Recv] # k \/ ss[k].state # "unborn",
           target'[Shut] = target[Shut] \/ target'[Shut] # k \/ ss[k].state # "unborn",
           entry' = entry \/ entry' # k \/ ss[k].state # "unborn",
           \/ pc'[Recv] \notin {"check", "send"}
           \/ pc'[Recv] = pc[Recv] /\ target'[Recv] = target[Recv]
           \/ target'[Recv] # k
           \/ ss[k].state # "connecting"
    PROVE  LifeOK(k)'
BY DEF LifeOK, KeepsLife, SameLine, SamePlaces

\* What the label of connectAndRun tells of an object.
LEMMA LifeStep == AlwaysInv /\ [Next]_vars => \A k \in Streams : LifeOK(k)'
<1> SUFFICES ASSUME AlwaysInv, [Next]_vars PROVE \A k \in Streams : LifeOK(k)'
  OBVIOUS
<1> SUFFICES ASSUME NEW k \in Streams PROVE LifeOK(k)'
  OBVIOUS
<1> TypeInv /\ ObjectsOK /\ PcOK /\ VarsOK /\ TargetOK /\ ObjectsOK'
  BY ObjectsStep DEF AlwaysInv, TypeInv
<1> \A i \in Streams : LifeOK(i)
  BY DEF AlwaysInv, OrderInv
<1>1. CASE LookUp
  <2>1. CASE ss' = ss /\ entry # None
    <3>1. /\ UNCHANGED entry /\ target'[Shut] = target[Shut]
          /\ \A q \in Proc : q # Recv => pc'[q] = pc[q]
          /\ pc'[Recv] \notin {"check", "send"} /\ target'[Recv] = entry
      BY <1>1, <2>1, ProcNames DEF LookUp, PcOK, VarsOK, At, Goto
    <3> QED
      BY <2>1, <3>1, ProcNames, OwnNames, LifeKept
         DEF LifeOK, KeepsLife, SameLine, SamePlaces
  <2>2. CASE entry = None
    <3>1. PICK i \in Streams :
             /\ ss' = [ss EXCEPT ![i].state = "connecting"]
             /\ target' = [target EXCEPT ![Recv] = i]
             /\ pc' = [pc EXCEPT ![Recv] = "created", ![Run(i)] = "dial"]
             /\ Fresh(i) /\ entry' = entry
      BY <1>1, <2>2 DEF LookUp
    <3>2. /\ ss[i].state = "unborn" /\ entry' \notin Streams
          /\ target'[Recv] = i /\ target'[Shut] = target[Shut]
          /\ pc'[Recv] = "created" /\ pc'[Run(i)] = "dial"
          /\ \A q \in Proc : q \notin {Recv, Run(i)} => pc'[q] = pc[q]
      BY <2>2, <3>1, ProcNames, OwnNames DEF Fresh, PcOK, VarsOK, Streams, None
    <3>3. CASE k # i
      <4>1. ss'[k] = ss[k]
        BY <3>1, <3>3 DEF ObjectsOK
      <4>2. KeepsLife(k) /\ SamePlaces(k)
        BY <3>2, <3>3, <4>1, ProcNames, OwnNames, NamesDiffer
           DEF KeepsLife, SameLine, SamePlaces
      <4> QED
        BY <3>2, <3>3, <4>2, LifeKept
    <3>4. CASE k = i
      <4>1. /\ ss'[i].state = "connecting" /\ ss'[i].writeCh = ss[i].writeCh
            /\ ss'[i].out = ss[i].out /\ ss'[i].flush = ss[i].flush
        BY <3>1, CreateFields DEF SameLine
      <4>2. pc'[Writer(i)] = pc[Writer(i)] /\ pc'[Reader(i)] = pc[Reader(i)]
        BY <3>2, ProcNames, OwnNames, NamesDiffer
      <4> QED
        BY <3>2, <3>4, <4>1, <4>2 DEF LifeOK
    <3> QED
      BY <3>3, <3>4
  <2> QED
    BY <1>1, <2>1, <2>2, LookUpEffect
<1>2. CASE Store
  BY <1>2, ProcNames, OwnNames, NamesDiffer DEF Store, PcOK, LifeOK, At, Goto
<1>3. CASE LoadState
  BY SMTT(30), <1>3, ProcNames, OwnNames, NamesDiffer, BecomesFacts, ObjectFields, LoadStateEffect,
     TargetBorn DEF LoadState, PcOK, LifeOK, At, Goto, Object
<1>4. CASE Pend
  <2>1. PICK i \in Streams : i = target[Recv]
    BY <1>4, TargetBorn DEF Pend, At
  <2>2. /\ UNCHANGED <<entry, target>> /\ \A q \in Proc : q # Recv => pc'[q] = pc[q]
        /\ pc'[Recv] = "idle" \/ ss[i].state # "connecting"
    BY <1>4, <2>1, ProcNames DEF Pend, PcOK, At, Goto, LifeOK
  <2>3. SamePlaces(k)
    BY <2>2, ProcNames, OwnNames DEF SamePlaces
  <2>4. CASE k # i \/ ss' = ss
    <3>1. KeepsLife(k)
      BY <1>4, <2>1, <2>4, PendFields, PendEffect DEF KeepsLife, SameLine, Others
    <3> QED
      BY <2>1, <2>2, <2>3, <3>1, LifeKept
  <2>5. CASE k = i /\ ss' # ss
    <3>1. /\ ss'[i].state = ss[i].state /\ ss'[i].out = ss[i].out /\ ss'[i].flush = ss[i].flush
          /\ ss'[i].writeCh = ss[i].writeCh
      BY <1>4, <2>1, <2>5, PendFields, PendEffect DEF SameLife
    <3>2. ss[i].state = "connecting"
      BY <1>4, <2>1, <2>2, <2>5, PendFields, PendEffect DEF Pend, At, LifeOK
    <3>3. ss[i].state # "unborn"
      BY <1>4, <2>1, TargetBorn DEF Pend, At
    <3> QED
      BY <2>2, <2>3, <2>5, <3>1, <3>2, <3>3 DEF LifeOK, SamePlaces
  <2> QED
    BY <2>4, <2>5
<1>5. CASE CheckWriteClosed
  BY <1>5, ProcNames, OwnNames, NamesDiffer DEF CheckWriteClosed, PcOK, LifeOK, At, Goto
<1>6. CASE Enqueue
  <2>1. PICK i \in Streams : i = target[Recv]
    BY <1>6, TargetBorn DEF Enqueue, At
  <2>2. /\ UNCHANGED <<entry, target>> /\ \A q \in Proc : q # Recv => pc'[q] = pc[q]
        /\ pc'[Recv] = "idle" \/ ss[i].state # "connecting"
    BY <1>6, <2>1, ProcNames DEF Enqueue, PcOK, At, Goto, LifeOK
  <2>3. SamePlaces(k)
    BY <2>2, ProcNames, OwnNames DEF SamePlaces
  <2>4. CASE k # i \/ ss' = ss
    <3>1. KeepsLife(k)
      BY <1>6, <2>1, <2>4, EnqueueFields DEF KeepsLife, SameLine, Others
    <3> QED
      BY <2>1, <2>2, <2>3, <3>1, LifeKept
  <2>5. CASE k = i /\ ss' # ss
    <3>1. /\ ss'[i].state = ss[i].state /\ ss'[i].out = ss[i].out /\ ss'[i].flush = ss[i].flush
          /\ ss'[i].pending = ss[i].pending
      BY <1>6, <2>1, <2>5, EnqueueFields DEF SameLife
    <3>2. ss[i].state # "connecting"
      BY <1>6, <2>1, <2>2, <2>5, EnqueueFields DEF Enqueue, At, LifeOK
    <3>3. ss[i].state # "unborn"
      BY <1>6, <2>1, TargetBorn DEF Enqueue, At
    <3> QED
      BY <2>2, <2>3, <2>5, <3>1, <3>2, <3>3 DEF LifeOK, SamePlaces
  <2> QED
    BY <2>4, <2>5
<1>7. CASE EnqueueTimeout
  BY <1>7, ProcNames, OwnNames, NamesDiffer DEF EnqueueTimeout, PcOK, LifeOK, At, Goto
<1>8. CASE ClientClose
  <2>1. /\ UNCHANGED entry /\ target'[Shut] = target[Shut]
        /\ \A q \in Proc : q # Recv => pc'[q] = pc[q]
        /\ pc'[Recv] \notin {"check", "send"} /\ target'[Recv] \in {target[Recv], entry}
    BY <1>8, ProcNames DEF ClientClose, PcOK, VarsOK, At, Goto
  <2>2. KeepsLife(k)
    BY <1>8, ClientCloseFields DEF KeepsLife, SameHistory, SameLife
  <2>3. SamePlaces(k)
    BY <2>1, ProcNames, OwnNames DEF SamePlaces
  <2> QED
    BY <2>1, <2>2, <2>3, LifeKept DEF LifeOK
<1>9. CASE ClientCloseDone
  BY <1>9, ProcNames, OwnNames, NamesDiffer DEF ClientCloseDone, PcOK, LifeOK, At, Goto
<1>10. CASE Shutdown
  <2>1. /\ UNCHANGED <<ss, entry>> /\ target'[Recv] = target[Recv]
        /\ target'[Shut] \in {target[Shut], entry}
        /\ \A q \in Proc : q # Shut => pc'[q] = pc[q]
    BY <1>10, ProcNames DEF Shutdown, PcOK, VarsOK, Goto
  <2> QED
    BY <2>1, ProcNames, OwnNames DEF LifeOK
<1>11. CASE TestChannel(Recv, "halfClose", "writeCloseCh", "halfClose2", "halfClosed")
  BY <1>11, ProcNames, OwnNames, NamesDiffer DEF TestChannel, PcOK, LifeOK, At, Goto
<1>12. CASE CloseChannel(Recv, "halfClose2", "writeCloseCh", "halfClosed")
  BY <1>12, ProcNames, OwnNames, NamesDiffer, BecomesFacts, ObjectFields,
     CloseChannelEffect, ClosingBorn, StreamOfFacts
     DEF CloseChannel, PcOK, LifeOK, At, Goto, Object, Closing, PastClaim
<1>13. ASSUME NEW i \in Streams, DialSucceeds(i) PROVE LifeOK(k)'
  <2>1. /\ UNCHANGED <<entry, target>> /\ pc'[Recv] = pc[Recv]
        /\ \A q \in Proc : q # Run(i) => pc'[q] = pc[q]
    BY <1>13, ProcNames, OwnNames DEF DialSucceeds, PcOK, Goto
  <2>2. \A j \in Streams : j # i => ss'[j] = ss[j]
    BY <1>13, DialSucceedsFields DEF Others
  <2>3. CASE k # i
    BY <2>1, <2>2, <2>3, ProcNames, NamesDiffer, LifeKept
       DEF KeepsLife, SameLine, SamePlaces
  <2>4. CASE k = i
    <3>1. /\ pc[Run(i)] = "dial" /\ pc'[Run(i)] = "connected"
          /\ pc'[Writer(i)] = pc[Writer(i)] /\ pc'[Reader(i)] = pc[Reader(i)]
      BY <1>13, <2>1, ProcNames, NamesDiffer DEF DialSucceeds, PcOK, At, Goto
    <3>2. KeepsLife(i)
      BY <1>13, DialSucceedsFields DEF KeepsLife, SameHistory
    <3> QED
      BY <2>1, <2>4, <3>1, <3>2 DEF LifeOK, KeepsLife, SameLine
  <2> QED
    BY <2>3, <2>4
<1>14. ASSUME NEW i \in Streams, DialFails(i) PROVE LifeOK(k)'
  <2>1. /\ UNCHANGED <<entry, target>> /\ pc'[Recv] = pc[Recv]
        /\ \A q \in Proc : q # Run(i) => pc'[q] = pc[q]
    BY <1>14, ProcNames, OwnNames DEF DialFails, PcOK, Goto
  <2>2. \A j \in Streams : j # i => ss'[j] = ss[j]
    BY <1>14, DialFailsFields DEF Others
  <2>3. CASE k # i
    BY <2>1, <2>2, <2>3, ProcNames, NamesDiffer, LifeKept
       DEF KeepsLife, SameLine, SamePlaces
  <2>4. CASE k = i
    <3>1. /\ pc[Run(i)] = "dial" /\ pc'[Run(i)] = "dialFailed"
          /\ pc'[Writer(i)] = pc[Writer(i)] /\ pc'[Reader(i)] = pc[Reader(i)]
      BY <1>14, <2>1, ProcNames, NamesDiffer DEF DialFails, PcOK, At, Goto
    <3>2. /\ ss'[i].state = "closed" /\ ss'[i].pending = ss[i].pending
          /\ ss'[i].out = ss[i].out /\ ss'[i].flush = ss[i].flush
      BY <1>14, DialFailsFields DEF SameLine
    <3> QED
      BY <2>1, <2>4, <3>1, <3>2 DEF LifeOK
  <2> QED
    BY <2>3, <2>4
<1>15. ASSUME NEW i \in Streams, DialFailed(i) PROVE LifeOK(k)'
  BY <1>15, ProcNames, OwnNames, NamesDiffer
     DEF DialFailed, PcOK, LifeOK, At, Goto, Streams, None
<1>16. ASSUME NEW i \in Streams, TakePending(i) PROVE LifeOK(k)'
  <2>1. /\ UNCHANGED <<entry, target>> /\ pc'[Recv] = pc[Recv]
        /\ \A q \in Proc : q # Run(i) => pc'[q] = pc[q]
    BY <1>16, ProcNames, OwnNames DEF TakePending, PcOK, Goto
  <2>2. \A j \in Streams : j # i => ss'[j] = ss[j]
    BY <1>16, TakePendingFields DEF Others
  <2>3. CASE k # i
    BY <2>1, <2>2, <2>3, ProcNames, NamesDiffer, LifeKept
       DEF KeepsLife, SameLine, SamePlaces
  <2>4. CASE k = i
    <3>1. /\ pc[Run(i)] = "connected" /\ pc'[Run(i)] = "flush"
          /\ pc'[Writer(i)] = pc[Writer(i)] /\ pc'[Reader(i)] = pc[Reader(i)]
      BY <1>16, <2>1, ProcNames, NamesDiffer DEF TakePending, PcOK, At, Goto
    <3>2. ss'[i].state = "connected" /\ ss'[i].pending = <<>>
      BY <1>16, TakePendingFields
    <3> QED
      BY <2>1, <2>4, <3>1, <3>2 DEF LifeOK
  <2> QED
    BY <2>3, <2>4
<1>17. ASSUME NEW i \in Streams, Flush(i) PROVE LifeOK(k)'
  <2>1. /\ UNCHANGED <<entry, target>> /\ pc'[Recv] = pc[Recv]
        /\ \A q \in Proc : q # Run(i) => pc'[q] = pc[q]
    BY <1>17, ProcNames, OwnNames DEF Flush, PcOK, Goto
  <2>2. \A j \in Streams : j # i => ss'[j] = ss[j]
    BY <1>17, FlushFields DEF Others
  <2>3. CASE k # i
    BY <2>1, <2>2, <2>3, ProcNames, NamesDiffer, LifeKept
       DEF KeepsLife, SameLine, SamePlaces
  <2>4. CASE k = i
    <3>1. /\ pc[Run(i)] = "flush" /\ pc'[Run(i)] \in {"flush", "close"}
          /\ pc'[Writer(i)] = pc[Writer(i)] /\ pc'[Reader(i)] = pc[Reader(i)]
      BY <1>17, <2>1, ProcNames, NamesDiffer DEF Flush, PcOK, At, Goto
    <3>2. ss'[i].state = ss[i].state /\ ss'[i].pending = ss[i].pending
      BY <1>17, FlushFields DEF SameLife
    <3> QED
      BY <2>1, <2>4, <3>1, <3>2 DEF LifeOK
  <2> QED
    BY <2>3, <2>4
<1>18. ASSUME NEW i \in Streams, Serve(i) PROVE LifeOK(k)'
  BY <1>18, ProcNames, OwnNames, NamesDiffer DEF Serve, PcOK, LifeOK, At, Goto
<1>19. ASSUME NEW i \in Streams, Unmap(i) PROVE LifeOK(k)'
  <2>1. /\ ss' = ss /\ entry' # k /\ target' = target
        /\ pc[Run(i)] = "wait" /\ pc' = [pc EXCEPT ![Run(i)] = "remove"]
    BY <1>19 DEF Unmap, At, Goto, Streams, None
  <2>2. CASE k # i
    BY <2>1, <2>2, ProcNames, OwnNames, NamesDiffer, LifeKept
       DEF KeepsLife, SameLine, SamePlaces, PcOK
  <2>3. CASE k = i
    BY <2>1, <2>3, ProcNames, OwnNames, NamesDiffer DEF LifeOK, PcOK
  <2> QED
    BY <2>2, <2>3
<1>20. ASSUME NEW i \in Streams, RemoveReliable(i) PROVE LifeOK(k)'
  BY <1>20, ProcNames, OwnNames, NamesDiffer DEF RemoveReliable, PcOK, LifeOK, At, Goto
<1>21. ASSUME NEW i \in Streams, WriteChunk(i) PROVE LifeOK(k)'
  <2>1. /\ UNCHANGED <<entry, target>> /\ pc'[Recv] = pc[Recv]
        /\ \A q \in Proc : q # Writer(i) => pc'[q] = pc[q]
    BY <1>21, ProcNames, OwnNames DEF WriteChunk, PcOK, Goto
  <2>2. \A j \in Streams : j # i => ss'[j] = ss[j]
    BY <1>21, WriteFields DEF Others, TakesChunk
  <2>3. CASE k # i
    BY <2>1, <2>2, <2>3, ProcNames, NamesDiffer, LifeKept
       DEF KeepsLife, SameLine, SamePlaces
  <2>4. CASE k = i
    <3>1. /\ pc[Writer(i)] # "idle" /\ pc'[Run(i)] = pc[Run(i)] /\ pc'[Reader(i)] = pc[Reader(i)]
      BY <1>21, <2>1, ProcNames, NamesDiffer DEF WriteChunk, PcOK, At
    <3>2. /\ ss'[i].state = ss[i].state /\ ss'[i].pending = ss[i].pending
          /\ ss'[i].flush = ss[i].flush
      BY <1>21, WriteFields, DrainedFields DEF TakesChunk, SameLife, SameLine
    <3> QED
      BY <2>1, <2>4, <3>1, <3>2 DEF LifeOK
  <2> QED
    BY <2>3, <2>4
<1>22. ASSUME NEW i \in Streams, WriterTold(i) PROVE LifeOK(k)'
  BY <1>22, ProcNames, OwnNames, NamesDiffer DEF WriterTold, PcOK, LifeOK, At, Goto
<1>23. ASSUME NEW i \in Streams, Drain(i) PROVE LifeOK(k)'
  <2>1. /\ UNCHANGED <<entry, target>> /\ pc'[Recv] = pc[Recv]
        /\ \A q \in Proc : q # Writer(i) => pc'[q] = pc[q]
    BY <1>23, ProcNames, OwnNames DEF Drain, PcOK, Goto
  <2>2. \A j \in Streams : j # i => ss'[j] = ss[j]
    BY <1>23, WriteFields, DrainedFields DEF Others, TakesChunk
  <2>3. CASE k # i
    BY <2>1, <2>2, <2>3, ProcNames, NamesDiffer, LifeKept
       DEF KeepsLife, SameLine, SamePlaces
  <2>4. CASE k = i
    <3>1. /\ pc[Writer(i)] # "idle" /\ pc'[Run(i)] = pc[Run(i)] /\ pc'[Reader(i)] = pc[Reader(i)]
      BY <1>23, <2>1, ProcNames, NamesDiffer DEF Drain, PcOK, At
    <3>2. /\ ss'[i].state = ss[i].state /\ ss'[i].pending = ss[i].pending
          /\ ss'[i].flush = ss[i].flush
      BY <1>23, WriteFields, DrainedFields DEF TakesChunk, SameLife, SameLine
    <3> QED
      BY <2>1, <2>4, <3>1, <3>2 DEF LifeOK
  <2> QED
    BY <2>3, <2>4
<1>24. ASSUME NEW i \in Streams, SetDeadline(i) PROVE LifeOK(k)'
  BY SMTT(30), <1>24, ProcNames, OwnNames, NamesDiffer, BecomesFacts, ObjectFields, DeadlineEffect
     DEF SetDeadline, PcOK, LifeOK, At, Goto, Object
<1>25. ASSUME NEW i \in Streams, ReadFails(i) PROVE LifeOK(k)'
  BY <1>25, ProcNames, OwnNames, NamesDiffer DEF ReadFails, PcOK, LifeOK, At, Goto
<1>26. ASSUME NEW i \in Streams, ReadData(i) PROVE LifeOK(k)'
  BY <1>26, ProcNames, OwnNames, NamesDiffer, BecomesFacts, ObjectFields, DeadlineEffect
     DEF ReadData, PcOK, LifeOK, At, Goto, Object
<1>27. ASSUME NEW i \in Streams, SendReply(i) PROVE LifeOK(k)'
  BY <1>27, ProcNames, OwnNames, NamesDiffer DEF SendReply, PcOK, LifeOK, At, Goto
<1>28. ASSUME NEW i \in Streams, ReadEof(i) PROVE LifeOK(k)'
  BY <1>28, ProcNames, OwnNames, NamesDiffer DEF ReadEof, PcOK, LifeOK, At, Goto
<1>29. ASSUME NEW i \in Streams, SendClose(Run(i), "done") PROVE LifeOK(k)'
  BY <1>29, ProcNames, OwnNames, NamesDiffer DEF SendClose, PcOK, LifeOK, At, Goto
<1>30. ASSUME NEW i \in Streams, SendClose(Reader(i), "close") PROVE LifeOK(k)'
  BY <1>30, ProcNames, OwnNames, NamesDiffer DEF SendClose, PcOK, LifeOK, At, Goto
<1>31. ASSUME NEW p \in Proc, Claim(p) PROVE LifeOK(k)'
  BY <1>31, ProcNames, OwnNames, NamesDiffer, ProcCases, BecomesFacts, ObjectFields,
     CloseEffect, ClosingBorn, StreamOfFacts
     DEF Claim, PcOK, LifeOK, At, Goto, After, Object, Closing, PastClaim
<1>32. ASSUME NEW p \in Proc, TestChannel(p, "closeWrite", "writeCloseCh", "closeWrite2", "closeAll")
       PROVE  LifeOK(k)'
  BY <1>32, ProcNames, OwnNames, NamesDiffer, ProcCases
     DEF TestChannel, PcOK, LifeOK, At, Goto
<1>33. ASSUME NEW p \in Proc, CloseChannel(p, "closeWrite2", "writeCloseCh", "closeAll")
       PROVE  LifeOK(k)'
  BY SMTT(30), <1>33, ProcNames, OwnNames, NamesDiffer, ProcCases, BecomesFacts, ObjectFields,
     CloseChannelEffect, ClosingBorn, StreamOfFacts
     DEF CloseChannel, PcOK, LifeOK, At, Goto, Object, Closing, PastClaim
<1>34. ASSUME NEW p \in Proc, TestChannel(p, "closeAll", "closeCh", "closeAll2", "closeConn")
       PROVE  LifeOK(k)'
  BY <1>34, ProcNames, OwnNames, NamesDiffer, ProcCases
     DEF TestChannel, PcOK, LifeOK, At, Goto
<1>35. ASSUME NEW p \in Proc, CloseChannel(p, "closeAll2", "closeCh", "closeConn")
       PROVE  LifeOK(k)'
  BY SMTT(30), <1>35, ProcNames, OwnNames, NamesDiffer, ProcCases, BecomesFacts, ObjectFields,
     CloseChannelEffect, ClosingBorn, StreamOfFacts
     DEF CloseChannel, PcOK, LifeOK, At, Goto, Object, Closing, PastClaim
<1>36. ASSUME NEW p \in Proc, CloseBackend(p) PROVE LifeOK(k)'
  BY <1>36, ProcNames, OwnNames, NamesDiffer, ProcCases, BecomesFacts, ObjectFields,
     CloseEffect, ClosingBorn, StreamOfFacts
     DEF CloseBackend, PcOK, LifeOK, At, Goto, After, Object, Closing, PastClaim
<1>37. CASE UNCHANGED vars
  BY <1>37, ProcNames, OwnNames, NamesDiffer DEF vars, PcOK, LifeOK, At, Goto
<1> QED
  BY NextCases, <1>1, <1>2, <1>3, <1>4, <1>5, <1>6, <1>7, <1>8, <1>9, <1>10, <1>11, <1>12,
     <1>13, <1>14, <1>15, <1>16, <1>17, <1>18, <1>19, <1>20, <1>21, <1>22, <1>23, <1>24,
     <1>25, <1>26, <1>27, <1>28, <1>29, <1>30, <1>31, <1>32, <1>33, <1>34, <1>35, <1>36,
     <1>37
-----------------------------------------------------------------------------
(***************************************************************************)
(* The client is told.                                                     *)
(***************************************************************************)

\* Where the receive loop goes after the first look at the state.
LEMMA LoadStateGoes ==
    ASSUME AlwaysInv, LoadState, NEW i \in Streams, i = target[Recv]
    PROVE  /\ pc[Recv] = "loaded" /\ \A q \in Proc : q # Recv => pc'[q] = pc[q]
           /\ \/ ss[i].state = "closed" /\ pc'[Recv] = "idle"
              \/ ss[i].state = "connecting" /\ pc'[Recv] = "lock"
              \/ ss[i].state = "connected" /\ pc'[Recv] = "check"
<1>1. /\ ss[i].state \in {"connecting", "connected", "closed"} /\ pc \in [Proc -> Label]
      /\ pc[Recv] = "loaded"
  BY TargetBorn, ObjectFields DEF LoadState, At, AlwaysInv, TypeInv, PcOK
<1>2. \/ ss[i].state = "closed" /\ pc' = [pc EXCEPT ![Recv] = "idle"]
      \/ ss[i].state = "connecting" /\ pc' = [pc EXCEPT ![Recv] = "lock"]
      \/ ss[i].state = "connected" /\ pc' = [pc EXCEPT ![Recv] = "check"]
  BY <1>1 DEF LoadState, Goto
<1> QED
  BY <1>1, <1>2, ProcNames

\* No goroutine of an object ends without its CLOSE, with the exception that TellsClient names.
LEMMA TellStep == AlwaysInv /\ [Next]_vars => TellInv'
<1> SUFFICES ASSUME AlwaysInv, [Next]_vars PROVE TellInv'
  OBVIOUS
<1> TypeInv /\ ObjectsOK /\ PcOK /\ VarsOK /\ TargetOK /\ TellInv
  BY DEF AlwaysInv, TypeInv
<1>1. CASE LookUp
  <2>1. /\ \A k \in Streams : ss'[k].flush = ss[k].flush
        /\ reliable = "first" => reliable' = "first"
        /\ UNCHANGED <<closeSent, clientEnd>>
    BY <1>1, CreateFields DEF LookUp, Made, SameLine, Others
  <2>2. /\ pc'[Recv] \in {"loaded", "created"} /\ pc'[Shut] = pc[Shut]
        /\ \A k \in Streams : pc'[Reader(k)] = pc[Reader(k)]
                             /\ pc'[Run(k)] \in {pc[Run(k)], "dial"}
    BY <1>1, ProcNames, OwnNames, NamesDiffer DEF LookUp, PcOK, Goto
  <2> QED
    BY <2>1, <2>2 DEF TellInv, Told, Closing, PastClaim
<1>2. CASE Store
  BY <1>2, ProcNames, OwnNames, NamesDiffer
     DEF Store, TellInv, Told, PcOK, At, Goto, Closing, PastClaim
<1>3. CASE LoadState
  <2>1. PICK i \in Streams : i = target[Recv]
    BY <1>3, TargetBorn DEF LoadState, At
  <2>2. /\ \A k \in Streams : ss'[k].flush = ss[k].flush
        /\ UNCHANGED <<reliable, closeSent, clientEnd>>
    BY <1>3, <2>1, LoadStateFields DEF LoadState, Others, SameLine
  <2> QED
    BY <1>3, <2>1, <2>2, LoadStateGoes, ProcNames, OwnNames DEF TellInv, Told
<1>4. CASE Pend
  BY <1>4, ProcNames, OwnNames, NamesDiffer, PendFields, PendEffect, TargetBorn
     DEF Pend, TellInv, Told, PcOK, At, Goto, Closing, PastClaim, SameLine, Others
<1>5. CASE CheckWriteClosed
  BY <1>5, ProcNames, OwnNames, NamesDiffer
     DEF CheckWriteClosed, TellInv, Told, PcOK, At, Goto, Closing, PastClaim
<1>6. CASE Enqueue
  BY <1>6, ProcNames, OwnNames, NamesDiffer, EnqueueFields, TargetBorn
     DEF Enqueue, TellInv, Told, PcOK, At, Goto, Closing, PastClaim, SameLine, Others
<1>7. CASE EnqueueTimeout
  BY <1>7, ProcNames, OwnNames, NamesDiffer
     DEF EnqueueTimeout, TellInv, Told, PcOK, At, Goto, Closing, PastClaim
<1>8. CASE ClientClose
  <2>1. /\ \A k \in Streams : ss'[k].flush = ss[k].flush
        /\ clientEnd' /\ \A q \in Proc : q # Recv => pc'[q] = pc[q]
    BY <1>8, ProcNames, ClientCloseFields DEF ClientClose, PcOK, Goto, SameLine
  <2> QED
    BY <2>1, ProcNames, OwnNames DEF TellInv, Told
<1>9. CASE ClientCloseDone
  BY <1>9, ProcNames, OwnNames, NamesDiffer
     DEF ClientCloseDone, TellInv, Told, PcOK, At, Goto, Closing, PastClaim
<1>10. CASE Shutdown
  BY <1>10, ProcNames, OwnNames, NamesDiffer
     DEF Shutdown, TellInv, Told, PcOK, At, Goto, Closing, PastClaim
<1>11. CASE TestChannel(Recv, "halfClose", "writeCloseCh", "halfClose2", "halfClosed")
  BY <1>11, ProcNames, OwnNames, NamesDiffer
     DEF TestChannel, TellInv, Told, PcOK, At, Goto, Closing, PastClaim
<1>12. CASE CloseChannel(Recv, "halfClose2", "writeCloseCh", "halfClosed")
  BY <1>12, ProcNames, OwnNames, NamesDiffer, CloseWriteFields, ClosingBorn, StreamOfFacts
     DEF CloseChannel, TellInv, Told, PcOK, At, Goto, Closing, PastClaim, SameLine, Others
<1>13. ASSUME NEW i \in Streams, DialSucceeds(i) PROVE TellInv'
  BY <1>13, ProcNames, OwnNames, NamesDiffer, DialSucceedsFields
     DEF DialSucceeds, TellInv, Told, PcOK, At, Goto, Closing, PastClaim, SameLine, Others
<1>14. ASSUME NEW i \in Streams, DialFails(i) PROVE TellInv'
  BY <1>14, ProcNames, OwnNames, NamesDiffer, DialFailsFields
     DEF DialFails, TellInv, Told, PcOK, At, Goto, Closing, PastClaim, SameLine, Others
<1>15. ASSUME NEW i \in Streams, DialFailed(i) PROVE TellInv'
  BY <1>15, ProcNames, OwnNames, NamesDiffer
     DEF DialFailed, TellInv, Told, PcOK, At, Goto, Closing, PastClaim
<1>16. ASSUME NEW i \in Streams, TakePending(i) PROVE TellInv'
  BY <1>16, ProcNames, OwnNames, NamesDiffer, TakePendingFields
     DEF TakePending, TellInv, Told, PcOK, At, Goto, Closing, PastClaim, SameLine, Others
<1>17. ASSUME NEW i \in Streams, Flush(i) PROVE TellInv'
  BY SMTT(30), <1>17, ProcNames, OwnNames, NamesDiffer, FlushFields
     DEF Flush, TellInv, Told, PcOK, At, Goto, Closing, PastClaim, SameLine, Others
<1>18. ASSUME NEW i \in Streams, Serve(i) PROVE TellInv'
  BY <1>18, ProcNames, OwnNames, NamesDiffer
     DEF Serve, TellInv, Told, PcOK, At, Goto, Closing, PastClaim
<1>19. ASSUME NEW i \in Streams, Unmap(i) PROVE TellInv'
  BY <1>19, ProcNames, OwnNames, NamesDiffer
     DEF Unmap, TellInv, Told, PcOK, At, Goto, Closing, PastClaim
<1>20. ASSUME NEW i \in Streams, RemoveReliable(i) PROVE TellInv'
  BY <1>20, ProcNames, OwnNames, NamesDiffer
     DEF RemoveReliable, TellInv, Told, PcOK, At, Goto, Closing, PastClaim
<1>21. ASSUME NEW i \in Streams, WriteChunk(i) PROVE TellInv'
  <2>1. /\ \A k \in Streams : ss'[k].flush = ss[k].flush
        /\ \A q \in Proc : q # Writer(i) => pc'[q] = pc[q]
        /\ UNCHANGED <<reliable, closeSent, clientEnd>>
    BY <1>21, ProcNames, WriteFields
       DEF WriteChunk, TakesChunk, Others, SameLine, PcOK, Goto
  <2> QED
    BY <2>1, ProcNames, OwnNames, NamesDiffer DEF TellInv, Told
<1>22. ASSUME NEW i \in Streams, WriterTold(i) PROVE TellInv'
  BY <1>22, ProcNames, OwnNames, NamesDiffer
     DEF WriterTold, TellInv, Told, PcOK, At, Goto, Closing, PastClaim
<1>23. ASSUME NEW i \in Streams, Drain(i) PROVE TellInv'
  <2>1. /\ \A k \in Streams : ss'[k].flush = ss[k].flush
        /\ \A q \in Proc : q # Writer(i) => pc'[q] = pc[q]
        /\ UNCHANGED <<reliable, closeSent, clientEnd>>
    BY <1>23, ProcNames, WriteFields, DrainedFields
       DEF Drain, TakesChunk, Others, SameLine, PcOK, Goto
  <2> QED
    BY <2>1, ProcNames, OwnNames, NamesDiffer DEF TellInv, Told
<1>24. ASSUME NEW i \in Streams, SetDeadline(i) PROVE TellInv'
  BY <1>24, ProcNames, OwnNames, NamesDiffer, DeadlineFields
     DEF SetDeadline, TellInv, Told, PcOK, At, Goto, Closing, PastClaim, SameLine, Others
<1>25. ASSUME NEW i \in Streams, ReadFails(i) PROVE TellInv'
  BY <1>25, ProcNames, OwnNames, NamesDiffer
     DEF ReadFails, TellInv, Told, PcOK, At, Goto, Closing, PastClaim
<1>26. ASSUME NEW i \in Streams, ReadData(i) PROVE TellInv'
  <2>1. /\ \A k \in Streams : ss'[k].flush = ss[k].flush
        /\ reliable = "first" => reliable' = "first"
        /\ UNCHANGED <<closeSent, clientEnd>>
        /\ pc'[Reader(i)] = "send" /\ \A q \in Proc : q # Reader(i) => pc'[q] = pc[q]
    BY <1>26, ProcNames, DeadlineFields DEF ReadData, Made, SameLine, PcOK, Goto
  <2> QED
    BY <2>1, ProcNames, OwnNames, NamesDiffer DEF TellInv, Told, Closing, PastClaim
<1>27. ASSUME NEW i \in Streams, SendReply(i) PROVE TellInv'
  BY <1>27, ProcNames, OwnNames, NamesDiffer
     DEF SendReply, TellInv, Told, PcOK, At, Goto, Closing, PastClaim
<1>28. ASSUME NEW i \in Streams, ReadEof(i) PROVE TellInv'
  BY <1>28, ProcNames, OwnNames, NamesDiffer
     DEF ReadEof, TellInv, Told, PcOK, At, Goto, Closing, PastClaim
<1>29. ASSUME NEW i \in Streams, SendClose(Run(i), "done") PROVE TellInv'
  BY <1>29, ProcNames, OwnNames, NamesDiffer
     DEF SendClose, TellInv, Told, PcOK, At, Goto, Closing, PastClaim
<1>30. ASSUME NEW i \in Streams, SendClose(Reader(i), "close") PROVE TellInv'
  BY <1>30, ProcNames, OwnNames, NamesDiffer
     DEF SendClose, TellInv, Told, PcOK, At, Goto, Closing, PastClaim
<1>31. ASSUME NEW p \in Proc, Claim(p) PROVE TellInv'
  BY <1>31, ProcNames, OwnNames, NamesDiffer, ProcCases, ClaimFields, ClosingBorn,
     StreamOfFacts
     DEF Claim, TellInv, Told, PcOK, At, Goto, Closing, PastClaim, After, SameLine, Others
<1>32. ASSUME NEW p \in Proc, TestChannel(p, "closeWrite", "writeCloseCh", "closeWrite2", "closeAll")
       PROVE  TellInv'
  BY <1>32, ProcNames, OwnNames, NamesDiffer, ProcCases
     DEF TestChannel, TellInv, Told, PcOK, At, Goto, Closing, PastClaim
<1>33. ASSUME NEW p \in Proc, CloseChannel(p, "closeWrite2", "writeCloseCh", "closeAll")
       PROVE  TellInv'
  BY <1>33, ProcNames, OwnNames, NamesDiffer, ProcCases, CloseWriteFields, ClosingBorn,
     StreamOfFacts
     DEF CloseChannel, TellInv, Told, PcOK, At, Goto, Closing, PastClaim, SameLine, Others
<1>34. ASSUME NEW p \in Proc, TestChannel(p, "closeAll", "closeCh", "closeAll2", "closeConn")
       PROVE  TellInv'
  BY <1>34, ProcNames, OwnNames, NamesDiffer, ProcCases
     DEF TestChannel, TellInv, Told, PcOK, At, Goto, Closing, PastClaim
<1>35. ASSUME NEW p \in Proc, CloseChannel(p, "closeAll2", "closeCh", "closeConn")
       PROVE  TellInv'
  BY <1>35, ProcNames, OwnNames, NamesDiffer, ProcCases, CloseAllFields, ClosingBorn,
     StreamOfFacts
     DEF CloseChannel, TellInv, Told, PcOK, At, Goto, Closing, PastClaim, SameLine, Others
<1>36. ASSUME NEW p \in Proc, CloseBackend(p) PROVE TellInv'
  BY <1>36, ProcNames, OwnNames, NamesDiffer, ProcCases, CloseBackendFields, ClosingBorn,
     StreamOfFacts
     DEF CloseBackend, TellInv, Told, PcOK, At, Goto, Closing, PastClaim, After, SameLine,
         Others
<1>37. CASE UNCHANGED vars
  BY <1>37 DEF vars, TellInv, Told
<1> QED
  BY NextCases, <1>1, <1>2, <1>3, <1>4, <1>5, <1>6, <1>7, <1>8, <1>9, <1>10, <1>11, <1>12,
     <1>13, <1>14, <1>15, <1>16, <1>17, <1>18, <1>19, <1>20, <1>21, <1>22, <1>23, <1>24,
     <1>25, <1>26, <1>27, <1>28, <1>29, <1>30, <1>31, <1>32, <1>33, <1>34, <1>35, <1>36,
     <1>37
-----------------------------------------------------------------------------
(***************************************************************************)
(* The line of the chunks.                                                 *)
(***************************************************************************)

\* Writing the first chunk of a queue leaves the line as it was.
LEMMA WriteMoves ==
    ASSUME NEW S, NEW o \in Seq(S), NEW w \in Seq(S), w # <<>>
    PROVE  /\ Append(o, Head(w)) \in Seq(S) /\ Tail(w) \in Seq(S)
           /\ Append(o, Head(w)) \o Tail(w) = o \o w
<1>1. /\ Head(w) \in S /\ Tail(w) \in Seq(S) /\ Len(Tail(w)) = Len(w) - 1
      /\ Len(w) \in Nat \ {0} /\ Len(o) \in Nat
  OBVIOUS
<1>2. Append(o, Head(w)) \in Seq(S) /\ Len(Append(o, Head(w))) = Len(o) + 1
  BY <1>1
<1>3. \A i \in 1 .. (Len(o) + Len(w)) :
          (Append(o, Head(w)) \o Tail(w))[i] = (o \o w)[i]
  BY <1>1, <1>2
<1>4. /\ Append(o, Head(w)) \o Tail(w) \in Seq(S) /\ o \o w \in Seq(S)
      /\ Len(Append(o, Head(w)) \o Tail(w)) = Len(o) + Len(w)
      /\ Len(o \o w) = Len(o) + Len(w)
  BY <1>1, <1>2
<1> QED
  BY <1>1, <1>2, <1>3, <1>4, SeqEqual

\* A chunk at the end of the queue is at the end of the line.
LEMMA AppendMoves ==
    \A o, w \in Seq(Chunk), c \in Chunk : o \o Append(w, c) = Append(o \o w, c)
<1> TAKE o, w \in Seq(Chunk), c \in Chunk
<1>1. /\ Len(w) \in Nat /\ Len(o) \in Nat /\ o \o w \in Seq(Chunk)
      /\ Len(o \o w) = Len(o) + Len(w)
      /\ Append(w, c) \in Seq(Chunk) /\ Len(Append(w, c)) = Len(w) + 1
  OBVIOUS
<1>2. /\ o \o Append(w, c) \in Seq(Chunk) /\ Append(o \o w, c) \in Seq(Chunk)
      /\ Len(o \o Append(w, c)) = Len(o) + Len(w) + 1
      /\ Len(Append(o \o w, c)) = Len(o) + Len(w) + 1
  BY <1>1
<1>3. \A i \in 1 .. (Len(o) + Len(w) + 1) :
          (o \o Append(w, c))[i] = Append(o \o w, c)[i]
  BY <1>1
<1> QED
  BY <1>2, <1>3, SeqEqual

\* A chunk later than the others may follow them.
LEMMA AppendIncreasing ==
    ASSUME NEW s \in Seq(Chunk), NEW c \in Chunk, NEW n \in Int, n < c,
           Increasing(s), Below(s, n)
    PROVE  Increasing(Append(s, c)) /\ Below(Append(s, c), c)
<1>1. /\ Len(s) \in Nat /\ Len(Append(s, c)) = Len(s) + 1 /\ c \in Nat
      /\ Append(s, c)[Len(s) + 1] = c
      /\ \A a \in 1 .. Len(s) : Append(s, c)[a] = s[a] /\ s[a] \in Nat
  <2>1. Chunk \subseteq Nat
    BY DEF Chunk
  <2>2. /\ Len(s) \in Nat /\ Len(Append(s, c)) = Len(s) + 1
        /\ Append(s, c)[Len(s) + 1] = c
        /\ \A a \in 1 .. Len(s) : Append(s, c)[a] = s[a] /\ s[a] \in Chunk
    OBVIOUS
  <2> QED
    BY <2>1, <2>2
<1>2. \A a \in 1 .. Len(s) : s[a] <= n
  BY DEF Below
<1>3. Below(Append(s, c), c)
  BY <1>1, <1>2 DEF Below
<1>4. ASSUME NEW a \in 1 .. Len(Append(s, c)), NEW b \in 1 .. Len(Append(s, c)), a < b
      PROVE  Append(s, c)[a] < Append(s, c)[b]
  <2>1. a \in 1 .. Len(s)
    BY <1>1, <1>4
  <2>2. CASE b = Len(s) + 1
    BY <1>1, <1>2, <2>1, <2>2
  <2>3. CASE b \in 1 .. Len(s)
    BY <1>1, <1>4, <2>1, <2>3 DEF Increasing
  <2> QED
    BY <1>1, <2>2, <2>3
<1> QED
  BY <1>3, <1>4 DEF Increasing

\* A chunk that is lost leaves the others in order.
LEMMA DropIncreasing ==
    ASSUME NEW o \in Seq(Chunk), NEW w \in Seq(Chunk), w # <<>>, NEW n \in Int,
           Increasing(o \o w), Below(o \o w, n)
    PROVE  Increasing(o \o Tail(w)) /\ Below(o \o Tail(w), n)
<1>1. /\ Len(o) \in Nat /\ Len(w) \in Nat /\ Len(w) >= 1
      /\ Tail(w) \in Seq(Chunk) /\ Len(Tail(w)) = Len(w) - 1
  OBVIOUS
<1>2. Len(o \o Tail(w)) = Len(o) + Len(w) - 1 /\ Len(o \o w) = Len(o) + Len(w)
  BY <1>1
<1> DEFINE f(a) == IF a <= Len(o) THEN a ELSE a + 1
<1>3. ASSUME NEW a \in 1 .. Len(o \o Tail(w))
      PROVE  f(a) \in 1 .. Len(o \o w) /\ (o \o Tail(w))[a] = (o \o w)[f(a)]
  BY <1>1, <1>2
<1>4. \A a, b \in 1 .. Len(o \o Tail(w)) : a < b => f(a) < f(b)
  BY <1>1, <1>2
<1> HIDE DEF f
<1>5. Below(o \o Tail(w), n)
  BY <1>3 DEF Below
<1>6. Increasing(o \o Tail(w))
  BY <1>3, <1>4 DEF Increasing
<1> QED
  BY <1>5, <1>6

\* The beginning of a line is in order when the line is.
LEMMA BeginIncreasing ==
    ASSUME NEW o \in Seq(Chunk), NEW w \in Seq(Chunk), Increasing(o \o w)
    PROVE  Increasing(o)
<1>1. /\ Len(o) \in Nat /\ Len(w) \in Nat /\ Len(o \o w) = Len(o) + Len(w)
      /\ \A a \in 1 .. Len(o) : (o \o w)[a] = o[a] /\ a \in 1 .. Len(o \o w)
  OBVIOUS
<1> QED
  BY <1>1 DEF Increasing

\* The line of an object is a sequence of chunks.
LEMMA LineType ==
    ASSUME ObjectsOK, NEW i \in Streams
    PROVE  /\ ss[i].out \o ss[i].flush \in Seq(Chunk)
           /\ ss[i].pending \o ss[i].writeCh \in Seq(Chunk)
           /\ Line(ss[i]) \in Seq(Chunk)
BY ObjectFields DEF Line

\* How each step changes the line of the object it works on.
LEMMA LineMoves ==
    ASSUME AlwaysInv, NEW i \in Streams
    PROVE  /\ i = target[Recv] /\ Enqueue => Line(ss[i])' = Append(Line(ss[i]), calls)
           /\ i = target[Recv] /\ Pend /\ ss[i].state = "connecting" =>
                 Line(ss[i])' = Append(Line(ss[i]), calls)
           /\ TakePending(i) \/ Flush(i) => Line(ss[i])' = Line(ss[i])
           /\ pc[Writer(i)] # "idle" => Line(ss[i]) = ss[i].out \o ss[i].writeCh
           /\ pc[Writer(i)] # "idle" /\ ss[i].writeCh # <<>> /\ TakesChunk(i) =>
                 \/ Line(ss[i])' = Line(ss[i]) /\ ss'[i].out # ss[i].out
                 \/ /\ Line(ss[i])' = ss[i].out \o Tail(ss[i].writeCh)
                    /\ ss'[i].failed = Broken(i) /\ ss'[i].out = ss[i].out
<1> DEFINE o == ss[i].out  f == ss[i].flush  p == ss[i].pending  w == ss[i].writeCh
<1>0. /\ o \in Seq(Chunk) /\ f \in Seq(Chunk) /\ p \in Seq(Chunk) /\ w \in Seq(Chunk)
      /\ o \o f \in Seq(Chunk) /\ p \o w \in Seq(Chunk) /\ ObjectsOK /\ LifeOK(i)
  BY ObjectFields, LineType DEF AlwaysInv, TypeInv, OrderInv
<1>1. ASSUME i = target[Recv], Enqueue PROVE Line(ss[i])' = Append(Line(ss[i]), calls)
  <2>1. calls \in Chunk
    BY <1>1, CallsType DEF Enqueue, At, InHand
  <2>2. Line(ss[i])' = (o \o f) \o (p \o Append(w, calls))
    BY <1>0, <1>1, EnqueueFields DEF Line
  <2>a. o \o f \in Seq(Chunk) /\ p \in Seq(Chunk) /\ w \in Seq(Chunk) /\ p \o w \in Seq(Chunk)
    BY <1>0
  <2>3. p \o Append(w, calls) = Append(p \o w, calls)
    BY <2>1, <2>a, AppendMoves
  <2>4. (o \o f) \o Append(p \o w, calls) = Append((o \o f) \o (p \o w), calls)
    BY <2>1, <2>a, AppendMoves
  <2> QED
    BY <2>2, <2>3, <2>4 DEF Line
<1>2. ASSUME i = target[Recv], Pend, ss[i].state = "connecting"
      PROVE  Line(ss[i])' = Append(Line(ss[i]), calls)
  <2>1. calls \in Chunk
    BY <1>2, CallsType DEF Pend, At, InHand
  <2>2. w = <<>>
    BY <1>0, <1>2 DEF LifeOK
  <2>3. Line(ss[i])' = (o \o f) \o (Append(p, calls) \o <<>>)
    BY <1>0, <1>2, <2>2, PendFields DEF Line
  <2>4. Append(p, calls) \o <<>> = Append(p, calls) /\ p \o <<>> = p
    BY <1>0, <2>1
  <2>a. o \o f \in Seq(Chunk) /\ p \in Seq(Chunk)
    BY <1>0
  <2>5. (o \o f) \o Append(p, calls) = Append((o \o f) \o p, calls)
    BY <2>1, <2>a, AppendMoves
  <2> QED
    BY <2>2, <2>3, <2>4, <2>5 DEF Line
<1>3. ASSUME TakePending(i) PROVE Line(ss[i])' = Line(ss[i])
  <2>1. o = <<>> /\ f = <<>>
    BY <1>0, <1>3 DEF TakePending, At, LifeOK
  <2>2. Line(ss[i])' = (<<>> \o p) \o (<<>> \o w)
    BY <1>0, <1>3, <2>1, TakePendingFields DEF Line
  <2>3. Line(ss[i]) = (<<>> \o <<>>) \o (p \o w)
    BY <2>1 DEF Line
  <2>4. (<<>> \o p) \o (<<>> \o w) = (<<>> \o <<>>) \o (p \o w)
    BY <1>0
  <2> QED
    BY <2>2, <2>3, <2>4
<1>4. ASSUME Flush(i) PROVE Line(ss[i])' = Line(ss[i])
  <2>1. CASE ss'[i].out = Append(o, Head(f)) /\ ss'[i].flush = Tail(f)
    <3>1. f # <<>>
      BY <1>4 DEF Flush
    <3>2. Append(o, Head(f)) \o Tail(f) = o \o f
      BY <1>0, <3>1, WriteMoves
    <3> QED
      BY <1>0, <1>4, <2>1, <3>2, FlushFields DEF Line
  <2>2. CASE ss'[i].out = o /\ ss'[i].flush = f
    BY <1>0, <1>4, <2>2, FlushFields DEF Line
  <2> QED
    BY <1>0, <1>4, <2>1, <2>2, FlushFields
<1>5. ASSUME pc[Writer(i)] # "idle" PROVE Line(ss[i]) = o \o w
  <2>1. f = <<>> /\ p = <<>>
    BY <1>0, <1>5 DEF LifeOK
  <2>2. o \o <<>> = o /\ <<>> \o w = w
    BY <1>0
  <2> QED
    BY <2>1, <2>2 DEF Line
<1>6. ASSUME pc[Writer(i)] # "idle", w # <<>>, TakesChunk(i)
      PROVE  \/ Line(ss[i])' = Line(ss[i]) /\ ss'[i].out # ss[i].out
             \/ /\ Line(ss[i])' = o \o Tail(w)
                /\ ss'[i].failed = Broken(i) /\ ss'[i].out = ss[i].out
  <2>1. f = <<>> /\ p = <<>>
    BY <1>0, <1>6 DEF LifeOK
  <2>2. /\ Append(o, Head(w)) \in Seq(Chunk) /\ Tail(w) \in Seq(Chunk)
        /\ Append(o, Head(w)) \o Tail(w) = o \o w
    BY <1>0, <1>6, WriteMoves
  <2>3. \A s \in Seq(Chunk) : s \o <<>> = s /\ <<>> \o s = s
    OBVIOUS
  <2>4. CASE ss'[i].out = Append(o, Head(w))
    <3>1. Line(ss[i])' = (Append(o, Head(w)) \o <<>>) \o (<<>> \o Tail(w))
      BY <1>6, <2>1, <2>4 DEF TakesChunk, Line
    <3>2. Line(ss[i])' = Append(o, Head(w)) \o Tail(w)
      BY <2>2, <2>3, <3>1
    <3>3. Append(o, Head(w)) # o
      <4>1. Len(o) \in Nat /\ Len(Append(o, Head(w))) = Len(o) + 1
        BY <1>0
      <4> QED
        BY <4>1
    <3> QED
      BY <1>5, <1>6, <2>2, <2>4, <3>2, <3>3
  <2>5. CASE ss'[i].failed = Broken(i) /\ ss'[i].out = o
    <3>1. Line(ss[i])' = (o \o <<>>) \o (<<>> \o Tail(w))
      BY <1>6, <2>1, <2>5 DEF TakesChunk, Line
    <3> QED
      BY <1>0, <2>2, <2>3, <2>5, <3>1
  <2> QED
    BY <1>6, <2>4, <2>5 DEF TakesChunk
<1> QED
  BY <1>1, <1>2, <1>3, <1>4, <1>5, <1>6

\* A step leaves the line of an object alone, puts the chunk in hand at its end,
\* or loses the first chunk of the queue in a Write that fails.
Keeps(k) == Line(ss[k])' = Line(ss[k])
Grows(k) == /\ pc[Recv] \in InHand /\ pc'[Recv] \notin InHand /\ calls' = calls
            /\ Line(ss[k])' = Append(Line(ss[k]), calls)
Loses(k) == /\ pc[Writer(k)] # "idle" /\ ss[k].writeCh # <<>>
            /\ Line(ss[k]) = ss[k].out \o ss[k].writeCh
            /\ Line(ss[k])' = ss[k].out \o Tail(ss[k].writeCh)
            /\ ss'[k].failed = Broken(k) /\ ss'[k].out = ss[k].out
LineEffect == \A k \in Streams : Keeps(k) \/ Grows(k) \/ Loses(k)

\* The line of an object whose sequences stay.
LEMMA SameLineKeeps == \A k \in Streams : SameLine(k) \/ ss'[k] = ss[k] => Keeps(k)
BY DEF SameLine, Keeps, Line

\* Every step does one of these to every object.
LEMMA LineEffects == AlwaysInv /\ [Next]_vars => LineEffect
<1> SUFFICES ASSUME AlwaysInv, [Next]_vars PROVE LineEffect
  OBVIOUS
<1> TypeInv /\ ObjectsOK /\ PcOK /\ VarsOK /\ TargetOK
  BY DEF AlwaysInv, TypeInv
<1>1. CASE LookUp
  BY <1>1, SameLineKeeps, CreateFields DEF LookUp, LineEffect, Others
<1>2. CASE Store
  BY <1>2, SameLineKeeps DEF Store, LineEffect
<1>3. CASE LoadState
  BY <1>3, SameLineKeeps, LoadStateFields, TargetBorn DEF LoadState, LineEffect, Others, At
<1>4. CASE Pend
  <2>1. PICK i \in Streams : i = target[Recv]
    BY <1>4, TargetBorn DEF Pend, At
  <2>2. CASE ss[i].state # "connecting"
    BY <1>4, <2>1, <2>2, PendEffect, SameLineKeeps DEF LineEffect
  <2>3. CASE ss[i].state = "connecting"
    <3>1. pc[Recv] = "lock" /\ pc'[Recv] = "idle" /\ calls' = calls
      BY <1>4, <2>1, <2>3, ProcNames DEF Pend, At, Goto, PcOK
    <3>2. Grows(i)
      BY <1>4, <2>1, <2>3, <3>1, LineMoves DEF Grows, InHand
    <3> QED
      BY <1>4, <2>1, <2>3, <3>2, PendFields, SameLineKeeps DEF LineEffect, Others
  <2> QED
    BY <2>2, <2>3
<1>5. CASE CheckWriteClosed
  BY <1>5, SameLineKeeps DEF CheckWriteClosed, LineEffect
<1>6. CASE Enqueue
  <2>1. PICK i \in Streams : i = target[Recv]
    BY <1>6, TargetBorn DEF Enqueue, At
  <2>2. pc[Recv] = "send" /\ pc'[Recv] = "idle" /\ calls' = calls
    BY <1>6, ProcNames DEF Enqueue, At, Goto, PcOK
  <2>3. Grows(i)
    BY <1>6, <2>1, <2>2, LineMoves DEF Grows, InHand
  <2> QED
    BY <1>6, <2>1, <2>3, EnqueueFields, SameLineKeeps DEF LineEffect, Others
<1>7. CASE EnqueueTimeout
  BY <1>7, SameLineKeeps DEF EnqueueTimeout, LineEffect
<1>8. CASE ClientClose
  BY <1>8, SameLineKeeps, ClientCloseFields DEF ClientClose, LineEffect, Others
<1>9. CASE ClientCloseDone
  BY <1>9, SameLineKeeps DEF ClientCloseDone, LineEffect
<1>10. CASE Shutdown
  BY <1>10, SameLineKeeps DEF Shutdown, LineEffect
<1>11. CASE TestChannel(Recv, "halfClose", "writeCloseCh", "halfClose2", "halfClosed")
  BY <1>11, SameLineKeeps DEF TestChannel, LineEffect
<1>12. CASE CloseChannel(Recv, "halfClose2", "writeCloseCh", "halfClosed")
  BY <1>12, SameLineKeeps, CloseWriteFields, TargetBorn, StreamOfFacts
     DEF CloseChannel, LineEffect, Others, At
<1>13. ASSUME NEW i \in Streams, DialSucceeds(i) PROVE LineEffect
  BY <1>13, SameLineKeeps, DialSucceedsFields DEF DialSucceeds, LineEffect, Others
<1>14. ASSUME NEW i \in Streams, DialFails(i) PROVE LineEffect
  BY <1>14, SameLineKeeps, DialFailsFields DEF DialFails, LineEffect, Others
<1>15. ASSUME NEW i \in Streams, DialFailed(i) PROVE LineEffect
  BY <1>15, SameLineKeeps DEF DialFailed, LineEffect
<1>16. ASSUME NEW i \in Streams, TakePending(i) PROVE LineEffect
  BY <1>16, LineMoves, SameLineKeeps, TakePendingFields DEF LineEffect, Keeps, Others
<1>17. ASSUME NEW i \in Streams, Flush(i) PROVE LineEffect
  BY <1>17, LineMoves, SameLineKeeps, FlushFields DEF LineEffect, Keeps, Others
<1>18. ASSUME NEW i \in Streams, Serve(i) PROVE LineEffect
  BY <1>18, SameLineKeeps DEF Serve, LineEffect
<1>19. ASSUME NEW i \in Streams, Unmap(i) PROVE LineEffect
  BY <1>19, SameLineKeeps DEF Unmap, LineEffect
<1>20. ASSUME NEW i \in Streams, RemoveReliable(i) PROVE LineEffect
  BY <1>20, SameLineKeeps DEF RemoveReliable, LineEffect
<1>21. ASSUME NEW i \in Streams, WriteChunk(i) PROVE LineEffect
  <2>1. ss[i].writeCh # <<>> /\ TakesChunk(i) /\ pc[Writer(i)] = "select"
    BY <1>21, WriteFields DEF WriteChunk, At
  <2>2. Keeps(i) \/ Loses(i)
    BY <2>1, LineMoves DEF Keeps, Loses
  <2> QED
    BY <2>1, <2>2, SameLineKeeps DEF LineEffect, TakesChunk, Others
<1>22. ASSUME NEW i \in Streams, WriterTold(i) PROVE LineEffect
  BY <1>22, SameLineKeeps DEF WriterTold, LineEffect
<1>23. ASSUME NEW i \in Streams, Drain(i) PROVE LineEffect
  <2>1. CASE ss[i].writeCh = <<>>
    BY <1>23, <2>1, DrainedFields, SameLineKeeps DEF LineEffect, Others
  <2>2. CASE ss[i].writeCh # <<>>
    <3>1. TakesChunk(i) /\ pc[Writer(i)] # "idle"
      BY <1>23, <2>2, WriteFields DEF Drain
    <3>2. Keeps(i) \/ Loses(i)
      BY <2>2, <3>1, LineMoves DEF Keeps, Loses
    <3> QED
      BY <3>1, <3>2, SameLineKeeps DEF LineEffect, TakesChunk, Others
  <2> QED
    BY <2>1, <2>2
<1>24. ASSUME NEW i \in Streams, SetDeadline(i) PROVE LineEffect
  BY <1>24, SameLineKeeps, DeadlineFields DEF SetDeadline, LineEffect, Others
<1>25. ASSUME NEW i \in Streams, ReadFails(i) PROVE LineEffect
  BY <1>25, SameLineKeeps DEF ReadFails, LineEffect
<1>26. ASSUME NEW i \in Streams, ReadData(i) PROVE LineEffect
  BY <1>26, SameLineKeeps, DeadlineFields DEF ReadData, LineEffect, Others
<1>27. ASSUME NEW i \in Streams, SendReply(i) PROVE LineEffect
  BY <1>27, SameLineKeeps DEF SendReply, LineEffect
<1>28. ASSUME NEW i \in Streams, ReadEof(i) PROVE LineEffect
  BY <1>28, SameLineKeeps DEF ReadEof, LineEffect
<1>29. ASSUME NEW i \in Streams, SendClose(Run(i), "done") PROVE LineEffect
  BY <1>29, SameLineKeeps DEF SendClose, LineEffect
<1>30. ASSUME NEW i \in Streams, SendClose(Reader(i), "close") PROVE LineEffect
  BY <1>30, SameLineKeeps DEF SendClose, LineEffect
<1>31. ASSUME NEW p \in Proc, Claim(p) PROVE LineEffect
  BY <1>31, SameLineKeeps, ClaimFields, ClosingBorn, StreamOfFacts
     DEF Claim, LineEffect, Others, At, Closing
<1>32. ASSUME NEW p \in Proc, TestChannel(p, "closeWrite", "writeCloseCh", "closeWrite2", "closeAll")
       PROVE  LineEffect
  BY <1>32, SameLineKeeps DEF TestChannel, LineEffect
<1>33. ASSUME NEW p \in Proc, CloseChannel(p, "closeWrite2", "writeCloseCh", "closeAll")
       PROVE  LineEffect
  BY <1>33, SameLineKeeps, CloseWriteFields, ClosingBorn, StreamOfFacts
     DEF CloseChannel, LineEffect, Others, At, Closing, PastClaim
<1>34. ASSUME NEW p \in Proc, TestChannel(p, "closeAll", "closeCh", "closeAll2", "closeConn")
       PROVE  LineEffect
  BY <1>34, SameLineKeeps DEF TestChannel, LineEffect
<1>35. ASSUME NEW p \in Proc, CloseChannel(p, "closeAll2", "closeCh", "closeConn")
       PROVE  LineEffect
  BY <1>35, SameLineKeeps, CloseAllFields, ClosingBorn, StreamOfFacts
     DEF CloseChannel, LineEffect, Others, At, Closing, PastClaim
<1>36. ASSUME NEW p \in Proc, CloseBackend(p) PROVE LineEffect
  BY <1>36, SameLineKeeps, CloseBackendFields, ClosingBorn, StreamOfFacts
     DEF CloseBackend, LineEffect, Others, At, Closing, PastClaim
<1>37. CASE UNCHANGED vars
  BY <1>37, SameLineKeeps DEF vars, LineEffect
<1> QED
  BY NextCases, <1>1, <1>2, <1>3, <1>4, <1>5, <1>6, <1>7, <1>8, <1>9, <1>10, <1>11, <1>12,
     <1>13, <1>14, <1>15, <1>16, <1>17, <1>18, <1>19, <1>20, <1>21, <1>22, <1>23, <1>24,
     <1>25, <1>26, <1>27, <1>28, <1>29, <1>30, <1>31, <1>32, <1>33, <1>34, <1>35, <1>36,
     <1>37

\* The receive loop takes a chunk in its hand in LookUp alone.
KeepsHand == LookUp \/ (calls' = calls /\ (pc'[Recv] \in InHand => pc[Recv] \in InHand))

\* Every other step leaves calls alone.
LEMMA HandStep == AlwaysInv /\ [Next]_vars => KeepsHand
<1> SUFFICES ASSUME AlwaysInv, [Next]_vars PROVE KeepsHand
  OBVIOUS
<1> TypeInv /\ ObjectsOK /\ PcOK /\ VarsOK /\ TargetOK
  BY DEF AlwaysInv, TypeInv
<1> USE ProcNames, OwnNames DEF KeepsHand, At, Goto, PcOK, InHand
<1>1. CASE LookUp
  BY <1>1
<1>2. CASE Store
  BY <1>2 DEF Store
<1>3. CASE LoadState
  BY <1>3, TargetBorn, LoadStateGoes DEF LoadState
<1>4. CASE Pend
  BY <1>4 DEF Pend
<1>5. CASE CheckWriteClosed
  BY <1>5 DEF CheckWriteClosed
<1>6. CASE Enqueue
  BY <1>6 DEF Enqueue
<1>7. CASE EnqueueTimeout
  BY <1>7 DEF EnqueueTimeout
<1>8. CASE ClientClose
  BY <1>8 DEF ClientClose
<1>9. CASE ClientCloseDone
  BY <1>9 DEF ClientCloseDone
<1>10. CASE Shutdown
  BY <1>10 DEF Shutdown
<1>11. CASE TestChannel(Recv, "halfClose", "writeCloseCh", "halfClose2", "halfClosed")
  BY <1>11 DEF TestChannel
<1>12. CASE CloseChannel(Recv, "halfClose2", "writeCloseCh", "halfClosed")
  BY <1>12 DEF CloseChannel
<1>13. ASSUME NEW i \in Streams, DialSucceeds(i) PROVE KeepsHand
  BY <1>13 DEF DialSucceeds
<1>14. ASSUME NEW i \in Streams, DialFails(i) PROVE KeepsHand
  BY <1>14 DEF DialFails
<1>15. ASSUME NEW i \in Streams, DialFailed(i) PROVE KeepsHand
  BY <1>15 DEF DialFailed
<1>16. ASSUME NEW i \in Streams, TakePending(i) PROVE KeepsHand
  BY <1>16 DEF TakePending
<1>17. ASSUME NEW i \in Streams, Flush(i) PROVE KeepsHand
  BY <1>17 DEF Flush
<1>18. ASSUME NEW i \in Streams, Serve(i) PROVE KeepsHand
  BY <1>18 DEF Serve
<1>19. ASSUME NEW i \in Streams, Unmap(i) PROVE KeepsHand
  BY <1>19 DEF Unmap
<1>20. ASSUME NEW i \in Streams, RemoveReliable(i) PROVE KeepsHand
  BY <1>20 DEF RemoveReliable
<1>21. ASSUME NEW i \in Streams, WriteChunk(i) PROVE KeepsHand
  BY <1>21 DEF WriteChunk
<1>22. ASSUME NEW i \in Streams, WriterTold(i) PROVE KeepsHand
  BY <1>22 DEF WriterTold
<1>23. ASSUME NEW i \in Streams, Drain(i) PROVE KeepsHand
  BY <1>23 DEF Drain
<1>24. ASSUME NEW i \in Streams, SetDeadline(i) PROVE KeepsHand
  BY <1>24 DEF SetDeadline
<1>25. ASSUME NEW i \in Streams, ReadFails(i) PROVE KeepsHand
  BY <1>25 DEF ReadFails
<1>26. ASSUME NEW i \in Streams, ReadData(i) PROVE KeepsHand
  BY <1>26 DEF ReadData
<1>27. ASSUME NEW i \in Streams, SendReply(i) PROVE KeepsHand
  BY <1>27 DEF SendReply
<1>28. ASSUME NEW i \in Streams, ReadEof(i) PROVE KeepsHand
  BY <1>28 DEF ReadEof
<1>29. ASSUME NEW i \in Streams, SendClose(Run(i), "done") PROVE KeepsHand
  BY <1>29 DEF SendClose
<1>30. ASSUME NEW i \in Streams, SendClose(Reader(i), "close") PROVE KeepsHand
  BY <1>30 DEF SendClose
<1>31. ASSUME NEW p \in Proc, Claim(p) PROVE KeepsHand
  BY <1>31 DEF Claim, Closing, PastClaim, After
<1>32. ASSUME NEW p \in Proc, TestChannel(p, "closeWrite", "writeCloseCh", "closeWrite2", "closeAll")
       PROVE  KeepsHand
  BY <1>32 DEF TestChannel, Closing, PastClaim
<1>33. ASSUME NEW p \in Proc, CloseChannel(p, "closeWrite2", "writeCloseCh", "closeAll")
       PROVE  KeepsHand
  BY <1>33 DEF CloseChannel, Closing, PastClaim
<1>34. ASSUME NEW p \in Proc, TestChannel(p, "closeAll", "closeCh", "closeAll2", "closeConn")
       PROVE  KeepsHand
  BY <1>34 DEF TestChannel, Closing, PastClaim
<1>35. ASSUME NEW p \in Proc, CloseChannel(p, "closeAll2", "closeCh", "closeConn")
       PROVE  KeepsHand
  BY <1>35 DEF CloseChannel, Closing, PastClaim
<1>36. ASSUME NEW p \in Proc, CloseBackend(p) PROVE KeepsHand
  BY <1>36 DEF CloseBackend, Closing, PastClaim, After
<1>37. CASE UNCHANGED vars
  BY <1>37 DEF vars
<1> QED
  BY NextCases, <1>1, <1>2, <1>3, <1>4, <1>5, <1>6, <1>7, <1>8, <1>9, <1>10, <1>11, <1>12,
     <1>13, <1>14, <1>15, <1>16, <1>17, <1>18, <1>19, <1>20, <1>21, <1>22, <1>23, <1>24,
     <1>25, <1>26, <1>27, <1>28, <1>29, <1>30, <1>31, <1>32, <1>33, <1>34, <1>35, <1>36,
     <1>37

\* The latest chunk is never an earlier one again, and a chunk put down is the
\* latest.
LEMMA LatestStep ==
    ASSUME AlwaysInv, [Next]_vars
    PROVE  /\ Latest \in Int /\ Latest' \in Int /\ Latest <= Latest'
           /\ pc[Recv] \in InHand /\ pc'[Recv] \notin InHand /\ calls' = calls =>
                 calls \in Chunk /\ Latest = calls - 1 /\ Latest' = calls
<1>1. calls \in Int /\ calls' \in Int
  BY VarsStep, ServerAssumption DEF AlwaysInv, TypeInv, VarsOK
<1>2. /\ Latest \in {calls - 1, calls} /\ Latest' \in {calls' - 1, calls'}
      /\ pc[Recv] \notin InHand => Latest = calls
      /\ pc[Recv] \in InHand => Latest = calls - 1
      /\ pc'[Recv] \notin InHand => Latest' = calls'
  BY DEF Latest
<1>3. CASE LookUp
  <2>1. calls' = calls + 1
    BY <1>3 DEF LookUp
  <2>2. pc[Recv] \notin InHand
    BY <1>3 DEF LookUp, At, InHand
  <2> QED
    BY <1>1, <1>2, <2>1, <2>2
<1>4. CASE calls' = calls /\ (pc'[Recv] \in InHand => pc[Recv] \in InHand)
  <2>1. pc[Recv] \in InHand => calls \in Chunk
    BY CallsType DEF AlwaysInv, TypeInv
  <2> QED
    BY <1>1, <1>2, <1>4, <2>1
<1> QED
  BY <1>3, <1>4, HandStep DEF KeepsHand

\* A bound that grows is a bound.
LEMMA BelowMore ==
    ASSUME NEW s \in Seq(Chunk), NEW m \in Int, NEW n \in Int, m <= n, Below(s, m)
    PROVE  Below(s, n)
<1>1. \A a \in 1 .. Len(s) : s[a] \in Chunk
  OBVIOUS
<1>2. Chunk \subseteq Int
  BY DEF Chunk
<1>3. ASSUME NEW a \in 1 .. Len(s) PROVE s[a] <= n
  <2>1. s[a] \in Int
    BY <1>1, <1>2
  <2>2. s[a] <= m
    BY DEF Below
  <2> QED
    BY <2>1, <2>2
<1> QED
  BY <1>3 DEF Below

\* The chunks of an object stay in order.
LEMMA LineStep == AlwaysInv /\ [Next]_vars => \A k \in Streams : LineOK(k)'
<1> SUFFICES ASSUME AlwaysInv, [Next]_vars, NEW k \in Streams PROVE LineOK(k)'
  OBVIOUS
<1> DEFINE L == Line(ss[k])
<1>1. /\ L \in Seq(Chunk) /\ ss[k].out \in Seq(Chunk) /\ ss[k].writeCh \in Seq(Chunk)
      /\ Increasing(L) /\ Below(L, Latest)
  BY LineType, ObjectFields DEF AlwaysInv, TypeInv, OrderInv, LineOK
<1>2. /\ Latest \in Int /\ Latest' \in Int /\ Latest <= Latest'
      /\ pc[Recv] \in InHand /\ pc'[Recv] \notin InHand /\ calls' = calls =>
            calls \in Chunk /\ Latest = calls - 1 /\ Latest' = calls
  BY LatestStep
<1>3. SUFFICES Increasing(L') /\ Below(L', Latest')
  BY DEF LineOK, Increasing, Below
<1>4. ASSUME NEW s \in Seq(Chunk), Below(s, Latest) PROVE Below(s, Latest')
  BY <1>2, <1>4, BelowMore
<1>5. CASE Keeps(k)
  BY <1>1, <1>4, <1>5 DEF Keeps
<1>6. CASE Grows(k)
  <2>1. /\ L' = Append(L, calls) /\ calls \in Chunk /\ Latest = calls - 1
        /\ Latest' = calls
    BY <1>2, <1>6 DEF Grows
  <2>2. Latest < calls
    BY <1>2, <2>1
  <2>3. Increasing(Append(L, calls)) /\ Below(Append(L, calls), calls)
    BY <1>1, <1>2, <2>1, <2>2, AppendIncreasing
  <2> QED
    BY <2>1, <2>3
<1>7. CASE Loses(k)
  <2>1. /\ L' = ss[k].out \o Tail(ss[k].writeCh) /\ ss[k].writeCh # <<>>
        /\ L = ss[k].out \o ss[k].writeCh
    BY <1>7 DEF Loses
  <2>2. Increasing(L') /\ Below(L', Latest)
    BY <1>1, <1>2, <2>1, DropIncreasing
  <2>3. L' \in Seq(Chunk)
    BY <1>1, <2>1
  <2> QED
    BY <1>4, <2>2, <2>3
<1> QED
  BY <1>5, <1>6, <1>7, LineEffects DEF LineEffect
-----------------------------------------------------------------------------
(***************************************************************************)
(* What holds whatever happens.                                            *)
(***************************************************************************)

\* In the initial state no object is born and nothing is on its way.
LEMMA InitAlways == Init => AlwaysInv
<1> SUFFICES ASSUME Init PROVE AlwaysInv
  OBVIOUS
<1>1. \A i \in Streams : ss[i] = Unborn
  BY DEF Init
<1>2. PcOK /\ TargetOK
  BY ProcNames DEF Init, PcOK, TargetOK, Label, RecvLabel, ShutLabel, RunLabel, WriterLabel,
     ReaderLabel, InHand, Closing, PastClaim
<1>3. VarsOK
  <2>1. target \in [{Recv, Shut} -> Streams \cup {None}] /\ entry \in Streams \cup {None}
    BY DEF Init
  <2>2. calls \in 0 .. Chunks
    BY ServerAssumption DEF Init
  <2> QED
    BY <2>1, <2>2 DEF Init, VarsOK
<1>4. ObjectsOK
  <2>1. Unborn \in Object /\ Len(Unborn.writeCh) = 0
    BY DEF Unborn, Object
  <2> QED
    BY <1>1, <2>1, ServerAssumption DEF ObjectsOK, Init
<1>5. TellInv
  BY ProcNames DEF Init, TellInv, Closing, PastClaim
<1>6. ASSUME NEW i \in Streams PROVE LifeOK(i) /\ LineOK(i)
  <2>1. LifeOK(i)
    BY <1>1, ProcNames DEF Init, LifeOK, Unborn, Streams, None
  <2>2. Line(ss[i]) = <<>>
    BY <1>1 DEF Line, Unborn
  <2> QED
    BY <2>1, <2>2 DEF LineOK, Increasing, Below
<1> QED
  BY <1>2, <1>3, <1>4, <1>5, <1>6 DEF AlwaysInv, TypeInv, OrderInv

\* Every step keeps the invariant.
LEMMA AlwaysStep == AlwaysInv /\ [Next]_vars => AlwaysInv'
<1> SUFFICES ASSUME AlwaysInv, [Next]_vars PROVE AlwaysInv'
  OBVIOUS
<1>1. TypeInv'
  BY PcStep, VarsStep, TargetStep, ObjectsStep DEF TypeInv
<1>2. OrderInv'
  BY LifeStep, LineStep DEF OrderInv
<1> QED
  BY <1>1, <1>2, TellStep DEF AlwaysInv

\* The invariant holds.
LEMMA AlwaysHolds == Spec => []AlwaysInv
BY InitAlways, AlwaysStep, PTL DEF Spec

\* TypeOK: every variable has its type, and writeCh never holds more than it can.
THEOREM TypeCorrect == Spec => []TypeOK
<1>1. AlwaysInv => TypeOK
  BY DEF AlwaysInv, TypeInv, PcOK, VarsOK, ObjectsOK, TypeOK
<1> QED
  BY <1>1, AlwaysHolds, PTL

\* NeverReordered: whatever fails and whoever closes, no backend connection
\* gets a chunk twice or before an earlier one.
THEOREM InOrder == Spec => []NeverReordered
<1>1. AlwaysInv => NeverReordered
  <2> SUFFICES ASSUME AlwaysInv, NEW i \in Streams
               PROVE  \A j \in 2 .. Len(ss[i].out) : ss[i].out[j - 1] < ss[i].out[j]
    BY DEF NeverReordered
  <2>1. /\ ss[i].out \in Seq(Chunk) /\ ss[i].flush \in Seq(Chunk)
        /\ ss[i].out \o ss[i].flush \in Seq(Chunk)
        /\ ss[i].pending \o ss[i].writeCh \in Seq(Chunk)
    BY ObjectFields, LineType DEF AlwaysInv, TypeInv
  <2>2. Increasing((ss[i].out \o ss[i].flush) \o (ss[i].pending \o ss[i].writeCh))
    BY DEF AlwaysInv, OrderInv, LineOK, Line
  <2>3. Increasing(ss[i].out \o ss[i].flush)
    BY <2>1, <2>2, BeginIncreasing
  <2>4. Increasing(ss[i].out)
    BY <2>1, <2>3, BeginIncreasing
  <2> SUFFICES ASSUME NEW j \in 2 .. Len(ss[i].out) PROVE ss[i].out[j - 1] < ss[i].out[j]
    OBVIOUS
  <2>5. j - 1 \in 1 .. Len(ss[i].out) /\ j \in 1 .. Len(ss[i].out) /\ j - 1 < j
    BY <2>1
  <2> QED
    BY <2>4, <2>5 DEF Increasing
<1> QED
  BY <1>1, AlwaysHolds, PTL

\* TellsClient: when the goroutines of a stream have ended, the client was sent
\* a CLOSE or had closed the stream itself, or a write of pending data failed.
THEOREM ClientTold == Spec => []TellsClient
<1>1. AlwaysInv => TellsClient
  BY DEF AlwaysInv, TellInv, Told, TellsClient
<1> QED
  BY <1>1, AlwaysHolds, PTL
-----------------------------------------------------------------------------
(***************************************************************************)
(* A server that is not shut down: the state of an object.                 *)
(***************************************************************************)

\* Goroutine p moves alone.
Rest(p) == \A q \in Proc : q # p => pc'[q] = pc[q]
Moves(p, from, to) == pc[p] = from /\ pc'[p] = to /\ Rest(p)

\* Where the goroutines of an object go.
LEMMA RunMoves ==
    ASSUME PcOK, NEW i \in Streams
    PROVE  /\ DialSucceeds(i) => Moves(Run(i), "dial", "connected")
           /\ DialFails(i) => Moves(Run(i), "dial", "dialFailed")
           /\ TakePending(i) => Moves(Run(i), "connected", "flush")
           /\ Flush(i) => \/ Moves(Run(i), "flush", "flush") /\ ss[i].backend = "open"
                         \/ Moves(Run(i), "flush", "close")
BY ProcNames
   DEF PcOK, DialSucceeds, DialFails, TakePending, Flush, At, Goto, Moves, Rest, CanWrite

\* Where its writer goes.
LEMMA WriterMoves ==
    ASSUME PcOK, NEW i \in Streams
    PROVE  /\ WriteChunk(i) => \/ Moves(Writer(i), "select", "select")
                              \/ Moves(Writer(i), "select", "close")
           /\ Drain(i) /\ ss[i].writeCh # <<>> =>
                 \E l \in {"drain", "drainFin"} : Moves(Writer(i), l, l)
           /\ Drain(i) /\ ss[i].writeCh = <<>> =>
                 \E l \in {"drain", "drainFin"} : Moves(Writer(i), l, "done")
BY ProcNames DEF PcOK, WriteChunk, Drain, At, Goto, Moves, Rest

\* Where a goroutine goes that closes an object.
LEMMA CloserMoves ==
    ASSUME PcOK, NEW p \in Proc
    PROVE  /\ Claim(p) => Moves(p, "close", IF ss[StreamOf(p)].state = "closed"
                                            THEN After(p) ELSE "closeWrite")
           /\ CloseBackend(p) => Moves(p, "closeConn", After(p))
           /\ CloseChannel(p, "closeWrite2", "writeCloseCh", "closeAll") =>
                 Moves(p, "closeWrite2", "closeAll")
           /\ CloseChannel(p, "closeAll2", "closeCh", "closeConn") =>
                 Moves(p, "closeAll2", "closeConn")
           /\ TestChannel(p, "closeWrite", "writeCloseCh", "closeWrite2", "closeAll") =>
                 \E l \in {"closeWrite2", "closeAll"} : Moves(p, "closeWrite", l)
           /\ TestChannel(p, "closeAll", "closeCh", "closeAll2", "closeConn") =>
                 \E l \in {"closeAll2", "closeConn"} : Moves(p, "closeAll", l)
BY DEF PcOK, Claim, CloseBackend, CloseChannel, TestChannel, At, Goto, Moves, Rest

\* Who closes an object is not Server.Close.
LEMMA CloserWorks ==
    ASSUME QuietOK, AlwaysInv, NEW p \in Proc, pc[p] \in Closing
    PROVE  /\ StreamOf(p) \in Streams
           /\ \A ls : pc[p] \in ls => Somebody(StreamOf(p), ls)
           /\ p = Recv => StreamOf(p) = target[Recv]
           /\ p # Shut
           /\ \A i \in Streams : p \in {Run(i), Writer(i), Reader(i)} => StreamOf(p) = i
           /\ After(p) \in {"idle", "done"} /\ (p # Recv => After(p) = "done")
<1>1. p # Shut
  BY DEF QuietOK, Closing, PastClaim
<1> QED
  BY <1>1, ClosingBorn, StreamOfFacts, ProcCases DEF Somebody, After

\* A goroutine moves: those that work on other objects are where they were.
LEMMA SomebodyKept ==
    ASSUME NEW p \in Proc, Rest(p), NEW k \in Streams, NEW ls, target' = target,
           p \notin {Run(k), Writer(k), Reader(k)}, p = Recv => target[Recv] # k
    PROVE  Somebody(k, ls)' <=> Somebody(k, ls)
BY ProcNames DEF Rest, Somebody

\* The goroutines that are at other labels than the one that moves.
LEMMA SomebodyElse ==
    ASSUME NEW p \in Proc, Rest(p), NEW k \in Streams, NEW ls, target' = target,
           pc[p] \notin ls, Somebody(k, ls)
    PROVE  Somebody(k, ls)'
BY ProcNames DEF Rest, Somebody

\* Where LookUp goes: to the object in the map, or to a new one.
LEMMA LookUpMoves ==
    ASSUME PcOK, VarsOK, LookUp
    PROVE  /\ pc[Recv] = "idle" /\ entry' = entry
           /\ \A k \in Streams : pc'[Writer(k)] = pc[Writer(k)] /\ pc'[Reader(k)] = pc[Reader(k)]
           /\ \/ /\ entry # None /\ ss' = ss /\ pc'[Recv] = "loaded" /\ target'[Recv] = entry
                 /\ \A k \in Streams : pc'[Run(k)] = pc[Run(k)]
              \/ \E i \in Streams :
                    /\ entry = None /\ Fresh(i) /\ ss' = [ss EXCEPT ![i].state = "connecting"]
                    /\ pc'[Recv] = "created" /\ target'[Recv] = i /\ pc'[Run(i)] = "dial"
                    /\ \A k \in Streams : k # i => pc'[Run(k)] = pc[Run(k)]
BY ProcNames, OwnNames, NamesDiffer DEF LookUp, At, Goto, PcOK, VarsOK

\* Until Server.Close is called, the step is none of it.
LEMMA NoShutdown ==
    ASSUME PcOK, QuietOK, pc'[Shut] = "idle"
    PROVE  ~Shutdown
BY ProcNames DEF Shutdown, PcOK, QuietOK, At, Goto

\* Nobody takes Server.Close back to before its call.
LEMMA ShutStays ==
    ASSUME AlwaysInv, [Next]_vars, pc[Shut] # "idle"
    PROVE  pc'[Shut] # "idle"
<1> PcOK
  BY DEF AlwaysInv, TypeInv
<1> USE ProcNames, OwnNames DEF PcOK, At, Goto
<1>1. CASE LookUp \/ Store \/ LoadState \/ Pend \/ CheckWriteClosed \/ Enqueue \/ EnqueueTimeout
  BY <1>1 DEF LookUp, Store, LoadState, Pend, CheckWriteClosed, Enqueue, EnqueueTimeout
<1>2. CASE ClientClose \/ ClientCloseDone \/ Shutdown
  BY <1>2 DEF ClientClose, ClientCloseDone, Shutdown
<1>3. CASE \/ TestChannel(Recv, "halfClose", "writeCloseCh", "halfClose2", "halfClosed")
           \/ CloseChannel(Recv, "halfClose2", "writeCloseCh", "halfClosed")
  BY <1>3 DEF TestChannel, CloseChannel
<1>4. ASSUME NEW i \in Streams,
             \/ DialSucceeds(i) \/ DialFails(i) \/ DialFailed(i) \/ TakePending(i)
             \/ Flush(i) \/ Serve(i) \/ Unmap(i) \/ RemoveReliable(i)
      PROVE  pc'[Shut] # "idle"
  BY <1>4 DEF DialSucceeds, DialFails, DialFailed, TakePending, Flush, Serve, Unmap,
     RemoveReliable
<1>5. ASSUME NEW i \in Streams,
             \/ WriteChunk(i) \/ WriterTold(i) \/ Drain(i) \/ SetDeadline(i)
             \/ ReadFails(i) \/ ReadData(i) \/ SendReply(i) \/ ReadEof(i)
             \/ SendClose(Run(i), "done") \/ SendClose(Reader(i), "close")
      PROVE  pc'[Shut] # "idle"
  BY <1>5 DEF WriteChunk, WriterTold, Drain, SetDeadline, ReadFails, ReadData, SendReply,
     ReadEof, SendClose
<1>6. ASSUME NEW p \in Proc, Close(p) PROVE pc'[Shut] # "idle"
  BY <1>6 DEF Close, Claim, TestChannel, CloseChannel, CloseBackend, After
<1>7. CASE UNCHANGED vars
  BY <1>7 DEF vars
<1> QED
  BY NextCases, <1>1, <1>2, <1>3, <1>4, <1>5, <1>6, <1>7 DEF Close

\* The state while connectAndRun dials.
LEMMA DialStep ==
    ASSUME pc'[Shut] = "idle", QuietInv, [Next]_vars
    PROVE  \A k \in Streams : DialOK(k)'
<1> TypeInv /\ ObjectsOK /\ PcOK /\ VarsOK /\ TargetOK /\ AlwaysInv /\ QuietOK
  BY DEF QuietInv, AlwaysInv, TypeInv, StateInv
<1> \A i \in Streams : LifeOK(i) /\ DialOK(i) /\ ClosesOK(i) /\ HalfOK(i) /\ EndOK(i)
  BY DEF QuietInv, AlwaysInv, OrderInv, StateInv
<1> USE ProcNames, OwnNames, NamesDiffer
       DEF DialOK, LifeOK, PcOK, At, Goto, Closing, PastClaim, InHand
<1>1. CASE LookUp
  BY <1>1, CreateFields DEF LookUp, Others, SameLife, SameHalf, Fresh
<1>2. CASE Store
  BY <1>2 DEF Store
<1>3. CASE LoadState
  <2>1. PICK i \in Streams : i = target[Recv]
    BY <1>3, TargetBorn DEF LoadState
  <2> QED
    BY <1>3, <2>1, LoadStateFields, LoadStateGoes DEF Others, SameLife
<1>4. CASE Pend
  BY <1>4, PendFields, PendEffect, TargetBorn DEF Pend, Others, SameLife, SameHalf
<1>5. CASE CheckWriteClosed
  BY <1>5 DEF CheckWriteClosed
<1>6. CASE Enqueue
  BY <1>6, EnqueueFields, TargetBorn DEF Enqueue, Others, SameLife, SameHalf
<1>7. CASE EnqueueTimeout
  BY <1>7 DEF EnqueueTimeout
<1>8. CASE ClientClose
  <2>1. \A k \in Streams : ss'[k].state = ss[k].state /\ ss'[k].backend = ss[k].backend
    BY <1>8, ClientCloseFields DEF SameLife
  <2>2. \A k \in Streams : pc'[Run(k)] = pc[Run(k)] /\ pc'[Writer(k)] = pc[Writer(k)]
    BY <1>8 DEF ClientClose
  <2> QED
    BY <2>1, <2>2
<1>9. CASE ClientCloseDone
  BY <1>9 DEF ClientCloseDone
<1>10. CASE Shutdown
  BY <1>10, NoShutdown
<1>11. CASE TestChannel(Recv, "halfClose", "writeCloseCh", "halfClose2", "halfClosed")
  BY <1>11 DEF TestChannel
<1>12. CASE CloseChannel(Recv, "halfClose2", "writeCloseCh", "halfClosed")
  BY <1>12, CloseWriteFields, TargetBorn, StreamOfFacts
     DEF CloseChannel, Others, SameLife, SameHalf
<1>13. ASSUME NEW i \in Streams, DialSucceeds(i) PROVE \A k \in Streams : DialOK(k)'
  BY <1>13, RunMoves, DialSucceedsFields DEF Others, Moves, Rest
<1>14. ASSUME NEW i \in Streams, DialFails(i) PROVE \A k \in Streams : DialOK(k)'
  BY <1>14, DialFailsFields DEF DialFails, Others, SameLife, SameHalf
<1>15. ASSUME NEW i \in Streams, DialFailed(i) PROVE \A k \in Streams : DialOK(k)'
  BY <1>15 DEF DialFailed
<1>16. ASSUME NEW i \in Streams, TakePending(i) PROVE \A k \in Streams : DialOK(k)'
  BY <1>16, RunMoves, TakePendingFields DEF Others, Moves, Rest
<1>17. ASSUME NEW i \in Streams, Flush(i) PROVE \A k \in Streams : DialOK(k)'
  BY <1>17, RunMoves, FlushFields DEF Others, Moves, Rest, SameLife
<1>18. ASSUME NEW i \in Streams, Serve(i) PROVE \A k \in Streams : DialOK(k)'
  BY <1>18 DEF Serve
<1>19. ASSUME NEW i \in Streams, Unmap(i) PROVE \A k \in Streams : DialOK(k)'
  BY <1>19 DEF Unmap
<1>20. ASSUME NEW i \in Streams, RemoveReliable(i) PROVE \A k \in Streams : DialOK(k)'
  BY <1>20 DEF RemoveReliable
<1>21. ASSUME NEW i \in Streams, WriteChunk(i) PROVE \A k \in Streams : DialOK(k)'
  <2>0. \A k \in Streams : pc'[Writer(k)] = pc[Writer(k)] \/ (k = i /\ pc[Writer(i)] # "idle")
    BY <1>21, WriterMoves DEF Moves, Rest
  <2>1. /\ \A k \in Streams : pc'[Run(k)] = pc[Run(k)]
        /\ \A k \in Streams : ss'[k].state = ss[k].state /\ ss'[k].backend = ss[k].backend
    BY <1>21, WriterMoves, WriteFields DEF Others, Moves, Rest, TakesChunk, SameLife
  <2> QED
    BY <2>0, <2>1
<1>22. ASSUME NEW i \in Streams, WriterTold(i) PROVE \A k \in Streams : DialOK(k)'
  BY <1>22 DEF WriterTold
<1>23. ASSUME NEW i \in Streams, Drain(i) PROVE \A k \in Streams : DialOK(k)'
  <2>0. \A k \in Streams : pc'[Writer(k)] = pc[Writer(k)] \/ (k = i /\ pc[Writer(i)] # "idle")
    BY <1>23, WriterMoves DEF Moves, Rest
  <2>1. /\ \A k \in Streams : pc'[Run(k)] = pc[Run(k)] /\ ss'[k].state = ss[k].state
        /\ \A k \in Streams : k # i => ss'[k].backend = ss[k].backend
        /\ ss'[i].backend \in {ss[i].backend, "finSent"}
        /\ pc[Run(i)] \in {"wait", "remove", "done"}
    <3>1. \A k \in Streams : pc'[Run(k)] = pc[Run(k)]
      BY <1>23, WriterMoves DEF Moves, Rest
    <3>2. /\ \A k \in Streams : ss'[k].state = ss[k].state
          /\ \A k \in Streams : k # i => ss'[k].backend = ss[k].backend
          /\ ss'[i].backend \in {ss[i].backend, "finSent"}
      BY <1>23, WriteFields, DrainedFields DEF Others, TakesChunk, SameLife
    <3>3. pc[Run(i)] \in {"wait", "remove", "done"}
      BY <1>23 DEF Drain
    <3> QED
      BY <3>1, <3>2, <3>3
  <2> QED
    BY <2>0, <2>1
<1>24. ASSUME NEW i \in Streams, SetDeadline(i) PROVE \A k \in Streams : DialOK(k)'
  BY <1>24, DeadlineFields DEF SetDeadline, Others, SameLife, SameHalf
<1>25. ASSUME NEW i \in Streams, ReadFails(i) PROVE \A k \in Streams : DialOK(k)'
  BY <1>25 DEF ReadFails
<1>26. ASSUME NEW i \in Streams, ReadData(i) PROVE \A k \in Streams : DialOK(k)'
  BY <1>26, DeadlineFields DEF ReadData, Others, SameLife, SameHalf
<1>27. ASSUME NEW i \in Streams, SendReply(i) PROVE \A k \in Streams : DialOK(k)'
  BY <1>27 DEF SendReply
<1>28. ASSUME NEW i \in Streams, ReadEof(i) PROVE \A k \in Streams : DialOK(k)'
  BY <1>28 DEF ReadEof
<1>29. ASSUME NEW i \in Streams, SendClose(Run(i), "done")
       PROVE  \A k \in Streams : DialOK(k)'
  BY <1>29 DEF SendClose
<1>30. ASSUME NEW i \in Streams, SendClose(Reader(i), "close")
       PROVE  \A k \in Streams : DialOK(k)'
  BY <1>30 DEF SendClose
<1>31. ASSUME NEW p \in Proc, Claim(p) PROVE \A k \in Streams : DialOK(k)'
  <2>1. PICK i \in Streams : i = StreamOf(p) /\ ss[i].state # "connecting"
    BY <1>31, CloserMoves, CloserWorks DEF Moves, ClosesOK
  <2>2. /\ Others(i) /\ ss'[i].state = "closed" /\ ss'[i].backend = ss[i].backend
    BY <1>31, <2>1, ClaimFields
  <2>3. \A k \in Streams : pc'[Run(k)] = pc[Run(k)] \/ (k = i /\ pc'[Run(k)] \in {"done", "closeWrite"})
    BY <1>31, <2>1, CloserMoves, CloserWorks DEF Moves, Rest
  <2>4. \A k \in Streams : pc'[Writer(k)] = pc[Writer(k)] \/ pc[Writer(k)] # "idle"
    BY <1>31, CloserMoves DEF Moves, Rest
  <2> QED
    BY <2>1, <2>2, <2>3, <2>4 DEF Others
<1>32. ASSUME NEW p \in Proc, TestChannel(p, "closeWrite", "writeCloseCh", "closeWrite2", "closeAll")
       PROVE  \A k \in Streams : DialOK(k)'
  BY <1>32, ProcCases DEF TestChannel
<1>33. ASSUME NEW p \in Proc, CloseChannel(p, "closeWrite2", "writeCloseCh", "closeAll")
       PROVE  \A k \in Streams : DialOK(k)'
  BY <1>33, ProcCases, CloseWriteFields, ClosingBorn, StreamOfFacts
     DEF CloseChannel, Others, SameLife, SameHalf
<1>34. ASSUME NEW p \in Proc, TestChannel(p, "closeAll", "closeCh", "closeAll2", "closeConn")
       PROVE  \A k \in Streams : DialOK(k)'
  BY <1>34, ProcCases DEF TestChannel
<1>35. ASSUME NEW p \in Proc, CloseChannel(p, "closeAll2", "closeCh", "closeConn")
       PROVE  \A k \in Streams : DialOK(k)'
  BY <1>35, ProcCases, CloseAllFields, ClosingBorn, StreamOfFacts
     DEF CloseChannel, Others, SameLife, SameHalf
<1>36. ASSUME NEW p \in Proc, CloseBackend(p) PROVE \A k \in Streams : DialOK(k)'
  <2>1. PICK i \in Streams : i = StreamOf(p) /\ ss[i].state = "closed"
    BY <1>36, CloserMoves, CloserWorks DEF Moves, ClosesOK
  <2>2. /\ Others(i) /\ ss'[i].state = ss[i].state
        /\ ss[i].backend = "nil" <=> ss'[i].backend = "nil"
    BY <1>36, <2>1, CloseBackendFields
  <2>3. \A k \in Streams : pc'[Run(k)] = pc[Run(k)] \/ (k = i /\ pc'[Run(k)] = "done")
    BY <1>36, <2>1, CloserMoves, CloserWorks DEF Moves, Rest
  <2>4. \A k \in Streams : pc'[Writer(k)] = pc[Writer(k)] \/ pc[Writer(k)] # "idle"
    BY <1>36, CloserMoves DEF Moves, Rest
  <2> QED
    BY <2>1, <2>2, <2>3, <2>4 DEF Others
<1>37. CASE UNCHANGED vars
  BY <1>37 DEF vars
<1> QED
  BY NextCases, <1>1, <1>2, <1>3, <1>4, <1>5, <1>6, <1>7, <1>8, <1>9, <1>10, <1>11, <1>12,
     <1>13, <1>14, <1>15, <1>16, <1>17, <1>18, <1>19, <1>20, <1>21, <1>22, <1>23, <1>24,
     <1>25, <1>26, <1>27, <1>28, <1>29, <1>30, <1>31, <1>32, <1>33, <1>34, <1>35, <1>36,
     <1>37

\* The state when somebody closes the object.
LEMMA ClosesStep ==
    ASSUME pc'[Shut] = "idle", QuietInv, [Next]_vars
    PROVE  \A k \in Streams : ClosesOK(k)'
<1> TypeInv /\ ObjectsOK /\ PcOK /\ VarsOK /\ TargetOK /\ AlwaysInv /\ QuietOK
  BY DEF QuietInv, AlwaysInv, TypeInv, StateInv
<1> \A i \in Streams : LifeOK(i) /\ DialOK(i) /\ ClosesOK(i) /\ HalfOK(i) /\ EndOK(i)
  BY DEF QuietInv, AlwaysInv, OrderInv, StateInv
<1> USE ProcNames, OwnNames, NamesDiffer
       DEF ClosesOK, PcOK, At, Goto, Closing, PastClaim, InHand
<1>1. CASE LookUp
  <2>1. /\ pc'[Recv] \in {"loaded", "created"} /\ pc[Recv] = "idle"
        /\ \A k \in Streams : pc'[Writer(k)] = pc[Writer(k)] /\ pc'[Reader(k)] = pc[Reader(k)]
    BY <1>1 DEF LookUp
  <2>2. CASE ss' = ss /\ \A k \in Streams : pc'[Run(k)] = pc[Run(k)]
    BY <2>1, <2>2 DEF Somebody
  <2>3. CASE \E i \in Streams : /\ ss[i].state = "unborn" /\ ss' = [ss EXCEPT ![i].state = "connecting"]
                                /\ pc'[Run(i)] = "dial"
                                /\ \A k \in Streams : k # i => pc'[Run(k)] = pc[Run(k)]
    <3>1. PICK i \in Streams : /\ ss[i].state = "unborn" /\ ss' = [ss EXCEPT ![i].state = "connecting"]
                               /\ pc'[Run(i)] = "dial"
                               /\ \A k \in Streams : k # i => pc'[Run(k)] = pc[Run(k)]
      BY <2>3
    <3>2. Others(i) /\ ss'[i].state = "connecting"
      BY <3>1, CreateFields
    <3>3. pc[Writer(i)] = "idle" /\ pc[Reader(i)] = "idle"
      BY <3>1 DEF LifeOK
    <3> QED
      BY <2>1, <3>1, <3>2, <3>3 DEF Others, Somebody
  <2>4. \/ ss' = ss /\ \A k \in Streams : pc'[Run(k)] = pc[Run(k)]
        \/ \E i \in Streams : /\ ss[i].state = "unborn" /\ ss' = [ss EXCEPT ![i].state = "connecting"]
                              /\ pc'[Run(i)] = "dial"
                              /\ \A k \in Streams : k # i => pc'[Run(k)] = pc[Run(k)]
    BY <1>1 DEF LookUp, Fresh
  <2> QED
    BY <2>2, <2>3, <2>4
<1>2. CASE Store
  BY <1>2 DEF Store, Somebody
<1>3. CASE LoadState
  <2>1. PICK i \in Streams : i = target[Recv]
    BY <1>3, TargetBorn DEF LoadState
  <2>2. target' = target /\ \A k \in Streams : ss'[k].state = ss[k].state
    BY <1>3, <2>1, LoadStateFields DEF LoadState, Others, SameLife
  <2> QED
    BY <1>3, <2>1, <2>2, LoadStateGoes DEF Somebody
<1>4. CASE Pend
  BY <1>4, PendFields, PendEffect, TargetBorn DEF Pend, Somebody, Others, SameLife, SameHalf
<1>5. CASE CheckWriteClosed
  BY <1>5 DEF CheckWriteClosed, Somebody
<1>6. CASE Enqueue
  BY <1>6, EnqueueFields, TargetBorn DEF Enqueue, Somebody, Others, SameLife, SameHalf
<1>7. CASE EnqueueTimeout
  BY <1>7, TargetBorn
     DEF EnqueueTimeout, ClosesOK, Somebody, LifeOK, PcOK, At, Goto, Closing, PastClaim
<1>8. CASE ClientClose
  BY <1>8, ClientCloseFields DEF ClientClose, Somebody, Others, SameLife, SameHalf
<1>9. CASE ClientCloseDone
  BY <1>9 DEF ClientCloseDone, Somebody
<1>10. CASE Shutdown
  BY <1>10, NoShutdown
<1>11. CASE TestChannel(Recv, "halfClose", "writeCloseCh", "halfClose2", "halfClosed")
  BY <1>11 DEF TestChannel, Somebody
<1>12. CASE CloseChannel(Recv, "halfClose2", "writeCloseCh", "halfClosed")
  BY <1>12, CloseWriteFields, TargetBorn, StreamOfFacts
     DEF CloseChannel, Somebody, Others, SameLife, SameHalf
<1>13. ASSUME NEW i \in Streams, DialSucceeds(i) PROVE \A k \in Streams : ClosesOK(k)'
  BY <1>13, DialSucceedsFields DEF DialSucceeds, Somebody, Others, SameLife, SameHalf
<1>14. ASSUME NEW i \in Streams, DialFails(i) PROVE \A k \in Streams : ClosesOK(k)'
  BY <1>14, DialFailsFields DEF DialFails, Somebody, Others, SameLife, SameHalf
<1>15. ASSUME NEW i \in Streams, DialFailed(i) PROVE \A k \in Streams : ClosesOK(k)'
  BY <1>15 DEF DialFailed, Somebody
<1>16. ASSUME NEW i \in Streams, TakePending(i) PROVE \A k \in Streams : ClosesOK(k)'
  <2>1. target' = target /\ ss[i].state = "connecting"
    BY <1>16 DEF TakePending, DialOK
  <2>2. Others(i) /\ ss'[i].state = "connected" /\ Moves(Run(i), "connected", "flush")
    BY <1>16, TakePendingFields, RunMoves
  <2> QED
    BY <2>1, <2>2 DEF Moves, Rest, Others, Somebody
<1>17. ASSUME NEW i \in Streams, Flush(i) PROVE \A k \in Streams : ClosesOK(k)'
  <2>1. target' = target /\ ss[i].state # "connecting"
    BY <1>17 DEF Flush, LifeOK
  <2>2. \A k \in Streams : ss'[k].state = ss[k].state
    BY <1>17, FlushFields DEF Others, SameLife
  <2>3. CASE Moves(Run(i), "flush", "flush")
    BY <2>1, <2>2, <2>3 DEF Moves, Rest, Somebody
  <2>4. CASE Moves(Run(i), "flush", "close")
    BY <2>1, <2>2, <2>4 DEF Moves, Rest, Somebody
  <2> QED
    BY <1>17, <2>3, <2>4, RunMoves
<1>18. ASSUME NEW i \in Streams, Serve(i) PROVE \A k \in Streams : ClosesOK(k)'
  BY <1>18 DEF Serve, Somebody
<1>19. ASSUME NEW i \in Streams, Unmap(i) PROVE \A k \in Streams : ClosesOK(k)'
  BY <1>19 DEF Unmap, Somebody
<1>20. ASSUME NEW i \in Streams, RemoveReliable(i) PROVE \A k \in Streams : ClosesOK(k)'
  BY <1>20 DEF RemoveReliable, Somebody
<1>21. ASSUME NEW i \in Streams, WriteChunk(i) PROVE \A k \in Streams : ClosesOK(k)'
  <2>1. target' = target /\ ss[i].state # "connecting"
    BY <1>21 DEF WriteChunk, LifeOK
  <2>2. \A k \in Streams : ss'[k].state = ss[k].state
    BY <1>21, WriteFields DEF Others, TakesChunk, SameLife
  <2>3. CASE Moves(Writer(i), "select", "select")
    BY <2>1, <2>2, <2>3 DEF Moves, Rest, Somebody
  <2>4. CASE Moves(Writer(i), "select", "close")
    BY <2>1, <2>2, <2>4 DEF Moves, Rest, Somebody
  <2> QED
    BY <1>21, <2>3, <2>4, WriterMoves
<1>22. ASSUME NEW i \in Streams, WriterTold(i) PROVE \A k \in Streams : ClosesOK(k)'
  BY <1>22 DEF WriterTold, Somebody
<1>23. ASSUME NEW i \in Streams, Drain(i) PROVE \A k \in Streams : ClosesOK(k)'
  <2>1. target' = target /\ \A k \in Streams : ss'[k].state = ss[k].state
    BY <1>23, WriteFields, DrainedFields DEF Drain, Others, TakesChunk, SameLife
  <2>2. \E l \in {"drain", "drainFin"} : Moves(Writer(i), l, l) \/ Moves(Writer(i), l, "done")
    BY <1>23, WriterMoves
  <2> QED
    BY <2>1, <2>2 DEF Moves, Rest, Somebody
<1>24. ASSUME NEW i \in Streams, SetDeadline(i) PROVE \A k \in Streams : ClosesOK(k)'
  BY <1>24, DeadlineFields DEF SetDeadline, Somebody, Others, SameLife, SameHalf
<1>25. ASSUME NEW i \in Streams, ReadFails(i) PROVE \A k \in Streams : ClosesOK(k)'
  BY <1>25 DEF ReadFails, Somebody
<1>26. ASSUME NEW i \in Streams, ReadData(i) PROVE \A k \in Streams : ClosesOK(k)'
  BY <1>26, DeadlineFields DEF ReadData, Somebody, Others, SameLife, SameHalf
<1>27. ASSUME NEW i \in Streams, SendReply(i) PROVE \A k \in Streams : ClosesOK(k)'
  BY <1>27 DEF SendReply, Somebody
<1>28. ASSUME NEW i \in Streams, ReadEof(i) PROVE \A k \in Streams : ClosesOK(k)'
  BY <1>28 DEF ReadEof, Somebody
<1>29. ASSUME NEW i \in Streams, SendClose(Run(i), "done")
       PROVE  \A k \in Streams : ClosesOK(k)'
  BY <1>29 DEF SendClose, Somebody
<1>30. ASSUME NEW i \in Streams, SendClose(Reader(i), "close")
       PROVE  \A k \in Streams : ClosesOK(k)'
  <2>1. ss[i].state # "connecting"
    BY <1>30 DEF SendClose, LifeOK
  <2>2. ss' = ss /\ target' = target /\ Moves(Reader(i), "sendClose", "close")
    BY <1>30 DEF SendClose, Moves, Rest
  <2> QED
    BY <2>1, <2>2 DEF Moves, Rest, Somebody
<1>31. ASSUME NEW p \in Proc, Claim(p) PROVE \A k \in Streams : ClosesOK(k)'
  <2>1. PICK i \in Streams : i = StreamOf(p) /\ ss[i].state # "connecting"
    BY <1>31, CloserMoves, CloserWorks DEF Moves
  <2>2. /\ Others(i) /\ ss'[i].state = "closed" /\ target' = target
    BY <1>31, <2>1, ClaimFields DEF Claim
  <2>3. /\ p # Shut /\ Rest(p) /\ (p = Recv => i = target[Recv])
        /\ \A k \in Streams : p \in {Run(k), Writer(k), Reader(k)} => k = i
    BY <1>31, <2>1, CloserMoves, CloserWorks DEF Moves
  <2>4. ClosesOK(i)'
    BY <2>2
  <2>5. ASSUME NEW k \in Streams, k # i PROVE ClosesOK(k)'
    <3>1. /\ Somebody(k, Closing)' <=> Somebody(k, Closing)
          /\ Somebody(k, PastClaim)' <=> Somebody(k, PastClaim)
      BY <2>2, <2>3, <2>5, SomebodyKept
    <3>2. ss'[k] = ss[k] /\ pc'[Reader(k)] = pc[Reader(k)]
      BY <2>2, <2>3, <2>5 DEF Others, Rest
    <3> QED
      BY <3>1, <3>2
  <2> QED
    BY <2>4, <2>5
<1>32. ASSUME NEW p \in Proc, TestChannel(p, "closeWrite", "writeCloseCh", "closeWrite2", "closeAll")
       PROVE  \A k \in Streams : ClosesOK(k)'
  BY <1>32, ProcCases DEF TestChannel, Somebody
<1>33. ASSUME NEW p \in Proc, CloseChannel(p, "closeWrite2", "writeCloseCh", "closeAll")
       PROVE  \A k \in Streams : ClosesOK(k)'
  BY <1>33, ProcCases, CloseWriteFields, ClosingBorn, StreamOfFacts
     DEF CloseChannel, Somebody, Others, SameLife, SameHalf
<1>34. ASSUME NEW p \in Proc, TestChannel(p, "closeAll", "closeCh", "closeAll2", "closeConn")
       PROVE  \A k \in Streams : ClosesOK(k)'
  BY <1>34, ProcCases DEF TestChannel, Somebody
<1>35. ASSUME NEW p \in Proc, CloseChannel(p, "closeAll2", "closeCh", "closeConn")
       PROVE  \A k \in Streams : ClosesOK(k)'
  BY <1>35, ProcCases, CloseAllFields, ClosingBorn, StreamOfFacts
     DEF CloseChannel, Somebody, Others, SameLife, SameHalf
<1>36. ASSUME NEW p \in Proc, CloseBackend(p) PROVE \A k \in Streams : ClosesOK(k)'
  BY <1>36, ProcCases, CloseBackendFields, ClosingBorn, StreamOfFacts
     DEF CloseBackend, Somebody, After, Others, SameLife, SameHalf
<1>37. CASE UNCHANGED vars
  BY <1>37 DEF vars, Somebody
<1> QED
  BY NextCases, <1>1, <1>2, <1>3, <1>4, <1>5, <1>6, <1>7, <1>8, <1>9, <1>10, <1>11, <1>12,
     <1>13, <1>14, <1>15, <1>16, <1>17, <1>18, <1>19, <1>20, <1>21, <1>22, <1>23, <1>24,
     <1>25, <1>26, <1>27, <1>28, <1>29, <1>30, <1>31, <1>32, <1>33, <1>34, <1>35, <1>36,
     <1>37

\* The state when writeCloseCh is closed.
LEMMA HalfStep ==
    ASSUME pc'[Shut] = "idle", QuietInv, [Next]_vars
    PROVE  \A k \in Streams : HalfOK(k)'
<1> TypeInv /\ ObjectsOK /\ PcOK /\ VarsOK /\ TargetOK /\ AlwaysInv /\ QuietOK
  BY DEF QuietInv, AlwaysInv, TypeInv, StateInv
<1> \A i \in Streams : LifeOK(i) /\ DialOK(i) /\ ClosesOK(i) /\ HalfOK(i) /\ EndOK(i)
  BY DEF QuietInv, AlwaysInv, OrderInv, StateInv
<1> USE ProcNames, OwnNames, NamesDiffer
       DEF HalfOK, PcOK, At, Goto, Closing, PastClaim, InHand
<1>1. CASE LookUp
  BY <1>1, CreateFields DEF LookUp, Others, SameLife, SameHalf, Fresh
<1>2. CASE Store
  BY <1>2 DEF Store
<1>3. CASE LoadState
  <2>1. PICK i \in Streams : i = target[Recv]
    BY <1>3, TargetBorn DEF LoadState
  <2>2. Others(i) /\ SameLife(i) /\ SameHalf(i)
    BY <1>3, <2>1, LoadStateFields
  <2>3. /\ pc'[Recv] \notin {"halfClose", "halfClose2"}
        /\ \A k \in Streams : pc'[Writer(k)] = pc[Writer(k)]
    BY <1>3, <2>1, LoadStateGoes
  <2> QED
    BY <2>2, <2>3 DEF Others, SameLife, SameHalf
<1>4. CASE Pend
  BY <1>4, PendFields, PendEffect, TargetBorn DEF Pend, Others, SameLife, SameHalf
<1>5. CASE CheckWriteClosed
  BY <1>5 DEF CheckWriteClosed
<1>6. CASE Enqueue
  BY <1>6, EnqueueFields, TargetBorn DEF Enqueue, Others, SameLife, SameHalf
<1>7. CASE EnqueueTimeout
  BY <1>7 DEF EnqueueTimeout
<1>8. CASE ClientClose
  <2>1. /\ pc[Recv] = "idle" /\ \A k \in Streams : pc'[Writer(k)] = pc[Writer(k)]
        /\ \/ pc'[Recv] = "idle"
           \/ pc'[Recv] = "halfClose" /\ target'[Recv] = entry
              /\ entry \in Streams /\ ss'[entry] = Noted(entry)
    BY <1>8, ClientCloseEffect, BecomesFacts DEF ClientClose, VarsOK
  <2>2. ASSUME NEW k \in Streams PROVE HalfOK(k)'
    <3>1. /\ ss'[k].state = ss[k].state /\ ss'[k].writeCloseCh = ss[k].writeCloseCh
          /\ ss[k].clientCloseRecv => ss'[k].clientCloseRecv
      BY <1>8, ClientCloseFields DEF SameLife, SameHalf
    <3>2. pc'[Recv] = "halfClose" /\ target'[Recv] = k => ss'[k].clientCloseRecv
      <4>1. CASE entry = k
        BY <2>1, <4>1, ObjectFields DEF Noted, Object
      <4> QED
        BY <2>1, <4>1
    <3> QED
      BY <2>1, <3>1, <3>2
  <2> QED
    BY <2>2
<1>9. CASE ClientCloseDone
  BY <1>9 DEF ClientCloseDone
<1>10. CASE Shutdown
  BY <1>10, NoShutdown
<1>11. CASE TestChannel(Recv, "halfClose", "writeCloseCh", "halfClose2", "halfClosed")
  BY <1>11 DEF TestChannel
<1>12. CASE CloseChannel(Recv, "halfClose2", "writeCloseCh", "halfClosed")
  <2>1. PICK i \in Streams : i = target[Recv]
    BY <1>12, TargetBorn DEF CloseChannel
  <2>2. /\ Others(i) /\ SameLife(i) /\ ss'[i].writeCloseCh = TRUE
        /\ ss'[i].clientCloseRecv = ss[i].clientCloseRecv
    <3>1. i = StreamOf(Recv)
      BY <2>1, StreamOfFacts
    <3> QED
      BY <1>12, <3>1, CloseWriteFields
  <2>3. ss[i].clientCloseRecv
    BY <1>12, <2>1 DEF CloseChannel
  <2>4. /\ pc'[Recv] = "halfClosed" /\ \A k \in Streams : pc'[Writer(k)] = pc[Writer(k)]
    BY <1>12 DEF CloseChannel
  <2> QED
    BY <2>2, <2>3, <2>4 DEF Others, SameLife
<1>13. ASSUME NEW i \in Streams, DialSucceeds(i) PROVE \A k \in Streams : HalfOK(k)'
  BY <1>13, DialSucceedsFields DEF DialSucceeds, Others, SameLife, SameHalf
<1>14. ASSUME NEW i \in Streams, DialFails(i) PROVE \A k \in Streams : HalfOK(k)'
  BY <1>14, DialFailsFields DEF DialFails, Others, SameLife, SameHalf
<1>15. ASSUME NEW i \in Streams, DialFailed(i) PROVE \A k \in Streams : HalfOK(k)'
  BY <1>15 DEF DialFailed
<1>16. ASSUME NEW i \in Streams, TakePending(i) PROVE \A k \in Streams : HalfOK(k)'
  <2>1. /\ pc[Run(i)] = "connected" /\ target' = target /\ pc'[Recv] = pc[Recv]
        /\ \A k \in Streams : pc'[Writer(k)] = pc[Writer(k)]
    BY <1>16, RunMoves DEF TakePending, Moves, Rest
  <2>2. Others(i) /\ SameHalf(i) /\ ss[i].state = "connecting"
    BY <1>16, <2>1, TakePendingFields DEF DialOK
  <2> QED
    BY <2>1, <2>2 DEF Others, SameHalf
<1>17. ASSUME NEW i \in Streams, Flush(i) PROVE \A k \in Streams : HalfOK(k)'
  <2>1. Others(i) /\ SameLife(i) /\ SameHalf(i)
    BY <1>17, FlushFields
  <2>2. /\ target' = target /\ pc'[Recv] = pc[Recv]
        /\ \A k \in Streams : pc'[Writer(k)] = pc[Writer(k)]
    BY <1>17, RunMoves DEF Flush, Moves, Rest
  <2> QED
    BY <2>1, <2>2 DEF Others, SameLife, SameHalf
<1>18. ASSUME NEW i \in Streams, Serve(i) PROVE \A k \in Streams : HalfOK(k)'
  BY <1>18 DEF Serve
<1>19. ASSUME NEW i \in Streams, Unmap(i) PROVE \A k \in Streams : HalfOK(k)'
  BY <1>19 DEF Unmap
<1>20. ASSUME NEW i \in Streams, RemoveReliable(i) PROVE \A k \in Streams : HalfOK(k)'
  BY <1>20 DEF RemoveReliable
<1>21. ASSUME NEW i \in Streams, WriteChunk(i) PROVE \A k \in Streams : HalfOK(k)'
  BY ZenonT(30), <1>21, WriteFields DEF WriteChunk, Others, SameLife, SameHalf, TakesChunk
<1>22. ASSUME NEW i \in Streams, WriterTold(i) PROVE \A k \in Streams : HalfOK(k)'
  BY <1>22 DEF WriterTold
<1>23. ASSUME NEW i \in Streams, Drain(i) PROVE \A k \in Streams : HalfOK(k)'
  <2>1. target' = target /\ \A k \in Streams : ss'[k].state = ss[k].state
    BY <1>23, WriteFields, DrainedFields DEF Drain, Others, TakesChunk, SameLife
  <2>2. \A k \in Streams : /\ ss'[k].writeCloseCh = ss[k].writeCloseCh
                              /\ ss'[k].clientCloseRecv = ss[k].clientCloseRecv
    BY <1>23, WriteFields, DrainedFields DEF Drain, Others, TakesChunk, SameHalf
  <2>3. \E l \in {"drain", "drainFin"} : Moves(Writer(i), l, l) \/ Moves(Writer(i), l, "done")
    BY <1>23, WriterMoves
  <2> QED
    BY <2>1, <2>2, <2>3 DEF Moves, Rest
<1>24. ASSUME NEW i \in Streams, SetDeadline(i) PROVE \A k \in Streams : HalfOK(k)'
  BY <1>24, DeadlineFields DEF SetDeadline, Others, SameLife, SameHalf
<1>25. ASSUME NEW i \in Streams, ReadFails(i) PROVE \A k \in Streams : HalfOK(k)'
  BY <1>25 DEF ReadFails
<1>26. ASSUME NEW i \in Streams, ReadData(i) PROVE \A k \in Streams : HalfOK(k)'
  BY <1>26, DeadlineFields DEF ReadData, Others, SameLife, SameHalf
<1>27. ASSUME NEW i \in Streams, SendReply(i) PROVE \A k \in Streams : HalfOK(k)'
  BY <1>27 DEF SendReply
<1>28. ASSUME NEW i \in Streams, ReadEof(i) PROVE \A k \in Streams : HalfOK(k)'
  BY <1>28 DEF ReadEof
<1>29. ASSUME NEW i \in Streams, SendClose(Run(i), "done")
       PROVE  \A k \in Streams : HalfOK(k)'
  BY <1>29 DEF SendClose
<1>30. ASSUME NEW i \in Streams, SendClose(Reader(i), "close")
       PROVE  \A k \in Streams : HalfOK(k)'
  BY <1>30 DEF SendClose
<1>31. ASSUME NEW p \in Proc, Claim(p) PROVE \A k \in Streams : HalfOK(k)'
  BY <1>31, ProcCases, ClaimFields, ClosingBorn, StreamOfFacts
     DEF Claim, After, Others, SameLife, SameHalf
<1>32. ASSUME NEW p \in Proc, TestChannel(p, "closeWrite", "writeCloseCh", "closeWrite2", "closeAll")
       PROVE  \A k \in Streams : HalfOK(k)'
  BY <1>32, ProcCases DEF TestChannel
<1>33. ASSUME NEW p \in Proc, CloseChannel(p, "closeWrite2", "writeCloseCh", "closeAll")
       PROVE  \A k \in Streams : HalfOK(k)'
  <2>1. PICK i \in Streams : i = StreamOf(p) /\ ss[i].state = "closed"
    BY <1>33, CloserMoves, CloserWorks DEF Moves, ClosesOK
  <2>2. /\ Others(i) /\ SameLife(i) /\ ss'[i].writeCloseCh = TRUE /\ target' = target
        /\ ss'[i].clientCloseRecv = ss[i].clientCloseRecv
    BY <1>33, <2>1, CloseWriteFields DEF CloseChannel
  <2>3. /\ \A k \in Streams : pc'[Writer(k)] = pc[Writer(k)] \/ pc'[Writer(k)] = "closeAll"
        /\ pc'[Recv] = pc[Recv] \/ pc'[Recv] = "closeAll"
    BY <1>33, CloserMoves DEF Moves, Rest
  <2> QED
    BY <2>1, <2>2, <2>3 DEF Others, SameLife
<1>34. ASSUME NEW p \in Proc, TestChannel(p, "closeAll", "closeCh", "closeAll2", "closeConn")
       PROVE  \A k \in Streams : HalfOK(k)'
  BY <1>34, ProcCases DEF TestChannel
<1>35. ASSUME NEW p \in Proc, CloseChannel(p, "closeAll2", "closeCh", "closeConn")
       PROVE  \A k \in Streams : HalfOK(k)'
  BY <1>35, ProcCases, CloseAllFields, ClosingBorn, StreamOfFacts
     DEF CloseChannel, Others, SameLife, SameHalf
<1>36. ASSUME NEW p \in Proc, CloseBackend(p) PROVE \A k \in Streams : HalfOK(k)'
  BY <1>36, ProcCases, CloseBackendFields, ClosingBorn, StreamOfFacts
     DEF CloseBackend, After, Others, SameLife, SameHalf
<1>37. CASE UNCHANGED vars
  BY <1>37 DEF vars
<1> QED
  BY NextCases, <1>1, <1>2, <1>3, <1>4, <1>5, <1>6, <1>7, <1>8, <1>9, <1>10, <1>11, <1>12,
     <1>13, <1>14, <1>15, <1>16, <1>17, <1>18, <1>19, <1>20, <1>21, <1>22, <1>23, <1>24,
     <1>25, <1>26, <1>27, <1>28, <1>29, <1>30, <1>31, <1>32, <1>33, <1>34, <1>35, <1>36,
     <1>37

\* The backend connection of a closed object.
LEMMA EndStep ==
    ASSUME pc'[Shut] = "idle", QuietInv, [Next]_vars
    PROVE  \A k \in Streams : EndOK(k)'
<1> TypeInv /\ ObjectsOK /\ PcOK /\ VarsOK /\ TargetOK /\ AlwaysInv /\ QuietOK
  BY DEF QuietInv, AlwaysInv, TypeInv, StateInv
<1> \A i \in Streams : LifeOK(i) /\ DialOK(i) /\ ClosesOK(i) /\ HalfOK(i) /\ EndOK(i)
  BY DEF QuietInv, AlwaysInv, OrderInv, StateInv
<1> USE ProcNames, OwnNames, NamesDiffer
       DEF EndOK, PcOK, At, Goto, Closing, PastClaim, InHand
<1>1. CASE LookUp
  BY <1>1, CreateFields DEF LookUp, Somebody, Others, SameLife, SameHalf, Fresh
<1>2. CASE Store
  BY <1>2 DEF Store, Somebody
<1>3. CASE LoadState
  BY <1>3, LoadStateFields, TargetBorn DEF LoadState, Somebody, Others, SameLife, SameHalf
<1>4. CASE Pend
  BY <1>4, PendFields, PendEffect, TargetBorn DEF Pend, Somebody, Others, SameLife, SameHalf
<1>5. CASE CheckWriteClosed
  BY <1>5 DEF CheckWriteClosed, Somebody
<1>6. CASE Enqueue
  BY <1>6, EnqueueFields, TargetBorn DEF Enqueue, Somebody, Others, SameLife, SameHalf
<1>7. CASE EnqueueTimeout
  BY <1>7 DEF EnqueueTimeout, Somebody
<1>8. CASE ClientClose
  BY <1>8, ClientCloseFields DEF ClientClose, Somebody, Others, SameLife, SameHalf
<1>9. CASE ClientCloseDone
  BY <1>9 DEF ClientCloseDone, Somebody
<1>10. CASE Shutdown
  BY <1>10, NoShutdown
<1>11. CASE TestChannel(Recv, "halfClose", "writeCloseCh", "halfClose2", "halfClosed")
  BY <1>11 DEF TestChannel, Somebody
<1>12. CASE CloseChannel(Recv, "halfClose2", "writeCloseCh", "halfClosed")
  BY <1>12, CloseWriteFields, TargetBorn, StreamOfFacts
     DEF CloseChannel, Somebody, Others, SameLife, SameHalf
<1>13. ASSUME NEW i \in Streams, DialSucceeds(i) PROVE \A k \in Streams : EndOK(k)'
  <2>1. Others(i) /\ ss'[i].state = "connecting" /\ target' = target
    BY <1>13, DialSucceedsFields DEF DialSucceeds, DialOK
  <2>2. ASSUME NEW k \in Streams, k # i PROVE EndOK(k)'
    BY <1>13, <2>1, <2>2, RunMoves, SomebodyElse DEF Others, Moves
  <2> QED
    BY <2>1, <2>2
<1>14. ASSUME NEW i \in Streams, DialFails(i) PROVE \A k \in Streams : EndOK(k)'
  <2>1. Others(i) /\ ss'[i].backend = "nil" /\ target' = target
    BY <1>14, DialFailsFields DEF DialFails, DialOK
  <2>2. ASSUME NEW k \in Streams, k # i PROVE EndOK(k)'
    BY <1>14, <2>1, <2>2, RunMoves, SomebodyElse DEF Others, Moves
  <2> QED
    BY <2>1, <2>2
<1>15. ASSUME NEW i \in Streams, DialFailed(i) PROVE \A k \in Streams : EndOK(k)'
  BY <1>15 DEF DialFailed, Somebody
<1>16. ASSUME NEW i \in Streams, TakePending(i) PROVE \A k \in Streams : EndOK(k)'
  BY ZenonT(30), <1>16, TakePendingFields DEF TakePending, Somebody, Others, SameLife, SameHalf
<1>17. ASSUME NEW i \in Streams, Flush(i) PROVE \A k \in Streams : EndOK(k)'
  <2>1. Others(i) /\ SameLife(i) /\ target' = target
    BY <1>17, FlushFields DEF Flush
  <2>2. Rest(Run(i)) /\ pc[Run(i)] = "flush"
    BY <1>17, RunMoves DEF Moves
  <2>3. ASSUME NEW k \in Streams PROVE EndOK(k)'
    <3>1. Somebody(k, PastClaim) => Somebody(k, PastClaim)'
      BY <2>1, <2>2 DEF Somebody, Rest
    <3> QED
      BY <2>1, <3>1 DEF Others, SameLife
  <2> QED
    BY <2>3
<1>18. ASSUME NEW i \in Streams, Serve(i) PROVE \A k \in Streams : EndOK(k)'
  <2>1. /\ ss' = ss /\ target' = target /\ pc[Run(i)] = "flush"
        /\ pc[Writer(i)] = "idle" /\ pc[Reader(i)] = "idle"
    BY <1>18 DEF Serve, LifeOK
  <2>2. \A q \in Proc : q \notin {Run(i), Writer(i), Reader(i)} => pc'[q] = pc[q]
    BY <1>18 DEF Serve
  <2>3. ASSUME NEW k \in Streams, Somebody(k, PastClaim) PROVE Somebody(k, PastClaim)'
    BY <2>1, <2>2, <2>3 DEF Somebody
  <2> QED
    BY <2>1, <2>3
<1>19. ASSUME NEW i \in Streams, Unmap(i) PROVE \A k \in Streams : EndOK(k)'
  BY <1>19 DEF Unmap, Somebody
<1>20. ASSUME NEW i \in Streams, RemoveReliable(i) PROVE \A k \in Streams : EndOK(k)'
  BY <1>20 DEF RemoveReliable, Somebody
<1>21. ASSUME NEW i \in Streams, WriteChunk(i) PROVE \A k \in Streams : EndOK(k)'
  <2>1. target' = target /\ \A k \in Streams : ss'[k].state = ss[k].state
    BY <1>21, WriteFields DEF WriteChunk, Others, TakesChunk, SameLife
  <2>2. \A k \in Streams : ss'[k].backend = ss[k].backend
    BY <1>21, WriteFields DEF WriteChunk, Others, TakesChunk, SameLife
  <2>3. Rest(Writer(i)) /\ pc[Writer(i)] \notin PastClaim
    BY <1>21, WriterMoves DEF Moves
  <2>4. ASSUME NEW k \in Streams, Somebody(k, PastClaim) PROVE Somebody(k, PastClaim)'
    BY <2>1, <2>3, <2>4, SomebodyElse
  <2> QED
    BY <2>1, <2>2, <2>4
<1>22. ASSUME NEW i \in Streams, WriterTold(i) PROVE \A k \in Streams : EndOK(k)'
  BY <1>22 DEF WriterTold, Somebody
<1>23. ASSUME NEW i \in Streams, Drain(i) PROVE \A k \in Streams : EndOK(k)'
  <2>1. target' = target /\ \A k \in Streams : ss'[k].state = ss[k].state
    BY <1>23, WriteFields, DrainedFields DEF Drain, Others, TakesChunk, SameLife
  <2>2. \A k \in Streams : \/ ss'[k].backend = ss[k].backend
                           \/ ss[k].backend = "open"
    BY <1>23, WriteFields, DrainedFields DEF Drain, Others, TakesChunk, SameLife
  <2>3. Rest(Writer(i)) /\ pc[Writer(i)] \notin PastClaim
    BY <1>23, WriterMoves DEF Moves
  <2>4. ASSUME NEW k \in Streams, Somebody(k, PastClaim) PROVE Somebody(k, PastClaim)'
    BY <2>1, <2>3, <2>4, SomebodyElse
  <2> QED
    BY <2>1, <2>2, <2>4
<1>24. ASSUME NEW i \in Streams, SetDeadline(i) PROVE \A k \in Streams : EndOK(k)'
  BY <1>24, DeadlineFields DEF SetDeadline, Somebody, Others, SameLife, SameHalf
<1>25. ASSUME NEW i \in Streams, ReadFails(i) PROVE \A k \in Streams : EndOK(k)'
  BY <1>25 DEF ReadFails, Somebody
<1>26. ASSUME NEW i \in Streams, ReadData(i) PROVE \A k \in Streams : EndOK(k)'
  BY <1>26, DeadlineFields DEF ReadData, Somebody, Others, SameLife, SameHalf
<1>27. ASSUME NEW i \in Streams, SendReply(i) PROVE \A k \in Streams : EndOK(k)'
  BY <1>27 DEF SendReply, Somebody
<1>28. ASSUME NEW i \in Streams, ReadEof(i) PROVE \A k \in Streams : EndOK(k)'
  BY <1>28 DEF ReadEof, Somebody
<1>29. ASSUME NEW i \in Streams, SendClose(Run(i), "done")
       PROVE  \A k \in Streams : EndOK(k)'
  BY <1>29 DEF SendClose, Somebody
<1>30. ASSUME NEW i \in Streams, SendClose(Reader(i), "close")
       PROVE  \A k \in Streams : EndOK(k)'
  BY <1>30 DEF SendClose, Somebody
<1>31. ASSUME NEW p \in Proc, Claim(p) PROVE \A k \in Streams : EndOK(k)'
  <2>1. PICK i \in Streams : i = StreamOf(p)
    BY <1>31, CloserMoves, CloserWorks DEF Moves
  <2>2. Others(i) /\ ss'[i].backend = ss[i].backend /\ target' = target
    BY <1>31, <2>1, ClaimFields DEF Claim
  <2>3. /\ p # Shut /\ Rest(p) /\ pc[p] = "close"
        /\ ss[i].state # "closed" => pc'[p] = "closeWrite"
    BY <1>31, <2>1, CloserMoves, CloserWorks DEF Moves
  <2>4. ASSUME NEW k \in Streams, Somebody(k, PastClaim) PROVE Somebody(k, PastClaim)'
    BY <2>2, <2>3, <2>4, SomebodyElse
  <2>5. ss[i].state # "closed" => Somebody(i, PastClaim)'
    <3>1. p \in {Recv, Run(i), Writer(i), Reader(i)} /\ (p = Recv => target[Recv] = i)
      BY <2>1, <2>3, ProcCases, StreamOfFacts
    <3> QED
      BY <2>2, <2>3, <3>1 DEF Somebody
  <2>6. EndOK(i)'
    BY <2>2, <2>4, <2>5
  <2>7. ASSUME NEW k \in Streams, k # i PROVE EndOK(k)'
    BY <2>2, <2>4, <2>7 DEF Others
  <2> QED
    BY <2>6, <2>7
<1>32. ASSUME NEW p \in Proc, TestChannel(p, "closeWrite", "writeCloseCh", "closeWrite2", "closeAll")
       PROVE  \A k \in Streams : EndOK(k)'
  BY <1>32, ProcCases DEF TestChannel, Somebody
<1>33. ASSUME NEW p \in Proc, CloseChannel(p, "closeWrite2", "writeCloseCh", "closeAll")
       PROVE  \A k \in Streams : EndOK(k)'
  BY <1>33, ProcCases, CloseWriteFields, ClosingBorn, StreamOfFacts
     DEF CloseChannel, Somebody, Others, SameLife, SameHalf
<1>34. ASSUME NEW p \in Proc, TestChannel(p, "closeAll", "closeCh", "closeAll2", "closeConn")
       PROVE  \A k \in Streams : EndOK(k)'
  BY <1>34, ProcCases DEF TestChannel, Somebody
<1>35. ASSUME NEW p \in Proc, CloseChannel(p, "closeAll2", "closeCh", "closeConn")
       PROVE  \A k \in Streams : EndOK(k)'
  BY <1>35, ProcCases, CloseAllFields, ClosingBorn, StreamOfFacts
     DEF CloseChannel, Somebody, Others, SameLife, SameHalf
<1>36. ASSUME NEW p \in Proc, CloseBackend(p) PROVE \A k \in Streams : EndOK(k)'
  <2>1. PICK i \in Streams : i = StreamOf(p)
    BY <1>36, CloserMoves, CloserWorks DEF Moves
  <2>2. Others(i) /\ ss'[i].backend \in {"nil", "closed"} /\ target' = target
    BY <1>36, <2>1, CloseBackendFields DEF CloseBackend
  <2>3. /\ Rest(p) /\ (p = Recv => i = target[Recv])
        /\ \A k \in Streams : p \in {Run(k), Writer(k), Reader(k)} => k = i
    BY <1>36, <2>1, CloserMoves, CloserWorks DEF Moves
  <2>4. ASSUME NEW k \in Streams, k # i PROVE EndOK(k)'
    <3>1. Somebody(k, PastClaim)' <=> Somebody(k, PastClaim)
      BY <2>2, <2>3, <2>4, SomebodyKept
    <3> QED
      BY <2>2, <2>4, <3>1 DEF Others
  <2> QED
    BY <2>2, <2>4
<1>37. CASE UNCHANGED vars
  BY <1>37 DEF vars, Somebody
<1> QED
  BY NextCases, <1>1, <1>2, <1>3, <1>4, <1>5, <1>6, <1>7, <1>8, <1>9, <1>10, <1>11, <1>12,
     <1>13, <1>14, <1>15, <1>16, <1>17, <1>18, <1>19, <1>20, <1>21, <1>22, <1>23, <1>24,
     <1>25, <1>26, <1>27, <1>28, <1>29, <1>30, <1>31, <1>32, <1>33, <1>34, <1>35, <1>36,
     <1>37
-----------------------------------------------------------------------------
(***************************************************************************)
(* A server that is not shut down: one backend connection at a time.       *)
(***************************************************************************)

\* Objects are made in LookUp alone.
SameBorn == \A k \in Streams : ss'[k].state = "unborn" <=> ss[k].state = "unborn"

\* Every other step leaves the objects that exist.
LEMMA BornStep ==
    ASSUME pc'[Shut] = "idle", QuietInv, [Next]_vars PROVE LookUp \/ SameBorn
<1> TypeInv /\ ObjectsOK /\ PcOK /\ VarsOK /\ TargetOK /\ AlwaysInv /\ QuietOK
  BY DEF QuietInv, AlwaysInv, TypeInv, StateInv
<1> \A i \in Streams : LifeOK(i) /\ DialOK(i) /\ ClosesOK(i) /\ HalfOK(i) /\ EndOK(i)
  BY DEF QuietInv, AlwaysInv, OrderInv, StateInv
<1> USE ProcNames, OwnNames, NamesDiffer
       DEF SameBorn, PcOK, At, Goto, Closing, PastClaim, InHand
<1>1. CASE LookUp
  BY <1>1
<1>2. CASE Store
  BY <1>2 DEF Store
<1>3. CASE LoadState
  BY <1>3, TargetBorn, LoadStateFields DEF LoadState, Others, SameLife
<1>4. CASE Pend
  BY <1>4, PendFields, PendEffect, TargetBorn DEF Pend, Others, SameLife, SameHalf
<1>5. CASE CheckWriteClosed
  BY <1>5 DEF CheckWriteClosed
<1>6. CASE Enqueue
  BY <1>6, EnqueueFields, TargetBorn DEF Enqueue, Others, SameLife, SameHalf
<1>7. CASE EnqueueTimeout
  BY <1>7 DEF EnqueueTimeout
<1>8. CASE ClientClose
  BY <1>8, ClientCloseFields DEF ClientClose, Others, SameLife, SameHalf
<1>9. CASE ClientCloseDone
  BY <1>9 DEF ClientCloseDone
<1>10. CASE Shutdown
  BY <1>10, NoShutdown
<1>11. CASE TestChannel(Recv, "halfClose", "writeCloseCh", "halfClose2", "halfClosed")
  BY <1>11 DEF TestChannel
<1>12. CASE CloseChannel(Recv, "halfClose2", "writeCloseCh", "halfClosed")
  BY <1>12, CloseWriteFields, TargetBorn, StreamOfFacts
     DEF CloseChannel, Others, SameLife, SameHalf
<1>13. ASSUME NEW i \in Streams, DialSucceeds(i) PROVE LookUp \/ SameBorn
  BY <1>13, DialSucceedsFields DEF DialSucceeds, Others, SameLife, SameHalf
<1>14. ASSUME NEW i \in Streams, DialFails(i) PROVE LookUp \/ SameBorn
  <2>1. ss[i].state = "connecting" /\ ss'[i].state = "closed" /\ Others(i)
    BY <1>14, DialFailsFields DEF DialFails, DialOK
  <2> QED
    BY <2>1 DEF Others
<1>15. ASSUME NEW i \in Streams, DialFailed(i) PROVE LookUp \/ SameBorn
  BY <1>15 DEF DialFailed
<1>16. ASSUME NEW i \in Streams, TakePending(i) PROVE LookUp \/ SameBorn
  <2>1. ss[i].state = "connecting" /\ ss'[i].state = "connected" /\ Others(i)
    BY <1>16, TakePendingFields DEF TakePending, DialOK
  <2> QED
    BY <2>1 DEF Others
<1>17. ASSUME NEW i \in Streams, Flush(i) PROVE LookUp \/ SameBorn
  BY <1>17, FlushFields DEF Flush, Others, SameLife, SameHalf
<1>18. ASSUME NEW i \in Streams, Serve(i) PROVE LookUp \/ SameBorn
  BY <1>18 DEF Serve
<1>19. ASSUME NEW i \in Streams, Unmap(i) PROVE LookUp \/ SameBorn
  BY <1>19 DEF Unmap
<1>20. ASSUME NEW i \in Streams, RemoveReliable(i) PROVE LookUp \/ SameBorn
  BY <1>20 DEF RemoveReliable
<1>21. ASSUME NEW i \in Streams, WriteChunk(i) PROVE LookUp \/ SameBorn
  BY <1>21, WriteFields DEF WriteChunk, Others, SameLife, SameHalf, TakesChunk
<1>22. ASSUME NEW i \in Streams, WriterTold(i) PROVE LookUp \/ SameBorn
  BY <1>22 DEF WriterTold
<1>23. ASSUME NEW i \in Streams, Drain(i) PROVE LookUp \/ SameBorn
  BY ZenonT(30), <1>23, WriteFields, DrainedFields DEF Drain, Others, SameLife, SameHalf, TakesChunk
<1>24. ASSUME NEW i \in Streams, SetDeadline(i) PROVE LookUp \/ SameBorn
  BY <1>24, DeadlineFields DEF SetDeadline, Others, SameLife, SameHalf
<1>25. ASSUME NEW i \in Streams, ReadFails(i) PROVE LookUp \/ SameBorn
  BY <1>25 DEF ReadFails
<1>26. ASSUME NEW i \in Streams, ReadData(i) PROVE LookUp \/ SameBorn
  BY <1>26, DeadlineFields DEF ReadData, Others, SameLife, SameHalf
<1>27. ASSUME NEW i \in Streams, SendReply(i) PROVE LookUp \/ SameBorn
  BY <1>27 DEF SendReply
<1>28. ASSUME NEW i \in Streams, ReadEof(i) PROVE LookUp \/ SameBorn
  BY <1>28 DEF ReadEof
<1>29. ASSUME NEW i \in Streams, SendClose(Run(i), "done") PROVE LookUp \/ SameBorn
  BY <1>29 DEF SendClose
<1>30. ASSUME NEW i \in Streams, SendClose(Reader(i), "close") PROVE LookUp \/ SameBorn
  BY <1>30 DEF SendClose
<1>31. ASSUME NEW p \in Proc, Claim(p) PROVE LookUp \/ SameBorn
  <2>1. PICK i \in Streams : i = StreamOf(p) /\ ss[i].state # "unborn"
    BY <1>31, CloserMoves, ClosingBorn DEF Moves
  <2> QED
    BY <1>31, <2>1, ClaimFields DEF Others
<1>32. ASSUME NEW p \in Proc, TestChannel(p, "closeWrite", "writeCloseCh", "closeWrite2", "closeAll")
       PROVE  LookUp \/ SameBorn
  BY <1>32, ProcCases DEF TestChannel
<1>33. ASSUME NEW p \in Proc, CloseChannel(p, "closeWrite2", "writeCloseCh", "closeAll")
       PROVE  LookUp \/ SameBorn
  BY <1>33, ProcCases, CloseWriteFields, ClosingBorn, StreamOfFacts
     DEF CloseChannel, Others, SameLife, SameHalf
<1>34. ASSUME NEW p \in Proc, TestChannel(p, "closeAll", "closeCh", "closeAll2", "closeConn")
       PROVE  LookUp \/ SameBorn
  BY <1>34, ProcCases DEF TestChannel
<1>35. ASSUME NEW p \in Proc, CloseChannel(p, "closeAll2", "closeCh", "closeConn")
       PROVE  LookUp \/ SameBorn
  BY <1>35, ProcCases, CloseAllFields, ClosingBorn, StreamOfFacts
     DEF CloseChannel, Others, SameLife, SameHalf
<1>36. ASSUME NEW p \in Proc, CloseBackend(p) PROVE LookUp \/ SameBorn
  BY <1>36, ProcCases, CloseBackendFields, ClosingBorn, StreamOfFacts
     DEF CloseBackend, After, Others, SameLife, SameHalf
<1>37. CASE UNCHANGED vars
  BY <1>37 DEF vars
<1> QED
  BY NextCases, <1>1, <1>2, <1>3, <1>4, <1>5, <1>6, <1>7, <1>8, <1>9, <1>10, <1>11, <1>12,
     <1>13, <1>14, <1>15, <1>16, <1>17, <1>18, <1>19, <1>20, <1>21, <1>22, <1>23, <1>24,
     <1>25, <1>26, <1>27, <1>28, <1>29, <1>30, <1>31, <1>32, <1>33, <1>34, <1>35, <1>36,
     <1>37

\* An object that has no connection and will open none.
StaySettled == \A k \in Streams : Settled(k) => Settled(k)'

\* It stays without one.
LEMMA SettledStep ==
    ASSUME pc'[Shut] = "idle", QuietInv, [Next]_vars PROVE StaySettled
<1> TypeInv /\ ObjectsOK /\ PcOK /\ VarsOK /\ TargetOK /\ AlwaysInv /\ QuietOK
  BY DEF QuietInv, AlwaysInv, TypeInv, StateInv
<1> \A i \in Streams : LifeOK(i) /\ DialOK(i) /\ ClosesOK(i) /\ HalfOK(i) /\ EndOK(i)
  BY DEF QuietInv, AlwaysInv, OrderInv, StateInv
<1> USE ProcNames, OwnNames, NamesDiffer
       DEF StaySettled, Settled, PcOK, At, Goto, Closing, PastClaim, InHand
<1>1. CASE LookUp
  <2>1. CASE ss' = ss /\ \A k \in Streams : pc'[Run(k)] = pc[Run(k)]
    BY <2>1
  <2>2. CASE \E i \in Streams : /\ Fresh(i) /\ ss' = [ss EXCEPT ![i].state = "connecting"]
                                /\ \A k \in Streams : k # i => pc'[Run(k)] = pc[Run(k)]
    <3>1. PICK i \in Streams : /\ Fresh(i) /\ ss' = [ss EXCEPT ![i].state = "connecting"]
                               /\ \A k \in Streams : k # i => pc'[Run(k)] = pc[Run(k)]
      BY <2>2
    <3>2. Others(i) /\ pc[Run(i)] = "idle"
      BY <3>1, CreateFields DEF Fresh, LifeOK
    <3> QED
      BY <3>1, <3>2 DEF Others
  <2> QED
    BY <1>1, <2>1, <2>2, LookUpMoves
<1>2. CASE Store
  BY <1>2 DEF Store
<1>3. CASE LoadState
  <2>1. PICK i \in Streams : i = target[Recv]
    BY <1>3, TargetBorn DEF LoadState
  <2> QED
    BY <1>3, <2>1, LoadStateFields, LoadStateGoes DEF Others, SameLife
<1>4. CASE Pend
  BY <1>4, PendFields, PendEffect, TargetBorn DEF Pend, Others, SameLife, SameHalf
<1>5. CASE CheckWriteClosed
  BY <1>5 DEF CheckWriteClosed
<1>6. CASE Enqueue
  BY <1>6, EnqueueFields, TargetBorn DEF Enqueue, Others, SameLife, SameHalf
<1>7. CASE EnqueueTimeout
  BY <1>7 DEF EnqueueTimeout
<1>8. CASE ClientClose
  BY <1>8, ClientCloseFields DEF ClientClose, Others, SameLife, SameHalf
<1>9. CASE ClientCloseDone
  BY <1>9 DEF ClientCloseDone
<1>10. CASE Shutdown
  BY <1>10, NoShutdown
<1>11. CASE TestChannel(Recv, "halfClose", "writeCloseCh", "halfClose2", "halfClosed")
  BY <1>11 DEF TestChannel
<1>12. CASE CloseChannel(Recv, "halfClose2", "writeCloseCh", "halfClosed")
  BY <1>12, CloseWriteFields, TargetBorn, StreamOfFacts
     DEF CloseChannel, Others, SameLife, SameHalf
<1>13. ASSUME NEW i \in Streams, DialSucceeds(i) PROVE StaySettled
  BY <1>13, RunMoves, DialSucceedsFields DEF Others, Moves, Rest
<1>14. ASSUME NEW i \in Streams, DialFails(i) PROVE StaySettled
  BY <1>14, RunMoves, DialFailsFields DEF Others, Moves, Rest
<1>15. ASSUME NEW i \in Streams, DialFailed(i) PROVE StaySettled
  BY <1>15 DEF DialFailed
<1>16. ASSUME NEW i \in Streams, TakePending(i) PROVE StaySettled
  BY <1>16, RunMoves, TakePendingFields DEF Others, Moves, Rest
<1>17. ASSUME NEW i \in Streams, Flush(i) PROVE StaySettled
  BY <1>17, RunMoves, FlushFields DEF Others, Moves, Rest, SameLife
<1>18. ASSUME NEW i \in Streams, Serve(i) PROVE StaySettled
  BY <1>18 DEF Serve
<1>19. ASSUME NEW i \in Streams, Unmap(i) PROVE StaySettled
  BY <1>19 DEF Unmap
<1>20. ASSUME NEW i \in Streams, RemoveReliable(i) PROVE StaySettled
  BY <1>20 DEF RemoveReliable
<1>21. ASSUME NEW i \in Streams, WriteChunk(i) PROVE StaySettled
  <2>1. \A k \in Streams : pc'[Run(k)] = pc[Run(k)]
    BY <1>21, WriterMoves DEF Moves, Rest
  <2>2. \A k \in Streams : ss'[k].backend = ss[k].backend \/ ss[k].backend = "open"
    BY <1>21, WriteFields, DrainedFields DEF Others, TakesChunk, SameLife
  <2> QED
    BY <2>1, <2>2
<1>22. ASSUME NEW i \in Streams, WriterTold(i) PROVE StaySettled
  BY <1>22 DEF WriterTold
<1>23. ASSUME NEW i \in Streams, Drain(i) PROVE StaySettled
  <2>1. \A k \in Streams : pc'[Run(k)] = pc[Run(k)]
    BY <1>23, WriterMoves DEF Moves, Rest
  <2>2. \A k \in Streams : ss'[k].backend = ss[k].backend \/ ss[k].backend = "open"
    BY <1>23, WriteFields, DrainedFields DEF Others, TakesChunk, SameLife
  <2> QED
    BY <2>1, <2>2
<1>24. ASSUME NEW i \in Streams, SetDeadline(i) PROVE StaySettled
  BY <1>24, DeadlineFields DEF SetDeadline, Others, SameLife, SameHalf
<1>25. ASSUME NEW i \in Streams, ReadFails(i) PROVE StaySettled
  BY <1>25 DEF ReadFails
<1>26. ASSUME NEW i \in Streams, ReadData(i) PROVE StaySettled
  BY <1>26, DeadlineFields DEF ReadData, Others, SameLife, SameHalf
<1>27. ASSUME NEW i \in Streams, SendReply(i) PROVE StaySettled
  BY <1>27 DEF SendReply
<1>28. ASSUME NEW i \in Streams, ReadEof(i) PROVE StaySettled
  BY <1>28 DEF ReadEof
<1>29. ASSUME NEW i \in Streams, SendClose(Run(i), "done") PROVE StaySettled
  BY <1>29 DEF SendClose
<1>30. ASSUME NEW i \in Streams, SendClose(Reader(i), "close") PROVE StaySettled
  BY <1>30 DEF SendClose
<1>31. ASSUME NEW p \in Proc, Claim(p) PROVE StaySettled
  <2>1. PICK i \in Streams : i = StreamOf(p)
    BY <1>31, CloserMoves, CloserWorks DEF Moves
  <2>2. Others(i) /\ ss'[i].backend = ss[i].backend
    BY <1>31, <2>1, ClaimFields
  <2>3. \A k \in Streams : pc'[Run(k)] = pc[Run(k)] \/ pc[Run(k)] = "close"
    BY <1>31, CloserMoves DEF Moves, Rest
  <2> QED
    BY <2>2, <2>3 DEF Others
<1>32. ASSUME NEW p \in Proc, TestChannel(p, "closeWrite", "writeCloseCh", "closeWrite2", "closeAll")
       PROVE  StaySettled
  BY <1>32, ProcCases DEF TestChannel
<1>33. ASSUME NEW p \in Proc, CloseChannel(p, "closeWrite2", "writeCloseCh", "closeAll")
       PROVE  StaySettled
  BY <1>33, ProcCases, CloseWriteFields, ClosingBorn, StreamOfFacts
     DEF CloseChannel, Others, SameLife, SameHalf
<1>34. ASSUME NEW p \in Proc, TestChannel(p, "closeAll", "closeCh", "closeAll2", "closeConn")
       PROVE  StaySettled
  BY <1>34, ProcCases DEF TestChannel
<1>35. ASSUME NEW p \in Proc, CloseChannel(p, "closeAll2", "closeCh", "closeConn")
       PROVE  StaySettled
  BY <1>35, ProcCases, CloseAllFields, ClosingBorn, StreamOfFacts
     DEF CloseChannel, Others, SameLife, SameHalf
<1>36. ASSUME NEW p \in Proc, CloseBackend(p) PROVE StaySettled
  <2>1. PICK i \in Streams : i = StreamOf(p)
    BY <1>36, CloserMoves, CloserWorks DEF Moves
  <2>2. Others(i) /\ ss'[i].backend \in {"nil", "closed"}
    BY <1>36, <2>1, CloseBackendFields
  <2>3. \A k \in Streams : pc'[Run(k)] = pc[Run(k)] \/ pc[Run(k)] = "closeConn"
    BY <1>36, CloserMoves DEF Moves, Rest
  <2> QED
    BY <2>2, <2>3 DEF Others
<1>37. CASE UNCHANGED vars
  BY <1>37 DEF vars
<1> QED
  BY NextCases, <1>1, <1>2, <1>3, <1>4, <1>5, <1>6, <1>7, <1>8, <1>9, <1>10, <1>11, <1>12,
     <1>13, <1>14, <1>15, <1>16, <1>17, <1>18, <1>19, <1>20, <1>21, <1>22, <1>23, <1>24,
     <1>25, <1>26, <1>27, <1>28, <1>29, <1>30, <1>31, <1>32, <1>33, <1>34, <1>35, <1>36,
     <1>37

\* A step that leaves the map alone, with the receive loop neither in
\* LoadOrStore nor at the end of close.
Calm ==
    /\ entry' = entry
    /\ pc'[Recv] = "created" <=> pc[Recv] = "created"
    /\ pc[Recv] = "created" \/ pc[Recv] \in PastClaim => target'[Recv] = target[Recv]
    /\ pc[Recv] \in PastClaim => pc'[Recv] \in PastClaim
    /\ \A k \in Streams : pc[Run(k)] \in {"remove", "done"} => pc'[Run(k)] \in {"remove", "done"}
EntryGoes == \E i \in Streams : DialFailed(i) \/ Unmap(i)

\* The other steps that matter here.
LEMMA CalmStep ==
    ASSUME pc'[Shut] = "idle", QuietInv, [Next]_vars
    PROVE  LookUp \/ Store \/ EntryGoes \/ CloseBackend(Recv) \/ Calm
<1> TypeInv /\ ObjectsOK /\ PcOK /\ VarsOK /\ TargetOK /\ AlwaysInv /\ QuietOK
  BY DEF QuietInv, AlwaysInv, TypeInv, StateInv
<1> \A i \in Streams : LifeOK(i) /\ DialOK(i) /\ ClosesOK(i) /\ HalfOK(i) /\ EndOK(i)
  BY DEF QuietInv, AlwaysInv, OrderInv, StateInv
<1> USE ProcNames, OwnNames, NamesDiffer
       DEF Calm, At, Closing, PastClaim, PcOK, Goto, InHand
<1>1. CASE LookUp
  BY <1>1
<1>2. CASE Store
  BY <1>2
<1>3. CASE LoadState
  BY <1>3, TargetBorn, LoadStateGoes DEF LoadState
<1>4. CASE Pend
  BY <1>4, PendFields, PendEffect, TargetBorn DEF Pend, Others, SameLife, SameHalf
<1>5. CASE CheckWriteClosed
  BY <1>5 DEF CheckWriteClosed
<1>6. CASE Enqueue
  BY <1>6, EnqueueFields, TargetBorn DEF Enqueue, Others, SameLife, SameHalf
<1>7. CASE EnqueueTimeout
  BY <1>7 DEF EnqueueTimeout
<1>8. CASE ClientClose
  BY <1>8, ClientCloseFields DEF ClientClose, Others, SameLife, SameHalf
<1>9. CASE ClientCloseDone
  BY <1>9 DEF ClientCloseDone
<1>10. CASE Shutdown
  BY <1>10, NoShutdown
<1>11. CASE TestChannel(Recv, "halfClose", "writeCloseCh", "halfClose2", "halfClosed")
  BY <1>11 DEF TestChannel
<1>12. CASE CloseChannel(Recv, "halfClose2", "writeCloseCh", "halfClosed")
  BY <1>12, CloseWriteFields, TargetBorn, StreamOfFacts
     DEF CloseChannel, Others, SameLife, SameHalf
<1>13. ASSUME NEW i \in Streams, DialSucceeds(i)
       PROVE  LookUp \/ Store \/ EntryGoes \/ CloseBackend(Recv) \/ Calm
  BY <1>13, DialSucceedsFields DEF DialSucceeds, Others, SameLife, SameHalf
<1>14. ASSUME NEW i \in Streams, DialFails(i)
       PROVE  LookUp \/ Store \/ EntryGoes \/ CloseBackend(Recv) \/ Calm
  BY <1>14, DialFailsFields DEF DialFails, Others, SameLife, SameHalf
<1>15. ASSUME NEW i \in Streams, DialFailed(i)
       PROVE  LookUp \/ Store \/ EntryGoes \/ CloseBackend(Recv) \/ Calm
  BY <1>15 DEF EntryGoes
<1>16. ASSUME NEW i \in Streams, TakePending(i)
       PROVE  LookUp \/ Store \/ EntryGoes \/ CloseBackend(Recv) \/ Calm
  BY <1>16, TakePendingFields DEF TakePending, Others, SameLife, SameHalf
<1>17. ASSUME NEW i \in Streams, Flush(i)
       PROVE  LookUp \/ Store \/ EntryGoes \/ CloseBackend(Recv) \/ Calm
  <2>1. /\ \A k \in Streams : pc'[Run(k)] = pc[Run(k)] \/ pc[Run(k)] = "flush"
        /\ pc'[Recv] = pc[Recv]
    BY <1>17, RunMoves DEF Moves, Rest
  <2>2. target' = target /\ entry' = entry
    BY <1>17 DEF Flush
  <2> QED
    BY <2>1, <2>2
<1>18. ASSUME NEW i \in Streams, Serve(i)
       PROVE  LookUp \/ Store \/ EntryGoes \/ CloseBackend(Recv) \/ Calm
  BY <1>18 DEF Serve
<1>19. ASSUME NEW i \in Streams, Unmap(i)
       PROVE  LookUp \/ Store \/ EntryGoes \/ CloseBackend(Recv) \/ Calm
  BY <1>19 DEF EntryGoes
<1>20. ASSUME NEW i \in Streams, RemoveReliable(i)
       PROVE  LookUp \/ Store \/ EntryGoes \/ CloseBackend(Recv) \/ Calm
  BY <1>20 DEF RemoveReliable
<1>21. ASSUME NEW i \in Streams, WriteChunk(i)
       PROVE  LookUp \/ Store \/ EntryGoes \/ CloseBackend(Recv) \/ Calm
  <2>1. \A k \in Streams : pc'[Run(k)] = pc[Run(k)]
    BY <1>21, WriterMoves DEF Moves, Rest
  <2>2. pc'[Recv] = pc[Recv]
    BY <1>21, WriterMoves DEF Moves, Rest
  <2>3. target' = target /\ entry' = entry
    BY <1>21 DEF WriteChunk
  <2> QED
    BY <2>1, <2>2, <2>3
<1>22. ASSUME NEW i \in Streams, WriterTold(i)
       PROVE  LookUp \/ Store \/ EntryGoes \/ CloseBackend(Recv) \/ Calm
  BY <1>22 DEF WriterTold
<1>23. ASSUME NEW i \in Streams, Drain(i)
       PROVE  LookUp \/ Store \/ EntryGoes \/ CloseBackend(Recv) \/ Calm
  <2>1. \A k \in Streams : pc'[Run(k)] = pc[Run(k)]
    BY <1>23, WriterMoves DEF Moves, Rest
  <2>2. pc'[Recv] = pc[Recv]
    BY <1>23, WriterMoves DEF Moves, Rest
  <2>3. target' = target /\ entry' = entry
    BY <1>23 DEF Drain
  <2> QED
    BY <2>1, <2>2, <2>3
<1>24. ASSUME NEW i \in Streams, SetDeadline(i)
       PROVE  LookUp \/ Store \/ EntryGoes \/ CloseBackend(Recv) \/ Calm
  BY <1>24, DeadlineFields DEF SetDeadline, Others, SameLife, SameHalf
<1>25. ASSUME NEW i \in Streams, ReadFails(i)
       PROVE  LookUp \/ Store \/ EntryGoes \/ CloseBackend(Recv) \/ Calm
  BY <1>25 DEF ReadFails
<1>26. ASSUME NEW i \in Streams, ReadData(i)
       PROVE  LookUp \/ Store \/ EntryGoes \/ CloseBackend(Recv) \/ Calm
  BY <1>26, DeadlineFields DEF ReadData, Others, SameLife, SameHalf
<1>27. ASSUME NEW i \in Streams, SendReply(i)
       PROVE  LookUp \/ Store \/ EntryGoes \/ CloseBackend(Recv) \/ Calm
  BY <1>27 DEF SendReply
<1>28. ASSUME NEW i \in Streams, ReadEof(i)
       PROVE  LookUp \/ Store \/ EntryGoes \/ CloseBackend(Recv) \/ Calm
  BY <1>28 DEF ReadEof
<1>29. ASSUME NEW i \in Streams, SendClose(Run(i), "done")
       PROVE  LookUp \/ Store \/ EntryGoes \/ CloseBackend(Recv) \/ Calm
  BY <1>29 DEF SendClose
<1>30. ASSUME NEW i \in Streams, SendClose(Reader(i), "close")
       PROVE  LookUp \/ Store \/ EntryGoes \/ CloseBackend(Recv) \/ Calm
  BY <1>30 DEF SendClose
<1>31. ASSUME NEW p \in Proc, Claim(p)
       PROVE  LookUp \/ Store \/ EntryGoes \/ CloseBackend(Recv) \/ Calm
  <2>1. /\ \A k \in Streams : pc'[Run(k)] = pc[Run(k)] \/ pc[Run(k)] = "close"
        /\ pc'[Recv] = pc[Recv] \/ (pc[Recv] = "close" /\ pc'[Recv] \in {"idle", "closeWrite"})
    BY <1>31, CloserMoves DEF Moves, Rest, After
  <2>2. target' = target /\ entry' = entry
    BY <1>31 DEF Claim
  <2> QED
    BY <2>1, <2>2
<1>32. ASSUME NEW p \in Proc, TestChannel(p, "closeWrite", "writeCloseCh", "closeWrite2", "closeAll")
       PROVE  LookUp \/ Store \/ EntryGoes \/ CloseBackend(Recv) \/ Calm
  BY <1>32, ProcCases DEF TestChannel
<1>33. ASSUME NEW p \in Proc, CloseChannel(p, "closeWrite2", "writeCloseCh", "closeAll")
       PROVE  LookUp \/ Store \/ EntryGoes \/ CloseBackend(Recv) \/ Calm
  BY <1>33, ProcCases, CloseWriteFields, ClosingBorn, StreamOfFacts
     DEF CloseChannel, Others, SameLife, SameHalf
<1>34. ASSUME NEW p \in Proc, TestChannel(p, "closeAll", "closeCh", "closeAll2", "closeConn")
       PROVE  LookUp \/ Store \/ EntryGoes \/ CloseBackend(Recv) \/ Calm
  BY <1>34, ProcCases DEF TestChannel
<1>35. ASSUME NEW p \in Proc, CloseChannel(p, "closeAll2", "closeCh", "closeConn")
       PROVE  LookUp \/ Store \/ EntryGoes \/ CloseBackend(Recv) \/ Calm
  BY <1>35, ProcCases, CloseAllFields, ClosingBorn, StreamOfFacts
     DEF CloseChannel, Others, SameLife, SameHalf
<1>36. ASSUME NEW p \in Proc, CloseBackend(p)
       PROVE  LookUp \/ Store \/ EntryGoes \/ CloseBackend(Recv) \/ Calm
  <2>1. CASE p = Recv
    BY <1>36, <2>1
  <2>2. CASE p # Recv
    <3>1. /\ \A k \in Streams : pc'[Run(k)] = pc[Run(k)] \/ pc[Run(k)] = "closeConn"
          /\ pc'[Recv] = pc[Recv]
      BY <1>36, <2>2, CloserMoves DEF Moves, Rest
    <3>2. target' = target /\ entry' = entry
      BY <1>36 DEF CloseBackend
    <3> QED
      BY <3>1, <3>2
  <2> QED
    BY <2>1, <2>2
<1>37. CASE UNCHANGED vars
  BY <1>37 DEF vars
<1> QED
  BY NextCases, <1>1, <1>2, <1>3, <1>4, <1>5, <1>6, <1>7, <1>8, <1>9, <1>10, <1>11, <1>12,
     <1>13, <1>14, <1>15, <1>16, <1>17, <1>18, <1>19, <1>20, <1>21, <1>22, <1>23, <1>24,
     <1>25, <1>26, <1>27, <1>28, <1>29, <1>30, <1>31, <1>32, <1>33, <1>34, <1>35, <1>36,
     <1>37

\* The number has one object that may have a connection, and the map holds it.
LEMMA OneStep ==
    ASSUME pc'[Shut] = "idle", QuietInv, [Next]_vars PROVE OneInv'
<1> TypeInv /\ ObjectsOK /\ PcOK /\ VarsOK /\ TargetOK /\ AlwaysInv /\ QuietOK /\ OneInv
  BY DEF QuietInv, AlwaysInv, TypeInv, StateInv
<1> \A i \in Streams : LifeOK(i) /\ DialOK(i) /\ ClosesOK(i) /\ EndOK(i)
  BY DEF QuietInv, AlwaysInv, OrderInv, StateInv
<1>1. \A k \in Streams : Settled(k) => Settled(k)'
  BY SettledStep DEF StaySettled
<1>2. \A i, j \in Streams :
          ss[i].state # "unborn" /\ ~Settled(i) /\ ss[j].state # "unborn" /\ ~Settled(j)
              => i = j
  <2>1. \A i, j \in Streams : i < j \/ j < i \/ i = j
    BY ServerAssumption DEF Streams
  <2>2. \A i, j \in Streams : i < j /\ ss[j].state # "unborn" => Settled(i)
    BY DEF OneInv
  <2> QED
    BY <2>1, <2>2
<1>3. ASSUME SameBorn
      PROVE  \A i, j \in Streams : i < j /\ ss'[j].state # "unborn" =>
                 ss'[i].state # "unborn" /\ Settled(i)'
  BY <1>1, <1>3 DEF SameBorn, OneInv
<1>4. CASE LookUp
  <2>1. CASE ss' = ss /\ pc'[Recv] = "loaded"
    <3>1. SameBorn
      BY <2>1 DEF SameBorn
    <3>2. ASSUME NEW k \in Streams, ss'[k].state # "unborn" PROVE Held(k)'
      <4>1. Settled(k) \/ entry = k
        BY <1>4, <2>1, <3>2, LookUpMoves DEF OneInv, Held, PastClaim
      <4> QED
        BY <1>1, <1>4, <4>1, LookUpMoves DEF Held
    <3> QED
      BY <1>3, <2>1, <3>1, <3>2 DEF OneInv
  <2>2. CASE \E i \in Streams :
                /\ entry = None /\ Fresh(i) /\ ss' = [ss EXCEPT ![i].state = "connecting"]
                /\ pc'[Recv] = "created" /\ target'[Recv] = i
    <3>1. PICK i \in Streams :
                /\ entry = None /\ Fresh(i) /\ ss' = [ss EXCEPT ![i].state = "connecting"]
                /\ pc'[Recv] = "created" /\ target'[Recv] = i
      BY <2>2
    <3>2. pc[Recv] = "idle" /\ entry' = None
      BY <1>4, <3>1, LookUpMoves
    <3>3. ASSUME NEW k \in Streams, ss[k].state # "unborn" PROVE Settled(k)
      BY <3>1, <3>2, <3>3 DEF OneInv, Held, PastClaim, Streams, None
    <3>4. Others(i) /\ ss[i].state = "unborn" /\ \A j \in Streams : j < i => ss[j].state # "unborn"
      <4>1. Others(i) /\ ss[i].state = "unborn"
        BY <3>1, CreateFields DEF Fresh
      <4>2. \A j \in Streams : j < i => j \in 1 .. (i - 1)
        BY ServerAssumption DEF Streams
      <4> QED
        BY <3>1, <4>1, <4>2 DEF Fresh
    <3>5. \A j \in Streams : i < j => ss[j].state = "unborn"
      BY <3>4 DEF OneInv
    <3>6. \A j \in Streams : j # i /\ ss'[j].state # "unborn" => j < i /\ Settled(j)'
      BY <1>1, <3>3, <3>4, <3>5 DEF Others, Streams
    <3>7. ASSUME NEW j \in Streams, NEW k \in Streams, j < k, ss'[k].state # "unborn"
          PROVE  ss'[j].state # "unborn" /\ Settled(j)'
      <4>1. j < i
        BY <3>6, <3>7 DEF Streams
      <4>2. ss'[j].state # "unborn"
        BY <3>4, <4>1 DEF Others, Streams
      <4> QED
        BY <3>6, <4>1, <4>2 DEF Streams
    <3>8. \A k \in Streams : ss'[k].state # "unborn" => Held(k)'
      BY <3>1, <3>6 DEF Held
    <3> QED
      BY <3>2, <3>7, <3>8 DEF OneInv
  <2> QED
    BY <1>4, <2>1, <2>2, LookUpMoves
<1>5. CASE Store
  <2>1. /\ pc[Recv] = "created" /\ pc'[Recv] = "loaded" /\ entry' = target[Recv] /\ entry = None
        /\ ss' = ss
    BY <1>5, ProcNames DEF Store, At, Goto, PcOK, OneInv
  <2>2. ASSUME NEW k \in Streams, ss'[k].state # "unborn" PROVE Held(k)'
    <3>1. Settled(k) \/ target[Recv] = k
      BY <2>1, <2>2 DEF OneInv, Held, PastClaim, Streams, None
    <3> QED
      BY <1>1, <2>1, <3>1 DEF Held
  <2>3. SameBorn
    BY <2>1 DEF SameBorn
  <2> QED
    BY <1>3, <2>1, <2>2, <2>3 DEF OneInv
<1>6. CASE EntryGoes
  <2>1. PICK i \in Streams : DialFailed(i) \/ Unmap(i)
    BY <1>6 DEF EntryGoes
  <2>2. /\ entry' = None /\ ss' = ss /\ target' = target /\ pc'[Recv] = pc[Recv]
        /\ ~Settled(i) /\ ss[i].state # "unborn"
    BY <2>1, ProcNames, OwnNames DEF DialFailed, Unmap, At, Goto, PcOK, Settled, LifeOK
  <2>3. Held(i)'
    <3>1. CASE DialFailed(i)
      <4>1. ss[i].backend = "nil" /\ pc'[Run(i)] = "sendClose"
        BY <3>1, ProcNames DEF DialFailed, At, Goto, PcOK, DialOK
      <4> QED
        BY <2>2, <4>1 DEF Held, Settled
    <3>2. CASE Unmap(i)
      <4>1. /\ pc[Run(i)] = "wait" /\ pc'[Run(i)] = "remove"
            /\ pc[Writer(i)] = "done" /\ pc[Reader(i)] = "done"
        BY <3>2, ProcNames DEF Unmap, At, Goto, PcOK
      <4>2. ss[i].state = "closed"
        BY <4>1 DEF ClosesOK
      <4>3. ss[i].backend \in {"nil", "closed"} \/ (target[Recv] = i /\ pc[Recv] \in PastClaim)
        BY <4>1, <4>2 DEF EndOK, Somebody, PastClaim
      <4> QED
        BY <2>2, <4>1, <4>3 DEF Held, Settled
    <3> QED
      BY <2>1, <3>1, <3>2
  <2>4. \A k \in Streams : ss'[k].state # "unborn" /\ k # i => Held(k)'
    BY <1>1, <1>2, <2>2 DEF Held
  <2>5. SameBorn
    BY <2>2 DEF SameBorn
  <2>6. \A k \in Streams : ss'[k].state # "unborn" => Held(k)'
    BY <2>3, <2>4
  <2> QED
    BY <1>3, <2>2, <2>5, <2>6 DEF OneInv
<1>7. CASE CloseBackend(Recv)
  <2>1. PICK i \in Streams : i = target[Recv]
    BY <1>7, TargetBorn DEF CloseBackend, At
  <2>2. /\ ss'[i].backend \in {"nil", "closed"} /\ pc[Recv] = "closeConn" /\ pc'[Recv] = "idle"
        /\ \A k \in Streams : pc'[Run(k)] = pc[Run(k)]
    BY <1>7, <2>1, CloseBackendFields, CloserMoves, StreamOfFacts, ProcNames, OwnNames
       DEF Moves, Rest, After
  <2>3. entry' = entry /\ target' = target
    BY <1>7 DEF CloseBackend
  <2>4. SameBorn
    BY <1>7, <2>1, CloseBackendFields, StreamOfFacts DEF SameBorn, Others
  <2>5. ASSUME NEW k \in Streams, ss'[k].state # "unborn" PROVE Held(k)'
    <3>1. Held(k)
      BY <2>4, <2>5 DEF SameBorn, OneInv
    <3>2. CASE Settled(k) \/ entry = k
      BY <1>1, <2>3, <3>2 DEF Held
    <3>3. CASE target[Recv] = k /\ pc[Run(k)] \in {"remove", "done"}
      BY <2>1, <2>2, <3>3 DEF Held, Settled
    <3> QED
      BY <2>2, <3>1, <3>2, <3>3 DEF Held
  <2> QED
    BY <1>3, <2>2, <2>4, <2>5 DEF OneInv
<1>8. CASE Calm /\ ~LookUp
  <2>1. SameBorn
    BY <1>8, BornStep
  <2>2. ASSUME NEW k \in Streams, ss'[k].state # "unborn" PROVE Held(k)'
    <3>1. Held(k)
      BY <2>1, <2>2 DEF SameBorn, OneInv
    <3> QED
      BY <1>1, <1>8, <3>1 DEF Held, Calm
  <2> QED
    BY <1>3, <1>8, <2>1, <2>2 DEF OneInv, Calm
<1> QED
  BY <1>4, <1>5, <1>6, <1>7, <1>8, CalmStep
-----------------------------------------------------------------------------
(***************************************************************************)
(* A server that is not shut down: no gap.                                 *)
(***************************************************************************)

\* A sequence begins its continuations, and what begins it begins them too.
LEMMA PrefixFacts ==
    ASSUME NEW o \in Seq(Chunk), NEW w \in Seq(Chunk), NEW g \in Seq(Chunk)
    PROVE  /\ IsPrefix(o \o w, g) => IsPrefix(o, g)
           /\ o \o w = g => IsPrefix(o, g)
           /\ IsPrefix(o, o)
<1>1. /\ Len(o) \in Nat /\ Len(w) \in Nat /\ Len(g) \in Nat /\ Len(o \o w) = Len(o) + Len(w)
      /\ \A i \in 1 .. Len(o) : (o \o w)[i] = o[i]
  OBVIOUS
<1> QED
  BY <1>1 DEF IsPrefix

\* One more chunk is a continuation.
LEMMA PrefixGrows ==
    ASSUME NEW s \in Seq(Chunk), NEW t \in Seq(Chunk), NEW c \in Chunk, IsPrefix(s, t)
    PROVE  IsPrefix(s, Append(t, c))
<1>1. /\ Len(s) \in Nat /\ Len(t) \in Nat /\ Len(Append(t, c)) = Len(t) + 1
      /\ \A i \in 1 .. Len(t) : Append(t, c)[i] = t[i]
  OBVIOUS
<1> QED
  BY <1>1 DEF IsPrefix

\* The form that WithoutGap uses.
LEMMA PrefixIsSubSeq ==
    ASSUME NEW s \in Seq(Chunk), NEW t \in Seq(Chunk), IsPrefix(s, t)
    PROVE  Prefix(s, t)
<1>1. Len(s) \in Nat /\ Len(t) \in Nat /\ Len(s) <= Len(t)
  BY DEF IsPrefix
<1>2. /\ SubSeq(t, 1, Len(s)) \in Seq(Chunk) /\ Len(SubSeq(t, 1, Len(s))) = Len(s)
      /\ \A i \in 1 .. Len(s) : SubSeq(t, 1, Len(s))[i] = t[i]
  BY <1>1
<1> QED
  BY <1>1, <1>2, SeqEqual DEF IsPrefix, Prefix

\* The chunk that the receive loop carries is at the end.
LEMMA CarriedFacts ==
    /\ \A s \in Seq(Chunk) : s \o <<>> = s
    /\ \A s \in Seq(Chunk), c \in Chunk : s \o <<c>> = Append(s, c)
BY DEF Chunk

\* What is with an object begins what was meant for it.
LEMMA FlowGives ==
    ASSUME AlwaysInv, NEW k \in Streams
    PROVE  /\ Complete(k) => IsPrefix(Line(ss[k]), ss[k].got)
           /\ IsPrefix(Line(ss[k]), ss[k].got) => IsPrefix(ss[k].out, ss[k].got)
           /\ Flow(k) => ss[k].failed \/ IsPrefix(ss[k].out, ss[k].got)
<1>1. /\ ss[k].out \in Seq(Chunk) /\ ss[k].flush \in Seq(Chunk) /\ ss[k].got \in Seq(Chunk)
      /\ ss[k].out \o ss[k].flush \in Seq(Chunk)
      /\ ss[k].pending \o ss[k].writeCh \in Seq(Chunk)
      /\ Line(ss[k]) \in Seq(Chunk)
  BY ObjectFields, LineType DEF AlwaysInv, TypeInv
<1>2. Carried(k) \in Seq(Chunk)
  <2>1. CASE Carried(k) = <<>>
    BY <2>1
  <2>2. CASE Carried(k) = <<calls>> /\ pc[Recv] \in InHand
    <3>1. calls \in Chunk
      BY <2>2, CallsType DEF AlwaysInv, TypeInv
    <3> QED
      BY <2>2, <3>1
  <2> QED
    BY <2>1, <2>2 DEF Carried, InHand
<1>3. Complete(k) => IsPrefix(Line(ss[k]), ss[k].got)
  BY <1>1, <1>2, PrefixFacts DEF Complete
<1>4. IsPrefix(Line(ss[k]), ss[k].got) => IsPrefix(ss[k].out, ss[k].got)
  <2>1. IsPrefix(Line(ss[k]), ss[k].got) => IsPrefix(ss[k].out \o ss[k].flush, ss[k].got)
    <3>1. PICK q, r, g \in Seq(Chunk) : /\ q = ss[k].out \o ss[k].flush /\ g = ss[k].got
                                       /\ r = ss[k].pending \o ss[k].writeCh
      BY <1>1
    <3>2. IsPrefix(q \o r, g) => IsPrefix(q, g)
      BY ZenonT(30), <3>1, PrefixFacts
    <3>3. Line(ss[k]) = q \o r
      BY <3>1 DEF Line
    <3> QED
      BY <3>1, <3>2, <3>3
  <2> QED
    BY <1>1, <2>1, PrefixFacts
<1> QED
  BY <1>3, <1>4 DEF Flow

\* A step that takes nothing to the object and away from what it has.
Still(k) ==
    /\ ss'[k].got = ss[k].got /\ Carried(k)' = Carried(k)
    /\ ss[k].failed => ss'[k].failed
    /\ ss[k].backend \in {"finSent", "closed"} =>
          ss'[k].backend \in {"finSent", "closed"} /\ ss'[k].out = ss[k].out
    /\ ss[k].state = "closed" => ss'[k].state = "closed"
    /\ pc[Recv] = "close" /\ target[Recv] = k =>
          (pc'[Recv] = "close" /\ target'[Recv] = k) \/ ss'[k].state = "closed"
    /\ QueueShut(k) => QueueShut(k)'

\* A step of another goroutine.
Apart == pc'[Recv] = pc[Recv] /\ target' = target /\ calls' = calls

\* It does not change what the receive loop carries.
LEMMA StillApart ==
    ASSUME Apart, NEW k \in Streams, ss'[k].got = ss[k].got, ss[k].failed => ss'[k].failed,
           ss[k].backend \in {"finSent", "closed"} =>
               ss'[k].backend \in {"finSent", "closed"} /\ ss'[k].out = ss[k].out,
           ss[k].state = "closed" => ss'[k].state = "closed",
           ss[k].state = "connected" => ss'[k].state \in {"connected", "closed"},
           ss[k].writeCloseCh => ss'[k].writeCloseCh
    PROVE  Still(k)
<1>1. QueueShut(k) => QueueShut(k)'
  BY DEF Apart, QueueShut
<1> QED
  BY <1>1 DEF Apart, Still, Carried

\* Such a step keeps the flow when the line stays.
LEMMA FlowKept ==
    ASSUME NEW k \in Streams, Flow(k), Still(k), Keeps(k)
    PROVE  Flow(k)'
<1>1. CASE Complete(k)
  BY <1>1 DEF Flow, Complete, Still, Keeps
<1>2. CASE ss[k].failed
  BY <1>2 DEF Flow, Still
<1>3. CASE ss[k].backend \in {"finSent", "closed"} /\ IsPrefix(ss[k].out, ss[k].got)
  BY <1>3 DEF Flow, Still
<1>4. CASE /\ ss[k].state = "closed" \/ (pc[Recv] = "close" /\ target[Recv] = k)
           /\ Carried(k) = <<>> /\ IsPrefix(Line(ss[k]), ss[k].got)
  <2>1. IsPrefix(Line(ss[k])', ss'[k].got) /\ Carried(k)' = <<>>
    BY <1>4 DEF Still, Keeps
  <2> QED
    BY <1>4, <2>1 DEF Flow, Still
<1>5. CASE QueueShut(k) /\ IsPrefix(Line(ss[k]), ss[k].got)
  <2>1. IsPrefix(Line(ss[k])', ss'[k].got) /\ QueueShut(k)'
    BY <1>5 DEF Still, Keeps
  <2> QED
    BY <2>1 DEF Flow
<1> QED
  BY <1>1, <1>2, <1>3, <1>4, <1>5 DEF Flow

\* The steps of the receive loop that carry a chunk.
Special == LoadState \/ Pend \/ CheckWriteClosed \/ Enqueue \/ EnqueueTimeout
Quiet == /\ \A k \in Streams : Still(k)
         /\ pc[Recv] \in InHand => pc'[Recv] \in InHand

\* The other steps.
LEMMA StillStep ==
    ASSUME pc'[Shut] = "idle", QuietInv, [Next]_vars PROVE Special \/ Quiet
<1> TypeInv /\ ObjectsOK /\ PcOK /\ VarsOK /\ TargetOK /\ AlwaysInv /\ QuietOK
  BY DEF QuietInv, AlwaysInv, TypeInv, StateInv
<1> \A i \in Streams : LifeOK(i) /\ DialOK(i) /\ ClosesOK(i) /\ HalfOK(i) /\ EndOK(i)
  BY DEF QuietInv, AlwaysInv, OrderInv, StateInv
<1> USE ProcNames, OwnNames, NamesDiffer DEF Quiet, Still, Carried, QueueShut, PcOK, At, Goto, InHand
<1>1. CASE LookUp
  <2>1. /\ pc[Recv] = "idle" /\ pc'[Recv] \in {"loaded", "created"}
    BY <1>1, LookUpMoves
  <2>2. \A k \in Streams : Carried(k)' = Carried(k)
    BY <2>1
  <2>3. CASE ss' = ss
    BY <2>1, <2>2, <2>3
  <2>4. CASE \E i \in Streams : Fresh(i) /\ ss' = [ss EXCEPT ![i].state = "connecting"]
    <3>1. PICK i \in Streams : Fresh(i) /\ ss' = [ss EXCEPT ![i].state = "connecting"]
      BY <2>4
    <3>2. /\ Others(i) /\ SameLine(i) /\ SameHistory(i) /\ ss'[i].backend = ss[i].backend
          /\ ss[i].state = "unborn"
      BY <3>1, CreateFields DEF Fresh
    <3>3. \A k \in Streams : Still(k)
      BY <2>1, <2>2, <3>2 DEF Others, SameHistory, SameLine
    <3> QED
      BY <2>1, <3>3
  <2> QED
    BY <1>1, <2>3, <2>4, LookUpMoves
<1>2. CASE Store
  BY <1>2 DEF Store
<1>3. CASE LoadState
  BY <1>3 DEF Special
<1>4. CASE Pend
  BY <1>4 DEF Special
<1>5. CASE CheckWriteClosed
  BY <1>5 DEF Special
<1>6. CASE Enqueue
  BY <1>6 DEF Special
<1>7. CASE EnqueueTimeout
  BY <1>7 DEF Special
<1>8. CASE ClientClose
  BY <1>8, ClientCloseFields DEF ClientClose, Others, SameLife, SameHistory, SameLine, SameHalf
<1>9. CASE ClientCloseDone
  BY <1>9 DEF ClientCloseDone
<1>10. CASE Shutdown
  BY <1>10, NoShutdown
<1>11. CASE TestChannel(Recv, "halfClose", "writeCloseCh", "halfClose2", "halfClosed")
  BY <1>11 DEF TestChannel
<1>12. CASE CloseChannel(Recv, "halfClose2", "writeCloseCh", "halfClosed")
  BY <1>12, CloseWriteFields, TargetBorn, StreamOfFacts
     DEF CloseChannel, Others, SameLife, SameHistory, SameLine, SameHalf
<1>13. ASSUME NEW i \in Streams, DialSucceeds(i) PROVE Special \/ Quiet
  <2>1. Apart
    BY <1>13, RunMoves DEF DialSucceeds, Moves, Rest, Apart
  <2>2. /\ Others(i) /\ ss[i].backend = "nil" /\ SameHistory(i) /\ ss'[i].state = ss[i].state
        /\ SameHalf(i)
    BY <1>13, DialSucceedsFields DEF DialSucceeds, DialOK
  <2>3. \A k \in Streams : Still(k)
    BY <2>1, <2>2, StillApart DEF Others, SameHistory, SameHalf
  <2> QED
    BY <2>1, <2>3 DEF Apart
<1>14. ASSUME NEW i \in Streams, DialFails(i) PROVE Special \/ Quiet
  BY <1>14, DialFailsFields DEF DialFails, Others, SameLife, SameHistory, SameLine, SameHalf
<1>15. ASSUME NEW i \in Streams, DialFailed(i) PROVE Special \/ Quiet
  BY <1>15 DEF DialFailed
<1>16. ASSUME NEW i \in Streams, TakePending(i) PROVE Special \/ Quiet
  <2>1. Apart
    BY <1>16, RunMoves DEF TakePending, Moves, Rest, Apart
  <2>2. /\ Others(i) /\ SameHistory(i) /\ SameHalf(i) /\ ss[i].state = "connecting"
        /\ ss'[i].backend = ss[i].backend /\ ss'[i].out = ss[i].out
    BY <1>16, TakePendingFields DEF TakePending, DialOK
  <2>3. \A k \in Streams : Still(k)
    BY <2>1, <2>2, StillApart DEF Others, SameHistory, SameHalf
  <2> QED
    BY <2>1, <2>3 DEF Apart
<1>17. ASSUME NEW i \in Streams, Flush(i) PROVE Special \/ Quiet
  <2>1. Apart
    BY <1>17, RunMoves DEF Flush, Moves, Rest, Apart
  <2>2. /\ Others(i) /\ SameLife(i) /\ SameHalf(i) /\ ss'[i].got = ss[i].got
        /\ ss[i].failed => ss'[i].failed
        /\ ss[i].backend = "open" \/ ss'[i].out = ss[i].out
    BY <1>17, FlushFields DEF Broken
  <2>3. \A k \in Streams : Still(k)
    BY <2>1, <2>2, StillApart DEF Others, SameLife, SameHalf
  <2> QED
    BY <2>1, <2>3 DEF Apart
<1>18. ASSUME NEW i \in Streams, Serve(i) PROVE Special \/ Quiet
  BY <1>18 DEF Serve
<1>19. ASSUME NEW i \in Streams, Unmap(i) PROVE Special \/ Quiet
  BY <1>19 DEF Unmap
<1>20. ASSUME NEW i \in Streams, RemoveReliable(i) PROVE Special \/ Quiet
  BY <1>20 DEF RemoveReliable
<1>21. ASSUME NEW i \in Streams, WriteChunk(i) PROVE Special \/ Quiet
  <2>1. Apart
    BY <1>21, WriterMoves DEF WriteChunk, Moves, Rest, Apart
  <2>2. /\ Others(i) /\ SameLife(i) /\ SameHalf(i) /\ ss'[i].got = ss[i].got
        /\ ss[i].failed => ss'[i].failed
        /\ ss[i].backend = "open" \/ ss'[i].out = ss[i].out
    BY <1>21, WriteFields DEF TakesChunk, Broken
  <2>3. \A k \in Streams : Still(k)
    BY <2>1, <2>2, StillApart DEF Others, SameLife, SameHalf
  <2> QED
    BY <2>1, <2>3 DEF Apart
<1>22. ASSUME NEW i \in Streams, WriterTold(i) PROVE Special \/ Quiet
  BY <1>22 DEF WriterTold
<1>23. ASSUME NEW i \in Streams, Drain(i) PROVE Special \/ Quiet
  <2>1. Apart
    BY <1>23, WriterMoves DEF Drain, Moves, Rest, Apart
  <2>2. /\ Others(i) /\ SameHalf(i) /\ ss'[i].state = ss[i].state /\ ss'[i].got = ss[i].got
        /\ ss[i].failed => ss'[i].failed
        /\ ss[i].backend = "open" \/ (ss'[i].out = ss[i].out /\ ss'[i].backend = ss[i].backend)
    <3>1. CASE ss[i].writeCh # <<>>
      BY <1>23, <3>1, WriteFields DEF TakesChunk, Broken, SameLife
    <3>2. CASE ss[i].writeCh = <<>>
      BY <1>23, <3>2, DrainedFields DEF SameHistory, SameLine
    <3> QED
      BY <3>1, <3>2
  <2>3. \A k \in Streams : Still(k)
    BY <2>1, <2>2, StillApart DEF Others, SameHalf
  <2> QED
    BY <2>1, <2>3 DEF Apart
<1>24. ASSUME NEW i \in Streams, SetDeadline(i) PROVE Special \/ Quiet
  BY <1>24, DeadlineFields DEF SetDeadline, Others, SameLife, SameHistory, SameLine, SameHalf
<1>25. ASSUME NEW i \in Streams, ReadFails(i) PROVE Special \/ Quiet
  BY <1>25 DEF ReadFails
<1>26. ASSUME NEW i \in Streams, ReadData(i) PROVE Special \/ Quiet
  BY <1>26, DeadlineFields DEF ReadData, Others, SameLife, SameHistory, SameLine, SameHalf
<1>27. ASSUME NEW i \in Streams, SendReply(i) PROVE Special \/ Quiet
  BY <1>27 DEF SendReply
<1>28. ASSUME NEW i \in Streams, ReadEof(i) PROVE Special \/ Quiet
  BY <1>28 DEF ReadEof
<1>29. ASSUME NEW i \in Streams, SendClose(Run(i), "done") PROVE Special \/ Quiet
  BY <1>29 DEF SendClose
<1>30. ASSUME NEW i \in Streams, SendClose(Reader(i), "close") PROVE Special \/ Quiet
  BY <1>30 DEF SendClose
<1>31. ASSUME NEW p \in Proc, Claim(p) PROVE Special \/ Quiet
  <2>1. PICK i \in Streams : i = StreamOf(p)
    BY <1>31, CloserMoves, CloserWorks DEF Moves, Closing
  <2>2. /\ Others(i) /\ SameLine(i) /\ SameHistory(i) /\ SameHalf(i) /\ ss'[i].state = "closed"
        /\ ss'[i].backend = ss[i].backend
    BY <1>31, <2>1, ClaimFields
  <2>3. /\ target' = target /\ calls' = calls
        /\ \/ pc'[Recv] = pc[Recv]
           \/ target[Recv] = i /\ pc[Recv] = "close" /\ pc'[Recv] \in {"idle", "closeWrite"}
    BY <1>31, <2>1, CloserMoves, StreamOfFacts DEF Claim, Moves, Rest, After
  <2>4. \A k \in Streams : Carried(k)' = Carried(k)
    BY <2>3
  <2>5. \A k \in Streams : Still(k)
    BY <2>2, <2>3, <2>4 DEF Others, SameHistory, SameLine, SameHalf
  <2> QED
    BY <2>3, <2>5
<1>32. ASSUME NEW p \in Proc, TestChannel(p, "closeWrite", "writeCloseCh", "closeWrite2", "closeAll")
       PROVE  Special \/ Quiet
  BY <1>32, ProcCases DEF TestChannel
<1>33. ASSUME NEW p \in Proc, CloseChannel(p, "closeWrite2", "writeCloseCh", "closeAll")
       PROVE  Special \/ Quiet
  BY <1>33, ProcCases, CloseWriteFields, ClosingBorn, StreamOfFacts
     DEF CloseChannel, Others, SameLife, SameHistory, SameLine, SameHalf, Closing, PastClaim
<1>34. ASSUME NEW p \in Proc, TestChannel(p, "closeAll", "closeCh", "closeAll2", "closeConn")
       PROVE  Special \/ Quiet
  BY <1>34, ProcCases DEF TestChannel
<1>35. ASSUME NEW p \in Proc, CloseChannel(p, "closeAll2", "closeCh", "closeConn")
       PROVE  Special \/ Quiet
  BY <1>35, ProcCases, CloseAllFields, ClosingBorn, StreamOfFacts
     DEF CloseChannel, Others, SameLife, SameHistory, SameLine, SameHalf, Closing, PastClaim
<1>36. ASSUME NEW p \in Proc, CloseBackend(p) PROVE Special \/ Quiet
  BY <1>36, ProcCases, CloseBackendFields, ClosingBorn, StreamOfFacts
     DEF CloseBackend, After, Others, SameLife, SameHistory, SameLine, SameHalf, Closing, PastClaim
<1>37. CASE UNCHANGED vars
  BY <1>37 DEF vars
<1> QED
  BY NextCases, <1>1, <1>2, <1>3, <1>4, <1>5, <1>6, <1>7, <1>8, <1>9, <1>10, <1>11, <1>12,
     <1>13, <1>14, <1>15, <1>16, <1>17, <1>18, <1>19, <1>20, <1>21, <1>22, <1>23, <1>24,
     <1>25, <1>26, <1>27, <1>28, <1>29, <1>30, <1>31, <1>32, <1>33, <1>34, <1>35, <1>36,
     <1>37

\* A Write that fails: the connection refused it, or gets nothing any more.
LEMMA FlowLost ==
    ASSUME QuietInv, NEW k \in Streams, Still(k), Loses(k)
    PROVE  Flow(k)'
<1>1. /\ AlwaysInv /\ Flow(k) /\ DialOK(k) /\ ObjectsOK
  BY DEF QuietInv, FlowInv, StateInv, AlwaysInv, TypeInv
<1>2. ss[k].failed \/ IsPrefix(ss[k].out, ss[k].got)
  BY <1>1, FlowGives
<1>3. CASE ss'[k].failed
  BY <1>3 DEF Flow
<1>4. CASE ~ss'[k].failed
  <2>1. ~ss[k].failed /\ ss[k].backend # "open"
    BY <1>4 DEF Loses, Broken
  <2>2. ss[k].backend \in {"finSent", "closed"}
    BY <1>1, <2>1, ObjectFields DEF Loses, DialOK
  <2>3. /\ ss'[k].backend \in {"finSent", "closed"} /\ ss'[k].out = ss[k].out
        /\ ss'[k].got = ss[k].got
    BY <2>2 DEF Still
  <2> QED
    BY <1>2, <2>1, <2>3 DEF Flow
<1> QED
  BY <1>3, <1>4

\* The receive loop puts its chunk down at the end of the line.
LEMMA FlowPut ==
    ASSUME QuietInv, NEW i \in Streams, i = target[Recv], Grows(i), Carried(i) = <<calls>>,
           Carried(i)' = <<>>, ss'[i].got = ss[i].got, SameLife(i), SameHistory(i),
           ss'[i].out = ss[i].out, pc[Recv] \in {"lock", "send"}
    PROVE  Flow(i)'
<1>1. AlwaysInv /\ Flow(i) /\ ObjectsOK
  BY DEF QuietInv, FlowInv, AlwaysInv, TypeInv
<1>2. calls \in Chunk
  BY <1>1, CallsType DEF AlwaysInv, TypeInv, Grows
<1>3. Line(ss[i]) \in Seq(Chunk)
  BY <1>1, LineType
<1>4. CASE Complete(i)
  <2>1. Line(ss[i])' = Append(Line(ss[i]), calls)
    BY DEF Grows
  <2>2. Append(Line(ss[i]), calls) \in Seq(Chunk)
    BY <1>2, <1>3
  <2>3. Line(ss[i]) \o <<calls>> = Append(Line(ss[i]), calls)
    BY <1>2, <1>3, CarriedFacts
  <2>4. Append(Line(ss[i]), calls) \o <<>> = Append(Line(ss[i]), calls)
    BY <2>2, CarriedFacts
  <2>5. Append(Line(ss[i]), calls) = ss[i].got
    BY <1>4, <2>3 DEF Complete
  <2>6. Complete(i)'
    BY <2>1, <2>4, <2>5 DEF Complete
  <2> QED
    BY <2>6 DEF Flow
<1>5. CASE ss[i].failed
  BY <1>5 DEF Flow, SameHistory
<1>6. CASE ss[i].backend \in {"finSent", "closed"} /\ IsPrefix(ss[i].out, ss[i].got)
  BY <1>6 DEF Flow, SameLife
<1>7. Carried(i) # <<>> /\ ~QueueShut(i)
  BY DEF QueueShut
<1> QED
  BY <1>1, <1>4, <1>5, <1>6, <1>7 DEF Flow

\* The receive loop drops its chunk, and the object gets no other.
LEMMA FlowDropped ==
    ASSUME QuietInv, NEW i \in Streams, ss'[i] = ss[i], Carried(i) = <<calls>>,
           Carried(i)' = <<>>,
           \/ ss[i].state = "closed" \/ (pc'[Recv] = "close" /\ target'[Recv] = i)
           \/ QueueShut(i)'
    PROVE  Flow(i)'
<1>1. AlwaysInv /\ Flow(i) /\ Line(ss[i])' = Line(ss[i])
  BY DEF QuietInv, FlowInv, Line
<1>2. CASE Complete(i) \/ (QueueShut(i) /\ IsPrefix(Line(ss[i]), ss[i].got))
  <2>1. IsPrefix(Line(ss[i]), ss[i].got)
    BY <1>1, <1>2, FlowGives
  <2>2. IsPrefix(Line(ss[i])', ss'[i].got)
    BY <1>1, <2>1
  <2> QED
    BY <2>2 DEF Flow
<1>3. CASE ss[i].failed
  BY <1>3 DEF Flow
<1>4. CASE ss[i].backend \in {"finSent", "closed"} /\ IsPrefix(ss[i].out, ss[i].got)
  BY <1>4 DEF Flow
<1>5. Carried(i) # <<>>
  OBVIOUS
<1> QED
  BY <1>1, <1>2, <1>3, <1>4, <1>5 DEF Flow

\* One more chunk is meant for the object: carried to it, or dropped as it is
\* closed.
LEMMA FlowMeant ==
    ASSUME QuietInv, LoadState, NEW i \in Streams, i = target[Recv]
    PROVE  Flow(i)'
<1>1. AlwaysInv /\ Flow(i) /\ ObjectsOK
  BY DEF QuietInv, FlowInv, AlwaysInv, TypeInv
<1>2. /\ SameLine(i) /\ SameLife(i) /\ SameHalf(i) /\ ss'[i].got = Append(ss[i].got, calls)
      /\ ss'[i].failed = ss[i].failed /\ target' = target /\ calls' = calls
  BY <1>1, LoadStateFields DEF LoadState
<1>3. /\ pc[Recv] = "loaded"
      /\ \/ ss[i].state = "closed" /\ pc'[Recv] = "idle"
         \/ ss[i].state = "connecting" /\ pc'[Recv] = "lock"
         \/ ss[i].state = "connected" /\ pc'[Recv] = "check"
  BY <1>1, LoadStateGoes
<1>4. calls \in Chunk
  BY <1>1, <1>3, CallsType DEF AlwaysInv, TypeInv, InHand
<1>5. Line(ss[i]) \in Seq(Chunk) /\ ss[i].got \in Seq(Chunk) /\ ss[i].out \in Seq(Chunk)
  BY <1>1, LineType, ObjectFields
<1>6. Line(ss[i])' = Line(ss[i]) /\ ss'[i].out = ss[i].out
  BY <1>2 DEF SameLine, Line
<1>7. /\ Carried(i) = <<>>
      /\ Carried(i)' = IF ss[i].state = "closed" THEN <<>> ELSE <<calls>>
  BY <1>2, <1>3 DEF Carried
<1>8. CASE Complete(i) /\ ss[i].state # "closed"
  <2>1. Line(ss[i]) = ss[i].got
    BY <1>5, <1>7, <1>8, CarriedFacts DEF Complete
  <2>2. Line(ss[i]) \o <<calls>> = Append(ss[i].got, calls)
    BY <1>4, <1>5, <2>1, CarriedFacts
  <2>3. Complete(i)'
    BY <1>2, <1>6, <1>7, <1>8, <2>2 DEF Complete
  <2> QED
    BY <2>3 DEF Flow
<1>9. CASE IsPrefix(Line(ss[i]), ss[i].got) /\ ss[i].state = "closed"
  <2>1. IsPrefix(Line(ss[i]), Append(ss[i].got, calls))
    BY <1>4, <1>5, <1>9, PrefixGrows
  <2>2. IsPrefix(Line(ss[i])', ss'[i].got) /\ Carried(i)' = <<>> /\ ss'[i].state = "closed"
    BY <1>2, <1>6, <1>7, <1>9, <2>1 DEF SameLife
  <2> QED
    BY <2>2 DEF Flow
<1>10. CASE ss[i].failed
  BY <1>2, <1>10 DEF Flow
<1>11. CASE ss[i].backend \in {"finSent", "closed"} /\ IsPrefix(ss[i].out, ss[i].got)
  <2>1. IsPrefix(ss[i].out, Append(ss[i].got, calls))
    BY <1>4, <1>5, <1>11, PrefixGrows
  <2> QED
    BY <1>2, <1>6, <1>11, <2>1 DEF Flow, SameLife
<1>12. CASE QueueShut(i) /\ IsPrefix(Line(ss[i]), ss[i].got)
  <2>1. IsPrefix(Line(ss[i]), Append(ss[i].got, calls))
    BY <1>4, <1>5, <1>12, PrefixGrows
  <2>2. QueueShut(i)'
    BY <1>2, <1>3, <1>12 DEF QueueShut, SameLife, SameHalf
  <2>3. IsPrefix(Line(ss[i])', ss'[i].got)
    BY <1>2, <1>6, <2>1
  <2> QED
    BY <2>2, <2>3 DEF Flow
<1>13. Complete(i) => IsPrefix(Line(ss[i]), ss[i].got)
  BY <1>1, FlowGives
<1> QED
  BY <1>1, <1>3, <1>8, <1>9, <1>10, <1>11, <1>12, <1>13 DEF Flow

\* What the steps of the receive loop do to the object it has in hand.
LEMMA FlowSpecial ==
    ASSUME QuietInv, Special, NEW i \in Streams, i = target[Recv]
    PROVE  Flow(i)' /\ Others(i) /\ target' = target
<1>1. /\ AlwaysInv /\ ObjectsOK /\ PcOK /\ LifeOK(i) /\ Flow(i)
  BY DEF QuietInv, StateInv, FlowInv, AlwaysInv, TypeInv, OrderInv
<1>2. target' = target /\ calls' = calls
  BY DEF Special, LoadState, Pend, CheckWriteClosed, Enqueue, EnqueueTimeout
<1>3. CASE LoadState
  BY <1>1, <1>2, <1>3, FlowMeant, LoadStateFields
<1>4. CASE Pend
  <2>1. pc[Recv] = "lock" /\ pc'[Recv] \in {"idle", "check"}
    BY <1>1, <1>4, ProcNames DEF Pend, At, Goto, PcOK
  <2>2. CASE ss[i].state # "connecting"
    <3>1. ss' = ss /\ pc'[Recv] = "check"
      BY <1>1, <1>4, <2>2, ProcNames DEF Pend, Goto, PcOK
    <3>2. Still(i) /\ Keeps(i)
      BY <1>2, <2>1, <3>1 DEF Still, QueueShut, Carried, Keeps
    <3> QED
      BY <1>1, <1>2, <3>1, <3>2, FlowKept DEF Others
  <2>3. CASE ss[i].state = "connecting"
    <3>1. /\ pc'[Recv] = "idle"
          /\ Others(i) /\ SameHistory(i) /\ SameLife(i) /\ ss'[i].out = ss[i].out
      BY <1>1, <1>4, <2>3, ProcNames, PendFields DEF Pend, Goto, PcOK
    <3>2. Grows(i)
      BY <1>1, <1>2, <1>4, <2>1, <2>3, <3>1, LineMoves DEF Grows, InHand
    <3>3. Carried(i) = <<calls>> /\ Carried(i)' = <<>>
      BY <2>1, <3>1 DEF Carried
    <3> QED
      BY <1>2, <2>1, <3>1, <3>2, <3>3, FlowPut DEF SameHistory
  <2> QED
    BY <2>2, <2>3
<1>5. CASE CheckWriteClosed
  <2>1. ss' = ss /\ pc[Recv] = "check"
    BY <1>5 DEF CheckWriteClosed, At
  <2>2. CASE ss[i].writeCloseCh
    <3>1. pc'[Recv] = "idle"
      BY <1>1, <1>5, <2>2, ProcNames DEF CheckWriteClosed, Goto, PcOK
    <3>2. ss[i].state \in {"connected", "closed"}
      BY <1>1, <2>1, TargetBorn, ObjectFields DEF LifeOK
    <3>4. QueueShut(i)'
      BY <2>1, <2>2, <3>1, <3>2 DEF QueueShut
    <3>3. Carried(i) = <<calls>> /\ Carried(i)' = <<>>
      BY <2>1, <3>1 DEF Carried
    <3> QED
      BY <1>2, <2>1, <3>3, <3>4, FlowDropped DEF Others
  <2>3. CASE ~ss[i].writeCloseCh
    <3>1. pc'[Recv] = "send"
      BY <1>1, <1>5, <2>3, ProcNames DEF CheckWriteClosed, Goto, PcOK
    <3>2. Still(i) /\ Keeps(i)
      BY <1>2, <2>1, <2>3, <3>1 DEF Still, QueueShut, Carried, Keeps
    <3> QED
      BY <1>1, <1>2, <2>1, <3>2, FlowKept DEF Others
  <2> QED
    BY <2>2, <2>3
<1>6. CASE Enqueue
  <2>1. pc[Recv] = "send" /\ pc'[Recv] = "idle"
    BY <1>1, <1>6, ProcNames DEF Enqueue, At, Goto, PcOK
  <2>2. Others(i) /\ SameHistory(i) /\ SameLife(i) /\ ss'[i].out = ss[i].out
    BY <1>1, <1>6, EnqueueFields
  <2>3. Grows(i)
    BY <1>1, <1>2, <1>6, <2>1, LineMoves DEF Grows, InHand
  <2>4. Carried(i) = <<calls>> /\ Carried(i)' = <<>>
    BY <2>1 DEF Carried
  <2> QED
    BY <1>2, <2>1, <2>2, <2>3, <2>4, FlowPut DEF SameHistory
<1>7. CASE EnqueueTimeout
  <2>1. ss' = ss /\ pc[Recv] = "send" /\ pc'[Recv] = "close"
    BY <1>1, <1>7, ProcNames DEF EnqueueTimeout, At, Goto, PcOK
  <2>2. Carried(i) = <<calls>> /\ Carried(i)' = <<>>
    BY <2>1 DEF Carried
  <2> QED
    BY <1>2, <2>1, <2>2, FlowDropped DEF Others
<1> QED
  BY <1>3, <1>4, <1>5, <1>6, <1>7 DEF Special

\* Every step keeps the flow.
LEMMA FlowStep ==
    ASSUME pc'[Shut] = "idle", QuietInv, [Next]_vars
    PROVE  \A k \in Streams : Flow(k)'
<1> SUFFICES ASSUME NEW k \in Streams PROVE Flow(k)'
  OBVIOUS
<1>1. AlwaysInv /\ Flow(k)
  BY DEF QuietInv, FlowInv
<1>2. CASE Quiet
  <2>1. Still(k) /\ ~Grows(k)
    BY <1>2 DEF Quiet, Grows
  <2> QED
    BY <1>1, <2>1, LineEffects, FlowKept, FlowLost DEF LineEffect
<1>3. CASE Special
  <2>1. PICK i \in Streams : i = target[Recv]
    BY <1>1, <1>3, TargetBorn
       DEF Special, LoadState, Pend, CheckWriteClosed, Enqueue, EnqueueTimeout, At
  <2>2. Flow(i)' /\ Others(i) /\ target' = target
    BY <1>3, <2>1, FlowSpecial
  <2>3. CASE k # i
    <3>1. Still(k) /\ Keeps(k)
      BY <2>1, <2>2, <2>3 DEF Others, Still, QueueShut, Carried, Keeps
    <3> QED
      BY <1>1, <3>1, FlowKept
  <2> QED
    BY <2>2, <2>3
<1> QED
  BY <1>2, <1>3, StillStep

\* The step that sends the FIN.
Fin(k) == /\ Drain(k) /\ ss[k].writeCh = <<>> /\ ss[k].backend = "open"
          /\ pc[Writer(k)] = "drainFin"
Ends == \A k \in Streams :
    /\ ss'[k].state # "closed" => ss[k].state # "closed"
    /\ \/ ss'[k].backend = ss[k].backend \/ ss'[k].state = "closed" \/ Fin(k)
       \/ ss[k].backend = "nil" /\ ss'[k].backend = "open"
    /\ \/ ClientClose
       \/ ss'[k].clientCloseRecv = ss[k].clientCloseRecv /\ ss'[k].due = ss[k].due
    /\ ss[k].failed => ss'[k].failed
    /\ ss[k].backend = "finSent" => ss'[k].out = ss[k].out

\* The FIN is sent there alone, no backend is closed before its object, and
\* what a failed Write and the client's close have noted stays.
LEMMA EndsStep ==
    ASSUME pc'[Shut] = "idle", QuietInv, [Next]_vars PROVE Ends
<1> TypeInv /\ ObjectsOK /\ PcOK /\ VarsOK /\ TargetOK /\ AlwaysInv /\ QuietOK
  BY DEF QuietInv, AlwaysInv, TypeInv, StateInv
<1> \A i \in Streams : LifeOK(i) /\ DialOK(i) /\ ClosesOK(i) /\ HalfOK(i) /\ EndOK(i)
  BY DEF QuietInv, AlwaysInv, OrderInv, StateInv
<1>1. CASE LookUp
  <2>1. CASE ss' = ss
    BY <2>1 DEF Ends
  <2>2. CASE \E i \in Streams : Fresh(i) /\ ss' = [ss EXCEPT ![i].state = "connecting"]
    <3>1. PICK i \in Streams : Fresh(i) /\ ss' = [ss EXCEPT ![i].state = "connecting"]
      BY <2>2
    <3>2. /\ Others(i) /\ SameLine(i) /\ SameHistory(i) /\ SameHalf(i)
          /\ ss'[i].backend = ss[i].backend /\ ss[i].state = "unborn"
      BY <3>1, CreateFields DEF Fresh
    <3> QED
      BY <3>2 DEF Ends, Others, SameLine, SameHistory, SameHalf
  <2> QED
    BY <1>1, <2>1, <2>2, LookUpMoves
<1>2. CASE Store
  BY <1>2 DEF Store, Ends
<1>3. CASE LoadState
  BY <1>3, TargetBorn, LoadStateFields DEF Ends, LoadState, At, Others, SameLine, SameLife, SameHalf
<1>4. CASE Pend
  BY <1>4, PendFields, PendEffect, TargetBorn DEF Pend, Ends, Others, SameLine, SameHistory, SameLife, SameHalf, At
<1>5. CASE CheckWriteClosed
  BY <1>5 DEF CheckWriteClosed, Ends
<1>6. CASE Enqueue
  BY <1>6, EnqueueFields, TargetBorn DEF Enqueue, Ends, Others, SameLine, SameHistory, SameLife, SameHalf, At
<1>7. CASE EnqueueTimeout
  BY <1>7 DEF EnqueueTimeout, Ends
<1>8. CASE ClientClose
  BY <1>8, ClientCloseFields DEF ClientClose, Ends, Others, SameLine, SameHistory, SameLife, SameHalf
<1>9. CASE ClientCloseDone
  BY <1>9 DEF ClientCloseDone, Ends
<1>10. CASE Shutdown
  BY <1>10, NoShutdown
<1>11. CASE TestChannel(Recv, "halfClose", "writeCloseCh", "halfClose2", "halfClosed")
  BY <1>11 DEF TestChannel, Ends
<1>12. CASE CloseChannel(Recv, "halfClose2", "writeCloseCh", "halfClosed")
  BY <1>12, CloseWriteFields, TargetBorn, StreamOfFacts
     DEF CloseChannel, Ends, Others, SameLine, SameHistory, SameLife, SameHalf, At
<1>13. ASSUME NEW i \in Streams, DialSucceeds(i) PROVE Ends
  BY <1>13, DialSucceedsFields DEF DialSucceeds, At, DialOK, Ends, Others, SameLine, SameHistory, SameLife, SameHalf
<1>14. ASSUME NEW i \in Streams, DialFails(i) PROVE Ends
  BY <1>14, DialFailsFields DEF DialFails, Ends, Others, SameLine, SameHistory, SameLife, SameHalf
<1>15. ASSUME NEW i \in Streams, DialFailed(i) PROVE Ends
  BY <1>15 DEF DialFailed, Ends
<1>16. ASSUME NEW i \in Streams, TakePending(i) PROVE Ends
  <2>1. /\ Others(i) /\ SameHistory(i) /\ SameHalf(i) /\ ss'[i].backend = ss[i].backend
        /\ ss'[i].out = ss[i].out /\ ss[i].state = "connecting"
    BY <1>16, TakePendingFields DEF TakePending, At, DialOK
  <2> QED
    BY <2>1 DEF Ends, Others, SameHistory, SameHalf
<1>17. ASSUME NEW i \in Streams, Flush(i) PROVE Ends
  BY <1>17, FlushFields DEF Ends, Broken, Others, SameLife, SameHalf
<1>18. ASSUME NEW i \in Streams, Serve(i) PROVE Ends
  BY <1>18 DEF Serve, Ends
<1>19. ASSUME NEW i \in Streams, Unmap(i) PROVE Ends
  BY <1>19 DEF Unmap, Ends
<1>20. ASSUME NEW i \in Streams, RemoveReliable(i) PROVE Ends
  BY <1>20 DEF RemoveReliable, Ends
<1>21. ASSUME NEW i \in Streams, WriteChunk(i) PROVE Ends
  BY <1>21, WriteFields DEF WriteChunk, Ends, TakesChunk, Broken, Others, SameLife, SameHalf
<1>22. ASSUME NEW i \in Streams, WriterTold(i) PROVE Ends
  BY <1>22 DEF WriterTold, Ends
<1>23. ASSUME NEW i \in Streams, Drain(i) PROVE Ends
  <2>1. CASE ss[i].writeCh # <<>>
    BY <1>23, <2>1, WriteFields DEF Ends, TakesChunk, Broken, Others, SameLife, SameHalf
  <2>2. CASE ss[i].writeCh = <<>>
    <3>1. /\ Others(i) /\ SameLine(i) /\ SameHistory(i) /\ SameHalf(i)
          /\ ss'[i].state = ss[i].state
          /\ ss'[i].backend = ss[i].backend \/ Fin(i)
      BY <1>23, <2>2, DrainedFields DEF Fin
    <3> QED
      BY <3>1 DEF Ends, Others, SameLine, SameHistory, SameHalf
  <2> QED
    BY <2>1, <2>2
<1>24. ASSUME NEW i \in Streams, SetDeadline(i) PROVE Ends
  BY <1>24, DeadlineFields DEF SetDeadline, Ends, Others, SameLine, SameHistory, SameLife, SameHalf
<1>25. ASSUME NEW i \in Streams, ReadFails(i) PROVE Ends
  BY <1>25 DEF ReadFails, Ends
<1>26. ASSUME NEW i \in Streams, ReadData(i) PROVE Ends
  BY <1>26, DeadlineFields DEF ReadData, Ends, Others, SameLine, SameHistory, SameLife, SameHalf
<1>27. ASSUME NEW i \in Streams, SendReply(i) PROVE Ends
  BY <1>27 DEF SendReply, Ends
<1>28. ASSUME NEW i \in Streams, ReadEof(i) PROVE Ends
  BY <1>28 DEF ReadEof, Ends
<1>29. ASSUME NEW i \in Streams, SendClose(Run(i), "done") PROVE Ends
  BY <1>29 DEF SendClose, Ends
<1>30. ASSUME NEW i \in Streams, SendClose(Reader(i), "close") PROVE Ends
  BY <1>30 DEF SendClose, Ends
<1>31. ASSUME NEW p \in Proc, Claim(p) PROVE Ends
  BY <1>31, ClaimFields, ClosingBorn
     DEF Claim, Ends, Others, SameLine, SameHistory, SameLife, SameHalf, At, Closing, PastClaim
<1>32. ASSUME NEW p \in Proc, TestChannel(p, "closeWrite", "writeCloseCh", "closeWrite2", "closeAll")
       PROVE  Ends
  BY <1>32 DEF TestChannel, Ends
<1>33. ASSUME NEW p \in Proc, CloseChannel(p, "closeWrite2", "writeCloseCh", "closeAll")
       PROVE  Ends
  BY <1>33, CloseWriteFields, ClosingBorn
     DEF CloseChannel, Ends, Others, SameLine, SameHistory, SameLife, SameHalf, At, Closing, PastClaim
<1>34. ASSUME NEW p \in Proc, TestChannel(p, "closeAll", "closeCh", "closeAll2", "closeConn")
       PROVE  Ends
  BY <1>34 DEF TestChannel, Ends
<1>35. ASSUME NEW p \in Proc, CloseChannel(p, "closeAll2", "closeCh", "closeConn")
       PROVE  Ends
  BY <1>35, CloseAllFields, ClosingBorn
     DEF CloseChannel, Ends, Others, SameLine, SameHistory, SameLife, SameHalf, At, Closing, PastClaim
<1>36. ASSUME NEW p \in Proc, CloseBackend(p) PROVE Ends
  <2>1. PICK i \in Streams : i = StreamOf(p) /\ ss[i].state = "closed"
    BY <1>36, CloserMoves, CloserWorks DEF Moves, ClosesOK, Closing, PastClaim
  <2>2. /\ Others(i) /\ SameLine(i) /\ SameHistory(i) /\ SameHalf(i)
        /\ ss'[i].state = ss[i].state
    BY <1>36, <2>1, CloseBackendFields
  <2> QED
    BY <2>1, <2>2 DEF Ends, Others, SameLine, SameHistory, SameHalf
<1>37. CASE UNCHANGED vars
  BY <1>37 DEF vars, Ends
<1> QED
  BY NextCases, <1>1, <1>2, <1>3, <1>4, <1>5, <1>6, <1>7, <1>8, <1>9, <1>10, <1>11, <1>12,
     <1>13, <1>14, <1>15, <1>16, <1>17, <1>18, <1>19, <1>20, <1>21, <1>22, <1>23, <1>24,
     <1>25, <1>26, <1>27, <1>28, <1>29, <1>30, <1>31, <1>32, <1>33, <1>34, <1>35, <1>36,
     <1>37

\* The FIN follows the last chunk that came before the client's close.
LEMMA FinStep ==
    ASSUME pc'[Shut] = "idle", QuietInv, [Next]_vars
    PROVE  \A k \in Streams : FinOK(k)'
<1> SUFFICES ASSUME NEW k \in Streams, ss'[k].state # "closed" PROVE FinOK(k)'
  BY DEF FinOK
<1>1. /\ AlwaysInv /\ ObjectsOK /\ DialOK(k) /\ HalfOK(k) /\ LifeOK(k)
      /\ Flow(k) /\ FinOK(k) /\ VarsOK
  BY DEF QuietInv, StateInv, FlowInv, AlwaysInv, TypeInv, OrderInv
<1>2. Ends /\ ss[k].state # "closed"
  BY EndsStep DEF Ends
<1>3. /\ ss[k].backend # "closed" /\ (ss[k].backend = "finSent" => ss[k].clientCloseRecv)
      /\ ss[k].failed \/ ss[k].due <= Len(IF ss[k].backend = "finSent" THEN ss[k].out
                                          ELSE Line(ss[k]))
  BY <1>1, <1>2 DEF FinOK
<1>4. /\ ss[k].due \in Nat /\ Line(ss[k]) \in Seq(Chunk) /\ ss[k].out \in Seq(Chunk)
      /\ ss[k].got \in Seq(Chunk) /\ ss[k].clientCloseRecv \in BOOLEAN
  BY <1>1, ObjectFields, LineType
<1>5. CASE ClientClose
  <2>1. /\ SameLine(k) /\ SameHistory(k) /\ SameLife(k) /\ Line(ss[k])' = Line(ss[k])
    BY <1>1, <1>5, ClientCloseFields, SameLineKeeps DEF Keeps
  <2>2. CASE SameHalf(k) \/ ss[k].clientCloseRecv
    <3>1. ss'[k].due = ss[k].due /\ ss'[k].clientCloseRecv = ss[k].clientCloseRecv
      BY <1>1, <1>4, <1>5, <2>2, ClientCloseFields DEF SameHalf
    <3> QED
      BY <1>3, <2>1, <3>1 DEF FinOK, SameLine, SameHistory, SameLife
  <2>3. CASE ~SameHalf(k) /\ ~ss[k].clientCloseRecv
    <3>1. ss'[k].due = Len(ss[k].got) /\ ss'[k].clientCloseRecv = TRUE
      BY <1>1, <1>5, <2>3, ClientCloseFields
    <3>2. pc[Recv] = "idle" /\ Carried(k) = <<>>
      BY <1>5 DEF ClientClose, At, Carried
    <3>3. ss[k].backend \notin {"finSent", "closed"} /\ ~ss[k].writeCloseCh
      BY <1>1, <1>2, <1>3, <2>3 DEF HalfOK
    <3>4. ss[k].failed \/ Complete(k)
      BY <1>1, <1>2, <3>2, <3>3 DEF Flow, QueueShut
    <3>5. Complete(k) => Line(ss[k]) = ss[k].got
      BY <1>4, <3>2, CarriedFacts DEF Complete
    <3>6. ss[k].failed \/ Len(ss[k].got) <= Len(Line(ss[k]))
      BY <1>4, <3>4, <3>5
    <3> QED
      BY <2>1, <3>1, <3>3, <3>6 DEF FinOK, SameHistory, SameLife
  <2> QED
    BY <2>2, <2>3
<1>6. CASE ~ClientClose
  <2>1. /\ ss'[k].due = ss[k].due /\ ss'[k].clientCloseRecv = ss[k].clientCloseRecv
        /\ ss[k].failed => ss'[k].failed
        /\ ss[k].backend = "finSent" => ss'[k].out = ss[k].out
        /\ \/ ss'[k].backend = ss[k].backend \/ Fin(k)
           \/ ss[k].backend = "nil" /\ ss'[k].backend = "open"
    BY <1>2, <1>6 DEF Ends
  <2>2. CASE Fin(k)
    <3>1. /\ SameLine(k) /\ ss[k].backend = "open" /\ ss'[k].backend \in {"open", "finSent"}
      BY <1>1, <2>2, DrainedFields DEF Fin
    <3>2. ss[k].clientCloseRecv
      BY <1>1, <1>2, <2>2 DEF Fin, HalfOK
    <3>3. /\ Line(ss[k]) = ss[k].out \o ss[k].writeCh /\ ss[k].writeCh = <<>>
      BY <1>1, <2>2, LineMoves DEF Fin
    <3>4. Line(ss[k]) = ss[k].out /\ Line(ss[k])' = Line(ss[k])
      BY <1>4, <3>1, <3>3, CarriedFacts, SameLineKeeps DEF Keeps
    <3> QED
      BY <1>3, <2>1, <3>1, <3>2, <3>4 DEF FinOK, SameLine
  <2>3. CASE ss[k].backend = "finSent" /\ ss'[k].backend = ss[k].backend
    BY <1>3, <2>1, <2>3 DEF FinOK
  <2>4. CASE ss[k].backend # "finSent" /\ ss'[k].backend # "finSent"
    <3>1. ss'[k].backend # "closed"
      BY <1>3, <2>1, <2>2, <2>4, DrainedFields, <1>1 DEF Fin
    <3>2. ss'[k].failed \/ ss[k].due <= Len(Line(ss[k])')
      <4>1. CASE Keeps(k)
        BY <1>3, <2>1, <2>4, <4>1 DEF Keeps
      <4>2. CASE Grows(k)
        <5>1. calls \in Chunk /\ Line(ss[k])' = Append(Line(ss[k]), calls)
          BY <1>1, <4>2, CallsType DEF Grows
        <5>2. Len(Line(ss[k])') = Len(Line(ss[k])) + 1 /\ Len(Line(ss[k])) \in Nat
          BY <1>4, <5>1
        <5> QED
          BY <1>3, <1>4, <2>1, <2>4, <5>2
      <4>3. CASE Loses(k)
        <5>1. ss[k].backend = "open"
          BY <1>1, <1>3, <2>4, <4>3, ObjectFields DEF Loses, DialOK
        <5> QED
          BY <4>3, <5>1 DEF Loses, Broken
      <4> QED
        BY <1>1, <4>1, <4>2, <4>3, LineEffects DEF LineEffect
    <3> QED
      BY <2>1, <2>4, <3>1, <3>2 DEF FinOK
  <2> QED
    BY <1>1, <1>3, <2>1, <2>2, <2>3, <2>4
<1> QED
  BY <1>5, <1>6
-----------------------------------------------------------------------------
(***************************************************************************)
(* What holds short of a shutdown.                                         *)
(***************************************************************************)

\* It holds at the start.
LEMMA InitQuiet == Init => QuietInv
<1> SUFFICES ASSUME Init PROVE QuietInv
  OBVIOUS
<1>1. /\ pc = [p \in Proc |-> "idle"] /\ \A i \in Streams : ss[i] = Unborn
      /\ clientEnd = FALSE
  BY DEF Init
<1>2. StateInv
  <2>1. QuietOK
    BY <1>1, ProcNames DEF QuietOK
  <2>2. ASSUME NEW i \in Streams PROVE DialOK(i) /\ ClosesOK(i) /\ HalfOK(i) /\ EndOK(i)
    BY <1>1, ProcNames
       DEF Unborn, DialOK, ClosesOK, HalfOK, EndOK, Somebody, Closing, PastClaim
  <2> QED
    BY <2>1, <2>2 DEF StateInv
<1>3. FlowInv
  <2>1. ASSUME NEW i \in Streams PROVE Flow(i) /\ FinOK(i)
    <3>1. Carried(i) = <<>>
      BY <1>1, ProcNames DEF Carried
    <3>2. Line(ss[i]) = <<>> /\ ss[i].got = <<>>
      BY <1>1 DEF Line, Unborn
    <3>3. <<>> \o <<>> = <<>>
      OBVIOUS
    <3>4. Complete(i)
      BY <3>1, <3>2, <3>3 DEF Complete
    <3> QED
      BY <1>1, <3>4 DEF Flow, FinOK, Unborn
  <2> QED
    BY <2>1 DEF FlowInv
<1>4. OneInv
  BY <1>1, ProcNames DEF OneInv, Unborn
<1> QED
  BY <1>2, <1>3, <1>4, InitAlways DEF QuietInv

\* Every step short of a shutdown keeps it.
LEMMA QuietInvStep ==
    ASSUME pc'[Shut] = "idle", QuietInv, [Next]_vars PROVE QuietInv'
<1>1. AlwaysInv'
  BY AlwaysStep DEF QuietInv
<1>2. StateInv'
  BY DialStep, ClosesStep, HalfStep, EndStep DEF StateInv, QuietOK
<1>3. FlowInv'
  BY FlowStep, FinStep DEF FlowInv
<1> QED
  BY <1>1, <1>2, <1>3, OneStep DEF QuietInv

\* Until Server.Close is called the invariant holds.
UntilShutdown == AlwaysInv /\ (pc[Shut] = "idle" => QuietInv)
LEMMA QuietHolds == Spec => []UntilShutdown
<1>1. Init => UntilShutdown
  BY InitQuiet DEF UntilShutdown, QuietInv
<1>2. UntilShutdown /\ [Next]_vars => UntilShutdown'
  BY QuietInvStep, ShutStays, AlwaysStep DEF UntilShutdown
<1> QED
  BY <1>1, <1>2, PTL DEF Spec

\* WithoutGap: until a Write to it fails, and until Server.Close is called, a
\* backend connection gets the chunks meant for it without a gap, however its
\* set-up, the client's close, late packets, the backend's close and the send
\* timeout interleave.
THEOREM NoGap == Spec => []WithoutGap
<1>1. UntilShutdown => WithoutGap
  <2> SUFFICES ASSUME QuietInv, NEW i \in Streams, ~ss[i].failed
               PROVE  Prefix(ss[i].out, ss[i].got)
    BY DEF WithoutGap, UntilShutdown
  <2>1. AlwaysInv /\ Flow(i) /\ ObjectsOK
    BY DEF QuietInv, FlowInv, AlwaysInv, TypeInv
  <2>2. /\ IsPrefix(ss[i].out, ss[i].got)
        /\ ss[i].out \in Seq(Chunk) /\ ss[i].got \in Seq(Chunk)
    BY <2>1, FlowGives, ObjectFields
  <2> QED
    BY <2>2, PrefixIsSubSeq
<1> QED
  BY <1>1, QuietHolds, PTL

\* FinComplete: until Server.Close is called, the FIN goes to the backend only
\* when it has got every chunk that arrived before the client's close.
THEOREM FinAfterAll == Spec => []FinComplete
<1>1. UntilShutdown => FinComplete
  BY DEF UntilShutdown, QuietInv, FlowInv, FinOK, FinComplete
<1> QED
  BY <1>1, QuietHolds, PTL

\* OneBackend: until Server.Close is called, a number whose data dials a backend
\* again has closed the connection it had.
THEOREM OneAtATime == Spec => []OneBackend
<1>1. UntilShutdown => OneBackend
  BY DEF UntilShutdown, QuietInv, OneInv, Settled, OneBackend
<1> QED
  BY <1>1, QuietHolds, PTL
=============================================================================
