---------------------------- MODULE ServerStream ----------------------------
(***************************************************************************)
(* The server's end of one stream number (pkg/shadowgre/server.go): the    *)
(* serverStream objects that handleReliableData creates for it, their      *)
(* backend connections and their goroutines.                               *)
(*                                                                         *)
(*   recv       the transport's receive loop, in the callbacks of the      *)
(*              reliable layer                                             *)
(*   run[i]     connectAndRun of object i                                  *)
(*   writer[i], reader[i]   writeToBackend and readFromBackend             *)
(*   shut       the goroutine in Server.Close                              *)
(*                                                                         *)
(* One step is the code between two accesses to shared state.  A chunk is  *)
(* the number of the handleReliableData call that carried it.              *)
(***************************************************************************)
EXTENDS Integers, Sequences

CONSTANTS
    Chunks,      \* bound: calls of handleReliableData
    MaxStreams,  \* bound: serverStream objects
    WriteCap,    \* capacity of writeCh (4096)
    ShutCalls, ShutStreams,  \* bounds: Server.Close is called after at least
                 \* so many calls, with at most so many objects made
    Events       \* what may happen: the backend sends a "reply" or an "eof",
                 \* "dial" or "write" fails, the backend is "slow" (5 s send
                 \* timeout), the client's CLOSE comes again ("repeat"), the
                 \* server is "shutdown"

ASSUME ServerAssumption ==
    /\ Chunks \in Nat /\ MaxStreams \in Nat \ {0} /\ WriteCap \in Nat \ {0}
    /\ ShutCalls \in Nat /\ ShutStreams \in Nat
    /\ Events \subseteq {"reply", "eof", "dial", "write", "slow", "repeat",
                    "shutdown"}

Streams == 1 .. MaxStreams
None == 0

Recv == <<"recv", None>>
Shut == <<"shut", None>>
Run(i) == <<"run", i>>
Writer(i) == <<"writer", i>>
Reader(i) == <<"reader", i>>
Proc == {Recv, Shut} \cup ({"run", "writer", "reader"} \X Streams)

Object == [state : {"unborn", "connecting", "connected", "closed"},
           pending : Seq(1 .. Chunks), writeCh : Seq(1 .. Chunks),
           writeCloseCh : BOOLEAN, closeCh : BOOLEAN,
           clientCloseRecv : BOOLEAN, deadline : BOOLEAN,
           backend : {"nil", "open", "finSent", "closed"},
           flush : Seq(1 .. Chunks),  \* connectAndRun's local pendingData
           got : Seq(1 .. Chunks),    \* history: chunks meant for it
           due : Nat,                 \* history: how many before its close
           out : Seq(1 .. Chunks),    \* history: chunks its backend got
           failed : BOOLEAN]          \* history: an open one refused a Write

VARIABLES
    ss,         \* the objects; writeCloseCh, closeCh: has it been closed?
    entry,      \* the object cs.streams holds for the number
    pc,         \* where each goroutine is
    target,     \* the object recv and shut work on
    calls,      \* calls of handleReliableData so far
    clientEnd,  \* handleReliableClose was called
    reliable,   \* the ReliableManager's stream for the number: the "first",
                \* "none", one made "again", or one Server.Close "shut"
    closeSent,  \* the reliable stream was told to send a CLOSE
    panicked    \* a channel was closed twice

vars == <<ss, entry, pc, target, calls, clientEnd, reliable, closeSent, panicked>>

Unborn == [state |-> "unborn", pending |-> <<>>, writeCh |-> <<>>,
           writeCloseCh |-> FALSE, closeCh |-> FALSE,
           clientCloseRecv |-> FALSE, deadline |-> FALSE, backend |-> "nil",
           flush |-> <<>>, got |-> <<>>, due |-> 0, out |-> <<>>,
           failed |-> FALSE]

Init ==
    /\ ss = [i \in Streams |-> Unborn]
    /\ entry = None
    /\ pc = [p \in Proc |-> "idle"]
    /\ target = [p \in {Recv, Shut} |-> None]
    /\ calls = 0 /\ clientEnd = FALSE /\ reliable = "first"
    /\ closeSent = FALSE /\ panicked = FALSE

Goto(p, l) == pc' = [pc EXCEPT ![p] = l]
At(p, l) == pc[p] = l /\ ~panicked

-----------------------------------------------------------------------------
(***************************************************************************)
(* handleReliableData, called by the receive loop for the next chunk.      *)
(***************************************************************************)
\* createStream: the object and its connectAndRun goroutine.
Fresh(i) == ss[i].state = "unborn" /\ \A j \in 1 .. (i - 1) : ss[j].state # "unborn"

\* ReliableManager.Receive makes the number a reliable stream if it has none:
\* a late packet number 0 is handed over by a fresh one.
Made == IF reliable = "none" THEN "again" ELSE reliable

LookUp ==
    /\ At(Recv, "idle") /\ calls < Chunks
    /\ calls' = calls + 1 /\ reliable' = Made
    /\ \/ /\ entry # None
          /\ target' = [target EXCEPT ![Recv] = entry]
          /\ Goto(Recv, "loaded") /\ UNCHANGED ss
       \/ \E i \in Streams :
             /\ entry = None /\ Fresh(i)
             /\ ss' = [ss EXCEPT ![i].state = "connecting"]
             /\ target' = [target EXCEPT ![Recv] = i]
             /\ pc' = [pc EXCEPT ![Recv] = "created", ![Run(i)] = "dial"]
    /\ UNCHANGED <<entry, clientEnd, closeSent, panicked>>

\* LoadOrStore, after the goroutine was started.
Store ==
    /\ At(Recv, "created")
    /\ entry' = target[Recv] /\ Goto(Recv, "loaded")
    /\ UNCHANGED <<ss, target, calls, clientEnd, reliable, closeSent, panicked>>

LoadState ==
    LET i == target[Recv]
    IN  /\ At(Recv, "loaded")
        /\ ss' = [ss EXCEPT ![i].got = Append(@, calls)]
        /\ Goto(Recv, CASE ss[i].state = "closed" -> "idle"
                        [] ss[i].state = "connecting" -> "lock"
                        [] ss[i].state = "connected" -> "check")
        /\ UNCHANGED <<entry, target, calls, clientEnd, reliable, closeSent, panicked>>

\* Mutant: the state is not read again under the lock.
BugPend ==
    /\ At(Recv, "lock")
    /\ ss' = [ss EXCEPT ![target[Recv]].pending = Append(@, calls)]
    /\ Goto(Recv, "idle")
    /\ UNCHANGED <<entry, target, calls, clientEnd, reliable, closeSent, panicked>>

\* With pendingMu held, the state is read again.
Pend ==
    LET i == target[Recv]
    IN  /\ At(Recv, "lock")
        /\ \/ /\ ss[i].state = "connecting"
              /\ ss' = [ss EXCEPT ![i].pending = Append(@, calls)]
              /\ Goto(Recv, "idle")
           \/ /\ ss[i].state # "connecting"
              /\ Goto(Recv, "check") /\ UNCHANGED ss
        /\ UNCHANGED <<entry, target, calls, clientEnd, reliable, closeSent, panicked>>

CheckWriteClosed ==
    /\ At(Recv, "check")
    /\ Goto(Recv, IF ss[target[Recv]].writeCloseCh THEN "idle" ELSE "send")
    /\ UNCHANGED <<ss, entry, target, calls, clientEnd, reliable, closeSent, panicked>>

\* Mutant: a queue without a limit.
BugEnqueue ==
    /\ At(Recv, "send")
    /\ ss' = [ss EXCEPT ![target[Recv]].writeCh = Append(@, calls)]
    /\ Goto(Recv, "idle")
    /\ UNCHANGED <<entry, target, calls, clientEnd, reliable, closeSent, panicked>>

Enqueue ==
    LET i == target[Recv]
    IN  /\ At(Recv, "send") /\ Len(ss[i].writeCh) < WriteCap
        /\ ss' = [ss EXCEPT ![i].writeCh = Append(@, calls)]
        /\ Goto(Recv, "idle")
        /\ UNCHANGED <<entry, target, calls, clientEnd, reliable, closeSent, panicked>>

\* Five seconds with a full channel: the chunk is dropped, the stream closed.
EnqueueTimeout ==
    /\ At(Recv, "send") /\ "slow" \in Events
    /\ Len(ss[target[Recv]].writeCh) = WriteCap
    /\ Goto(Recv, "close")
    /\ UNCHANGED <<ss, entry, target, calls, clientEnd, reliable, closeSent, panicked>>

(***************************************************************************)
(* handleReliableClose, for the client's CLOSE and its retransmissions.    *)
(* ReliableManager.Receive removes the reliable stream once it returns.    *)
(***************************************************************************)
ClientClose ==
    /\ At(Recv, "idle") /\ (clientEnd => "repeat" \in Events)
    /\ clientEnd' = TRUE
    /\ \/ /\ entry = None /\ reliable' = "none"
          /\ UNCHANGED <<ss, pc, target>>
       \/ /\ entry # None
          /\ ss' = [ss EXCEPT ![entry].clientCloseRecv = TRUE,
                ![entry].due = IF ss[entry].clientCloseRecv THEN @
                               ELSE Len(ss[entry].got)]
          /\ target' = [target EXCEPT ![Recv] = entry]
          /\ Goto(Recv, "halfClose") /\ reliable' = Made
    /\ UNCHANGED <<entry, calls, closeSent, panicked>>

ClientCloseDone ==
    /\ At(Recv, "halfClosed")
    /\ reliable' = "none" /\ Goto(Recv, "idle")
    /\ UNCHANGED <<ss, entry, target, calls, clientEnd, closeSent, panicked>>

-----------------------------------------------------------------------------
(***************************************************************************)
(* closeWrite and close.  Both test a channel and then close it: closing a *)
(* channel that was closed in between panics.                              *)
(***************************************************************************)
\* The object goroutine p works on.
StreamOf(p) == IF p \in {Recv, Shut} THEN target[p] ELSE p[2]

\* p tests channel ch at label l, and closes it at label m if it was open.
TestChannel(p, l, ch, m, next) ==
    /\ At(p, l)
    /\ Goto(p, IF ss[StreamOf(p)][ch] THEN next ELSE m)
    /\ UNCHANGED <<ss, entry, target, calls, clientEnd, reliable, closeSent, panicked>>

CloseChannel(p, m, ch, next) ==
    /\ At(p, m)
    /\ panicked' = ss[StreamOf(p)][ch]
    /\ ss' = [ss EXCEPT ![StreamOf(p)][ch] = TRUE]
    /\ Goto(p, next)
    /\ UNCHANGED <<entry, target, calls, clientEnd, reliable, closeSent>>

\* The label a goroutine returns to from close.
After(p) == IF p = Recv THEN "idle" ELSE "done"

\* The CompareAndSwap pair: only one caller goes on.
Claim(p) ==
    LET i == StreamOf(p)
    IN  /\ At(p, "close")
        /\ ss' = [ss EXCEPT ![i].state = "closed"]
        /\ Goto(p, IF ss[i].state = "closed" THEN After(p) ELSE "closeWrite")
        /\ UNCHANGED <<entry, target, calls, clientEnd, reliable, closeSent, panicked>>

\* Mutant: the backend connection is left open.
BugCloseBackend(p) ==
    /\ At(p, "closeConn") /\ Goto(p, After(p))
    /\ UNCHANGED <<ss, entry, target, calls, clientEnd, reliable, closeSent, panicked>>

CloseBackend(p) ==
    /\ At(p, "closeConn")
    /\ ss' = [ss EXCEPT ![StreamOf(p)].backend =
                 IF @ = "nil" THEN @ ELSE "closed"]
    /\ Goto(p, After(p))
    /\ UNCHANGED <<entry, target, calls, clientEnd, reliable, closeSent, panicked>>

Close(p) ==
    \/ Claim(p)
    \/ TestChannel(p, "closeWrite", "writeCloseCh", "closeWrite2", "closeAll")
    \/ CloseChannel(p, "closeWrite2", "writeCloseCh", "closeAll")
    \/ TestChannel(p, "closeAll", "closeCh", "closeAll2", "closeConn")
    \/ CloseChannel(p, "closeAll2", "closeCh", "closeConn")
    \/ CloseBackend(p)

HalfClose ==
    \/ TestChannel(Recv, "halfClose", "writeCloseCh", "halfClose2", "halfClosed")
    \/ CloseChannel(Recv, "halfClose2", "writeCloseCh", "halfClosed")

-----------------------------------------------------------------------------
(***************************************************************************)
(* connectAndRun of object i.                                              *)
(***************************************************************************)
DialFails(i) ==
    /\ At(Run(i), "dial") /\ "dial" \in Events
    /\ ss' = [ss EXCEPT ![i].state = "closed"]
    /\ Goto(Run(i), "dialFailed")
    /\ UNCHANGED <<entry, target, calls, clientEnd, reliable, closeSent, panicked>>

\* Mutant: no CLOSE after a failed dial.
BugDialFailed(i) ==
    /\ At(Run(i), "dialFailed")
    /\ entry' = None /\ Goto(Run(i), "done")
    /\ UNCHANGED <<ss, target, calls, clientEnd, reliable, closeSent, panicked>>

\* The entry goes, whatever object it holds.
DialFailed(i) ==
    /\ At(Run(i), "dialFailed")
    /\ entry' = None /\ Goto(Run(i), "sendClose")
    /\ UNCHANGED <<ss, target, calls, clientEnd, reliable, closeSent, panicked>>

\* reliable.SendClose does nothing when the number has no reliable stream, or
\* one that Server.Close has closed.
SendClose(p, next) ==
    /\ At(p, "sendClose")
    /\ closeSent' = (closeSent \/ reliable \in {"first", "again"}) /\ Goto(p, next)
    /\ UNCHANGED <<ss, entry, target, calls, clientEnd, reliable, panicked>>

DialSucceeds(i) ==
    /\ At(Run(i), "dial")
    /\ ss' = [ss EXCEPT ![i].backend = "open"]
    /\ Goto(Run(i), "connected")
    /\ UNCHANGED <<entry, target, calls, clientEnd, reliable, closeSent, panicked>>

\* With pendingMu held.
TakePending(i) ==
    /\ At(Run(i), "connected")
    /\ ss' = [ss EXCEPT ![i].flush = ss[i].pending, ![i].pending = <<>>,
                        ![i].state = "connected"]
    /\ Goto(Run(i), "flush")
    /\ UNCHANGED <<entry, target, calls, clientEnd, reliable, closeSent, panicked>>

\* A Write to the backend: it can succeed, and it can fail.
CanWrite(i) == ss[i].backend = "open"
CanFail(i) == ss[i].backend # "open" \/ "write" \in Events

\* Value of failed after a failed Write; on a connection the program has closed
\* it is no fault of the connection.
Broken(i) == ss[i].failed \/ ss[i].backend = "open"

Flush(i) ==
    /\ At(Run(i), "flush") /\ ss[i].flush # <<>>
    /\ \/ /\ CanWrite(i)
          /\ ss' = [ss EXCEPT ![i].out = Append(@, Head(ss[i].flush)),
                              ![i].flush = Tail(@)]
          /\ UNCHANGED pc
       \/ /\ CanFail(i)
          /\ ss' = [ss EXCEPT ![i].failed = Broken(i)]
          /\ Goto(Run(i), "close")
    /\ UNCHANGED <<entry, target, calls, clientEnd, reliable, closeSent, panicked>>

\* Mutant: the goroutines start before the pending data is written.
BugServe(i) ==
    /\ At(Run(i), "flush")
    /\ pc' = [pc EXCEPT
          ![Run(i)] = IF ss[i].flush = <<>> THEN "wait" ELSE "flush",
          ![Writer(i)] = IF @ = "idle" THEN "select" ELSE @,
          ![Reader(i)] = IF @ = "idle" THEN "loop" ELSE @]
    /\ UNCHANGED <<ss, entry, target, calls, clientEnd, reliable, closeSent, panicked>>

Serve(i) ==
    /\ At(Run(i), "flush") /\ ss[i].flush = <<>>
    /\ pc' = [pc EXCEPT ![Run(i)] = "wait", ![Writer(i)] = "select",
                        ![Reader(i)] = "loop"]
    /\ UNCHANGED <<ss, entry, target, calls, clientEnd, reliable, closeSent, panicked>>

Unmap(i) ==
    /\ At(Run(i), "wait")
    /\ pc[Writer(i)] = "done" /\ pc[Reader(i)] = "done"
    /\ entry' = None /\ Goto(Run(i), "remove")
    /\ UNCHANGED <<ss, target, calls, clientEnd, reliable, closeSent, panicked>>

RemoveReliable(i) ==
    /\ At(Run(i), "remove")
    /\ reliable' = "none" /\ Goto(Run(i), "done")
    /\ UNCHANGED <<ss, entry, target, calls, clientEnd, closeSent, panicked>>

-----------------------------------------------------------------------------
(***************************************************************************)
(* writeToBackend.  The select takes any case that is ready.               *)
(***************************************************************************)
WriteChunk(i) ==
    /\ At(Writer(i), "select") /\ ss[i].writeCh # <<>>
    /\ \/ /\ CanWrite(i)
          /\ ss' = [ss EXCEPT ![i].out = Append(@, Head(ss[i].writeCh)),
                              ![i].writeCh = Tail(@)]
          /\ UNCHANGED pc
       \/ /\ CanFail(i)
          /\ ss' = [ss EXCEPT ![i].writeCh = Tail(@), ![i].failed = Broken(i)]
          /\ Goto(Writer(i), "close")
    /\ UNCHANGED <<entry, target, calls, clientEnd, reliable, closeSent, panicked>>

WriterTold(i) ==
    /\ At(Writer(i), "select")
    /\ \/ ss[i].writeCloseCh /\ Goto(Writer(i), "drainFin")
       \/ ss[i].closeCh /\ Goto(Writer(i), "drain")
    /\ UNCHANGED <<ss, entry, target, calls, clientEnd, reliable, closeSent, panicked>>

\* Mutant: the FIN does not wait for the queued data.
BugDrain(i) ==
    /\ pc[Writer(i)] \in {"drain", "drainFin"} /\ ~panicked
    /\ ss' = [ss EXCEPT ![i].backend = IF @ = "open" THEN "finSent" ELSE @]
    /\ Goto(Writer(i), "done")
    /\ UNCHANGED <<entry, target, calls, clientEnd, reliable, closeSent, panicked>>

\* drainWriteCh ignores errors; an empty channel ends it, and at the client's
\* close a FIN follows.
Drain(i) ==
    /\ pc[Writer(i)] \in {"drain", "drainFin"} /\ ~panicked
    /\ \/ /\ ss[i].writeCh # <<>>
          /\ \/ CanWrite(i) /\ ss' = [ss EXCEPT
                   ![i].out = Append(@, Head(ss[i].writeCh)),
                   ![i].writeCh = Tail(@)]
             \/ CanFail(i) /\ ss' = [ss EXCEPT
                   ![i].writeCh = Tail(@), ![i].failed = Broken(i)]
          /\ UNCHANGED pc
       \/ /\ ss[i].writeCh = <<>>
          /\ ss' = [ss EXCEPT ![i].backend =
                IF @ = "open" /\ pc[Writer(i)] = "drainFin" THEN "finSent" ELSE @]
          /\ Goto(Writer(i), "done")
    /\ UNCHANGED <<entry, target, calls, clientEnd, reliable, closeSent, panicked>>

(***************************************************************************)
(* readFromBackend.                                                        *)
(***************************************************************************)
SetDeadline(i) ==
    /\ At(Reader(i), "loop")
    /\ ss' = [ss EXCEPT ![i].deadline = ss[i].clientCloseRecv]
    /\ Goto(Reader(i), "read")
    /\ UNCHANGED <<entry, target, calls, clientEnd, reliable, closeSent, panicked>>

\* Data, for reliable.Send, which makes a reliable stream if the number has
\* none.
ReadData(i) ==
    /\ At(Reader(i), "read") /\ ss[i].backend # "closed" /\ "reply" \in Events
    /\ ss' = [ss EXCEPT ![i].deadline = FALSE]
    /\ reliable' = Made
    /\ Goto(Reader(i), "send")
    /\ UNCHANGED <<entry, target, calls, clientEnd, closeSent, panicked>>

\* Send returns: the packet went out, or its reliable stream was closed by
\* RemoveStream or Server.Close.  Which of the number's reliable streams it
\* has is not kept: it can fail once one of them was closed.
SendReply(i) ==
    /\ At(Reader(i), "send")
    /\ \/ Goto(Reader(i), "loop")
       \/ reliable # "first" /\ Goto(Reader(i), "sendClose")
    /\ UNCHANGED <<ss, entry, target, calls, clientEnd, reliable, closeSent, panicked>>

\* The read deadline passes, or the connection was closed under the reader.
ReadFails(i) ==
    /\ At(Reader(i), "read") /\ (ss[i].deadline \/ ss[i].backend = "closed")
    /\ Goto(Reader(i), "sendClose")
    /\ UNCHANGED <<ss, entry, target, calls, clientEnd, reliable, closeSent, panicked>>

\* The backend closes its side.
ReadEof(i) ==
    /\ At(Reader(i), "read") /\ ss[i].backend # "closed"
    /\ "eof" \in Events \/ ss[i].backend = "finSent"
    /\ Goto(Reader(i), "sendClose")
    /\ UNCHANGED <<ss, entry, target, calls, clientEnd, reliable, closeSent, panicked>>

-----------------------------------------------------------------------------
\* Server.Close: the reliable stream is closed, which stays in its map, and then
\* close() is called on the object in the map.
Shutdown ==
    /\ \/ /\ At(Shut, "idle") /\ "shutdown" \in Events /\ calls >= ShutCalls
          /\ \A i \in Streams : ss[i].state # "unborn" => i <= ShutStreams
          /\ reliable' = IF reliable = "none" THEN reliable ELSE "shut"
          /\ Goto(Shut, "range") /\ UNCHANGED target
       \/ /\ At(Shut, "range")
          /\ target' = [target EXCEPT ![Shut] = entry]
          /\ Goto(Shut, IF entry = None THEN "done" ELSE "close")
          /\ UNCHANGED reliable
    /\ UNCHANGED <<ss, entry, calls, clientEnd, closeSent, panicked>>

\* The receive loop inside a callback.
Handling ==
    \/ Store \/ LoadState \/ Pend \/ CheckWriteClosed \/ Enqueue
    \/ EnqueueTimeout \/ HalfClose \/ ClientCloseDone

Connecting(i) ==
    \/ DialSucceeds(i) \/ DialFails(i) \/ DialFailed(i)
    \/ SendClose(Run(i), "done") \/ TakePending(i)
    \/ Serve(i) \/ Unmap(i) \/ RemoveReliable(i)

Writing(i) == WriteChunk(i) \/ WriterTold(i) \/ Drain(i)

Reading(i) == SetDeadline(i) \/ ReadFails(i) \/ SendClose(Reader(i), "close")

Next ==
    \/ LookUp \/ ClientClose \/ Handling \/ Shutdown
    \/ \E i \in Streams :
          \/ Connecting(i) \/ Flush(i) \/ Writing(i) \/ Reading(i)
          \/ ReadData(i) \/ SendReply(i) \/ ReadEof(i)
    \/ \E p \in Proc : Close(p)

Spec == Init /\ [][Next]_vars

\* The goroutines run and timeouts expire; client and backend need do nothing.
\* The Write of pending data has no deadline: it ends when the connection is
\* closed.  A Send may wait for its window, a Read for the backend.
FairSpec ==
    /\ Spec
    /\ WF_vars(Handling \/ Close(Recv))
    /\ WF_vars((pc[Shut] # "idle" /\ Shutdown) \/ Close(Shut))
    /\ \A i \in Streams :
          /\ WF_vars(\/ Connecting(i) \/ Close(Run(i))
                     \/ ss[i].backend # "open" /\ Flush(i))
          /\ WF_vars(Writing(i) \/ Close(Writer(i)))
          /\ WF_vars(Reading(i) \/ Close(Reader(i)))

-----------------------------------------------------------------------------
\* Every variable has its type, and writeCh never holds more than it can.
TypeOK ==
    /\ ss \in [Streams -> Object] /\ entry \in Streams \cup {None}
    /\ DOMAIN pc = Proc /\ target \in [{Recv, Shut} -> Streams \cup {None}]
    /\ calls \in 0 .. Chunks /\ clientEnd \in BOOLEAN
    /\ reliable \in {"first", "none", "again", "shut"}
    /\ closeSent \in BOOLEAN /\ panicked \in BOOLEAN
    /\ \A i \in Streams : Len(ss[i].writeCh) <= WriteCap

\* Whatever fails, no backend connection gets a chunk twice or before an
\* earlier one: the pending data, writeCh and the drain keep the order.
NeverReordered ==
    \A i \in Streams : \A j \in 2 .. Len(ss[i].out) :
        ss[i].out[j - 1] < ss[i].out[j]

Prefix(s, t) == Len(s) <= Len(t) /\ s = SubSeq(t, 1, Len(s))

\* Until a Write to it fails, and short of a shutdown, a backend connection
\* gets the chunks meant for it without a gap, however the connection's set-up,
\* the client's close, the backend's close and the send timeout interleave, and
\* with data that comes after the client's close.
WithoutGap ==
    pc[Shut] = "idle" =>
        \A i \in Streams : ss[i].failed \/ Prefix(ss[i].out, ss[i].got)

\* Short of a shutdown, drainAndShutdownWrite sends the FIN only when the
\* backend has got every chunk that arrived before the client's close, unless a
\* Write failed.
FinComplete ==
    pc[Shut] = "idle" => \A i \in Streams :
        ss[i].backend = "finSent" /\ ss[i].state = "connected" =>
            ss[i].failed \/ Len(ss[i].out) >= ss[i].due

\* Short of a shutdown, when the goroutines of a stream have ended, the client
\* was sent a CLOSE or had closed the stream itself.  The exception is
\* connectAndRun returning from a failed write of pending data: it tells nobody.
TellsClient ==
    pc[Shut] = "idle" => \A i \in Streams :
        pc[Run(i)] = "done" => closeSent \/ clientEnd \/ ss[i].flush # <<>>

\* A goroutine of the stream waits for somebody else, without a timeout: for
\* the backend to take pending data or, as long as close() was not called, to
\* send some, or for the client's acknowledgement.
Waits(i) ==
    \/ pc[Run(i)] = "flush" /\ ss[i].backend = "open"
    \/ pc[Reader(i)] = "read" /\ ~ss[i].deadline /\ ss[i].state = "connected"
    \/ pc[Reader(i)] = "send"

\* A stream that the client closed, or that close() was called on, ends all its
\* goroutines, if it does not wait again and again for the backend or the client.
Reaped ==
    \A i \in Streams :
        <>[]~Waits(i) =>
            (ss[i].clientCloseRecv \/ ss[i].state = "closed"
                ~> panicked \/ pc[Run(i)] = "done")

\* "If client has closed, set read deadline to avoid hanging forever": a stream
\* that the client closed does not stay in its Read.
ReadEnds ==
    \A i \in Streams :
        ss[i].clientCloseRecv ~> panicked \/ pc[Reader(i)] # "read"

\* Short of a shutdown, a number whose data dials a backend again has closed
\* the connection it had: its old connection ends before its entry goes.
OneBackend ==
    pc[Shut] = "idle" => \A i, j \in Streams :
        i < j /\ ss[j].state # "unborn" => ss[i].backend \in {"nil", "closed"}

\* closeWrite and close skip a channel that is "Already closed".
NoDoubleClose == ~panicked
=============================================================================
