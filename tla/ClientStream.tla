---------------------------- MODULE ClientStream ----------------------------
(***************************************************************************)
(* The client's end of one TCP connection (pkg/shadowgre/client.go): its   *)
(* streamConn and the goroutines that share it.                            *)
(*                                                                         *)
(*   main    handleConnection, from acceptLoop's go statement on           *)
(*   writer  writeLoop                                                     *)
(*   watch   the goroutine that interrupts main's Read                     *)
(*   linger  the goroutine that removes the stream 5 s after its end       *)
(*   recv    the transport's receive loop, in the callbacks of the         *)
(*           reliable layer                                                *)
(*   shut    the goroutine in Client.Close                                 *)
(*                                                                         *)
(* One step is the code between two accesses to shared state.  A chunk is  *)
(* the number of the handleReliableData call that carried it.              *)
(***************************************************************************)
EXTENDS Integers, Sequences

CONSTANTS
    Chunks,    \* bound: calls of handleReliableData
    WriteCap,  \* capacity of writeCh (4096)
    Events     \* what may happen: the application's end of the connection
               \* sends data ("upload") or closes ("eof"), a "write" to it
               \* fails, it is "slow" to read (5 s send timeout), the server
               \* "lingers" (30 s wait), its CLOSE arrives again ("repeat"),
               \* the client is "shutdown"

ASSUME ClientAssumption ==
    /\ Chunks \in Nat /\ WriteCap \in Nat \ {0}
    /\ Events \subseteq {"upload", "eof", "write", "slow", "lingers", "repeat",
                        "shutdown"}

Proc == {"main", "writer", "watch", "linger", "recv", "shut"}

VARIABLES
    pc,            \* where each goroutine is
    entry,         \* does c.streams hold the streamConn?
    writeCh,       \* sc.writeCh
    closeCh,       \* was sc.closeCh closed?
    serverClosed,  \* sc.serverClosed
    closed,        \* sc.closed
    conn,          \* the TCP connection: "open" or "closed"
    deadline,      \* is its read deadline in the past?
    reliable,      \* the ReliableManager's stream for the number: not there
                   \* yet ("unused"), the "first", "removed", or made "again"
    calls,         \* calls of handleReliableData so far
    serverEnd,     \* handleReliableClose was called
    got,           \* history: chunks handed to the connection, also in vain
    due,           \* history: how many of them came before the server's CLOSE
    out,           \* history: chunks written to the TCP connection
    faults,        \* history: the errors and timeouts that happened
    closeSent,     \* the reliable stream was told to send a CLOSE
    panicked       \* a channel was closed twice

vars == <<pc, entry, writeCh, closeCh, serverClosed, closed, conn, deadline,
          reliable, calls, serverEnd, got, due, out, faults, closeSent, panicked>>

Init ==
    /\ pc = [p \in Proc |-> "idle"]
    /\ entry = FALSE /\ writeCh = <<>> /\ closeCh = FALSE
    /\ serverClosed = FALSE /\ closed = FALSE
    /\ conn = "open" /\ deadline = FALSE /\ reliable = "unused"
    /\ calls = 0 /\ serverEnd = FALSE /\ got = <<>> /\ due = 0 /\ out = <<>>
    /\ faults = {} /\ closeSent = FALSE /\ panicked = FALSE

\* GetOrCreateStream, which every Send and every packet that arrives calls.
Made == CASE reliable = "unused" -> "first"
          [] reliable = "removed" -> "again"
          [] OTHER -> reliable

Goto(p, l) == pc' = [pc EXCEPT ![p] = l]
At(p, l) == pc[p] = l /\ ~panicked

-----------------------------------------------------------------------------
(***************************************************************************)
(* signalClose: test closeCh, then close it.  Closing a channel that was   *)
(* closed in between panics.                                               *)
(***************************************************************************)
signalClose(p, test, close, next) ==
    /\ \/ /\ At(p, test)
          /\ Goto(p, IF closeCh THEN next ELSE close)
          /\ UNCHANGED <<closeCh, panicked>>
       \/ /\ At(p, close)
          /\ panicked' = closeCh /\ closeCh' = TRUE
          /\ Goto(p, next)
    /\ UNCHANGED <<entry, writeCh, serverClosed, closed, conn, deadline,
                   reliable, calls, serverEnd, got, due, out, faults, closeSent>>

\* streamConn.close by goroutine p: closed, signalClose, conn.Close.
MarkClosed(p) ==
    /\ At(p, "close")
    /\ closed' = TRUE /\ Goto(p, "signal")
    /\ UNCHANGED <<entry, writeCh, closeCh, serverClosed, conn, deadline,
                   reliable, calls, serverEnd, got, due, out, faults, closeSent, panicked>>

HangUp(p, next) ==
    /\ At(p, "hangUp")
    /\ conn' = "closed" /\ Goto(p, next)
    /\ UNCHANGED <<entry, writeCh, closeCh, serverClosed, closed, deadline,
                   reliable, calls, serverEnd, got, due, out, faults, closeSent, panicked>>

-----------------------------------------------------------------------------
(***************************************************************************)
(* handleConnection.                                                       *)
(***************************************************************************)
\* acceptLoop: Client.Close closes the listener first.
Accept ==
    /\ At("main", "idle") /\ pc["shut"] = "idle"
    /\ Goto("main", "accepted")
    /\ UNCHANGED <<entry, writeCh, closeCh, serverClosed, closed, conn, deadline,
                   reliable, calls, serverEnd, got, due, out, faults, closeSent, panicked>>

Register ==
    /\ At("main", "accepted")
    /\ entry' = TRUE
    /\ pc' = [pc EXCEPT !["main"] = "read", !["writer"] = "select",
                        !["watch"] = "select"]
    /\ UNCHANGED <<writeCh, closeCh, serverClosed, closed, conn, deadline,
                   reliable, calls, serverEnd, got, due, out, faults, closeSent, panicked>>

\* Data for reliable.Send, which makes a reliable stream if there is none.
ReadData ==
    /\ At("main", "read") /\ "upload" \in Events
    /\ conn = "open" /\ ~deadline
    /\ reliable' = Made
    /\ Goto("main", "send")
    /\ UNCHANGED <<entry, writeCh, closeCh, serverClosed, closed, conn, deadline,
                   calls, serverEnd, got, due, out, faults, closeSent, panicked>>

\* Send returns: the packet went out, or its reliable stream was closed by
\* RemoveStream or Client.Close.
SendReturns ==
    /\ At("main", "send")
    /\ \/ Goto("main", "read")
       \/ /\ reliable # "first" \/ pc["shut"] # "idle"
          /\ Goto("main", "ended")
    /\ UNCHANGED <<entry, writeCh, closeCh, serverClosed, closed, conn, deadline,
                   reliable, calls, serverEnd, got, due, out, faults, closeSent, panicked>>

\* Read returns an error: the deadline, or a connection closed under it.
ReadFails ==
    /\ At("main", "read") /\ (deadline \/ conn = "closed")
    /\ Goto("main", "ended")
    /\ UNCHANGED <<entry, writeCh, closeCh, serverClosed, closed, conn, deadline,
                   reliable, calls, serverEnd, got, due, out, faults, closeSent, panicked>>

\* The application closes its side.
ReadEof ==
    /\ At("main", "read") /\ "eof" \in Events
    /\ Goto("main", "ended")
    /\ UNCHANGED <<entry, writeCh, closeCh, serverClosed, closed, conn, deadline,
                   reliable, calls, serverEnd, got, due, out, faults, closeSent, panicked>>

\* Mutant: tests closed, which a timeout sets as well.
BugCheckServerClosed ==
    /\ At("main", "ended")
    /\ Goto("main", IF closed THEN "wait" ELSE "sendClose")
    /\ UNCHANGED <<entry, writeCh, closeCh, serverClosed, closed, conn, deadline,
                   reliable, calls, serverEnd, got, due, out, faults, closeSent, panicked>>

CheckServerClosed ==
    /\ At("main", "ended")
    /\ Goto("main", IF serverClosed THEN "wait" ELSE "sendClose")
    /\ UNCHANGED <<entry, writeCh, closeCh, serverClosed, closed, conn, deadline,
                   reliable, calls, serverEnd, got, due, out, faults, closeSent, panicked>>

\* reliable.SendClose does nothing when the number has no reliable stream, or
\* one that Client.Close has closed.
SendClose ==
    /\ At("main", "sendClose")
    /\ closeSent' = (pc["shut"] = "idle" /\ reliable \in {"first", "again"})
    /\ Goto("main", "wait")
    /\ UNCHANGED <<entry, writeCh, closeCh, serverClosed, closed, conn, deadline,
                   reliable, calls, serverEnd, got, due, out, faults, panicked>>

\* The writer is done, or 30 seconds have passed and main ends it.
WriterDone ==
    /\ pc["main"] \in {"wait", "join"} /\ ~panicked /\ pc["writer"] = "done"
    /\ Goto("main", "hangUp")
    /\ UNCHANGED <<entry, writeCh, closeCh, serverClosed, closed, conn, deadline,
                   reliable, calls, serverEnd, got, due, out, faults, closeSent, panicked>>

WaitTimeout ==
    /\ At("main", "wait") /\ "lingers" \in Events
    /\ Goto("main", "signal")
    /\ faults' = faults \cup {"lingers"}
    /\ UNCHANGED <<entry, writeCh, closeCh, serverClosed, closed, conn, deadline,
                   reliable, calls, serverEnd, got, due, out, closeSent, panicked>>

\* The end of handleConnection starts the lingering goroutine.
Finish ==
    /\ At("main", "finish")
    /\ pc' = [pc EXCEPT !["main"] = "done", !["linger"] = "sleep"]
    /\ UNCHANGED <<entry, writeCh, closeCh, serverClosed, closed, conn, deadline,
                   reliable, calls, serverEnd, got, due, out, faults, closeSent, panicked>>

Forget ==
    /\ At("linger", "sleep")
    /\ entry' = FALSE /\ Goto("linger", "remove")
    /\ UNCHANGED <<writeCh, closeCh, serverClosed, closed, conn, deadline,
                   reliable, calls, serverEnd, got, due, out, faults, closeSent, panicked>>

RemoveReliable ==
    /\ At("linger", "remove")
    /\ reliable' = IF reliable = "unused" THEN reliable ELSE "removed"
    /\ Goto("linger", "done")
    /\ UNCHANGED <<entry, writeCh, closeCh, serverClosed, closed, conn, deadline,
                   calls, serverEnd, got, due, out, faults, closeSent, panicked>>

\* Mutant: the server's close does not interrupt the Read.
BugInterrupt ==
    /\ At("watch", "select") /\ (pc["main"] = "done" \/ closeCh)
    /\ Goto("watch", "done")
    /\ UNCHANGED <<entry, writeCh, closeCh, serverClosed, closed, conn, deadline,
                   reliable, calls, serverEnd, got, due, out, faults, closeSent, panicked>>

\* The watching goroutine: closeCh interrupts the Read, unless main returned.
Interrupt ==
    /\ At("watch", "select")
    /\ \/ pc["main"] = "done" /\ UNCHANGED deadline
       \/ closeCh /\ deadline' = TRUE
    /\ Goto("watch", "done")
    /\ UNCHANGED <<entry, writeCh, closeCh, serverClosed, closed, conn,
                   reliable, calls, serverEnd, got, due, out, faults, closeSent, panicked>>

-----------------------------------------------------------------------------
(***************************************************************************)
(* writeLoop and drainWriteCh.                                             *)
(***************************************************************************)
\* A Write to the TCP connection: it can succeed, and it can fail.
CanWrite == conn = "open"
CanFail == conn = "closed" \/ "write" \in Events

\* The faults after a failed Write; on a connection the program has closed it
\* is no fault of the connection.
WithFailure == faults \cup (IF conn = "open" THEN {"write"} ELSE {})

\* A failed Write ends the loop, and the rest of the channel is drained.
WriteChunk ==
    /\ At("writer", "select") /\ writeCh # <<>>
    /\ writeCh' = Tail(writeCh)
    /\ \/ /\ CanWrite /\ out' = Append(out, Head(writeCh))
          /\ UNCHANGED <<pc, closed, faults>>
       \/ /\ CanFail /\ closed' = TRUE /\ Goto("writer", "drain")
          /\ faults' = WithFailure /\ UNCHANGED out
    /\ UNCHANGED <<entry, closeCh, serverClosed, conn, deadline,
                   reliable, calls, serverEnd, got, due, closeSent, panicked>>

WriterTold ==
    /\ At("writer", "select") /\ closeCh
    /\ Goto("writer", "sleep")
    /\ UNCHANGED <<entry, writeCh, closeCh, serverClosed, closed, conn, deadline,
                   reliable, calls, serverEnd, got, due, out, faults, closeSent, panicked>>

\* After 100 ms for packets under way.
StopAccepting ==
    /\ At("writer", "sleep")
    /\ closed' = TRUE /\ Goto("writer", "drain")
    /\ UNCHANGED <<entry, writeCh, closeCh, serverClosed, conn, deadline,
                   reliable, calls, serverEnd, got, due, out, faults, closeSent, panicked>>

\* Mutant: what is left in the channel is thrown away.
BugDrain ==
    /\ At("writer", "drain")
    /\ Goto("writer", "done")
    /\ UNCHANGED <<entry, writeCh, closeCh, serverClosed, closed, conn, deadline,
                   reliable, calls, serverEnd, got, due, out, faults, closeSent, panicked>>

\* drainWriteCh ends at the first error or when the channel is empty.
Drain ==
    /\ At("writer", "drain")
    /\ \/ /\ writeCh # <<>> /\ writeCh' = Tail(writeCh)
          /\ \/ /\ CanWrite /\ out' = Append(out, Head(writeCh))
                /\ UNCHANGED <<pc, faults>>
             \/ /\ CanFail /\ Goto("writer", "done")
                /\ faults' = WithFailure /\ UNCHANGED out
       \/ /\ writeCh = <<>> /\ Goto("writer", "done")
          /\ UNCHANGED <<writeCh, out, faults>>
    /\ UNCHANGED <<entry, closeCh, serverClosed, closed, conn, deadline,
                   reliable, calls, serverEnd, got, due, closeSent, panicked>>

-----------------------------------------------------------------------------
(***************************************************************************)
(* handleReliableData and handleReliableClose, called by the receive loop. *)
(* A late packet makes the reliable stream again when it was removed, and  *)
(* is handed over like any other.                                          *)
(***************************************************************************)
LookUp ==
    /\ At("recv", "idle") /\ calls < Chunks /\ reliable # "unused"
    /\ reliable' = Made /\ calls' = calls + 1
    /\ got' = IF entry THEN Append(got, calls + 1) ELSE got
    /\ Goto("recv", IF entry THEN "check" ELSE "idle")
    /\ UNCHANGED <<entry, writeCh, closeCh, serverClosed, closed, conn, deadline,
                   serverEnd, due, out, faults, closeSent, panicked>>

CheckClosed ==
    /\ At("recv", "check")
    /\ Goto("recv", IF closed THEN "idle" ELSE "send")
    /\ UNCHANGED <<entry, writeCh, closeCh, serverClosed, closed, conn, deadline,
                   reliable, calls, serverEnd, got, due, out, faults, closeSent, panicked>>

\* Mutant: a queue without a limit.
BugEnqueue ==
    /\ At("recv", "send")
    /\ writeCh' = Append(writeCh, calls) /\ Goto("recv", "idle")
    /\ UNCHANGED <<entry, closeCh, serverClosed, closed, conn, deadline,
                   reliable, calls, serverEnd, got, due, out, faults, closeSent, panicked>>

Enqueue ==
    /\ At("recv", "send") /\ Len(writeCh) < WriteCap
    /\ writeCh' = Append(writeCh, calls) /\ Goto("recv", "idle")
    /\ UNCHANGED <<entry, closeCh, serverClosed, closed, conn, deadline,
                   reliable, calls, serverEnd, got, due, out, faults, closeSent, panicked>>

\* Mutant: the chunk is dropped and the stream goes on.
BugEnqueueTimeout ==
    /\ At("recv", "send") /\ Len(writeCh) = WriteCap /\ "slow" \in Events
    /\ Goto("recv", "idle")
    /\ faults' = faults \cup {"slow"}
    /\ UNCHANGED <<entry, writeCh, closeCh, serverClosed, closed, conn, deadline,
                   reliable, calls, serverEnd, got, due, out, closeSent, panicked>>

\* Five seconds with a full channel: the chunk is dropped, the stream closed.
EnqueueTimeout ==
    /\ At("recv", "send") /\ Len(writeCh) = WriteCap
    /\ "slow" \in Events \/ pc["writer"] = "done"
    /\ Goto("recv", "close")
    /\ faults' = faults \cup {"slow"}
    /\ UNCHANGED <<entry, writeCh, closeCh, serverClosed, closed, conn, deadline,
                   reliable, calls, serverEnd, got, due, out, closeSent, panicked>>

\* The server's CLOSE.  ReliableManager.Receive removes the reliable stream
\* once the callback has returned.
ServerClose ==
    /\ At("recv", "idle") /\ reliable # "unused"
    /\ serverEnd => "repeat" \in Events
    /\ reliable' = Made /\ serverEnd' = TRUE
    /\ due' = IF serverEnd THEN due ELSE Len(got)
    /\ serverClosed' = (serverClosed \/ entry)
    /\ Goto("recv", IF entry THEN "endSignal" ELSE "handled")
    /\ UNCHANGED <<entry, writeCh, closeCh, closed, conn, deadline,
                   calls, got, out, faults, closeSent, panicked>>

ServerCloseDone ==
    /\ At("recv", "handled")
    /\ reliable' = "removed" /\ Goto("recv", "idle")
    /\ UNCHANGED <<entry, writeCh, closeCh, serverClosed, closed, conn, deadline,
                   calls, serverEnd, got, due, out, faults, closeSent, panicked>>

-----------------------------------------------------------------------------
(***************************************************************************)
(* Client.Close.  The reliable streams are closed with its first step; it  *)
(* returns when handleConnection has.                                      *)
(***************************************************************************)
Shutdown ==
    /\ At("shut", "idle") /\ "shutdown" \in Events
    /\ Goto("shut", "range")
    /\ faults' = faults \cup {"shutdown"}
    /\ UNCHANGED <<entry, writeCh, closeCh, serverClosed, closed, conn, deadline,
                   reliable, calls, serverEnd, got, due, out, closeSent, panicked>>

CloseAll ==
    /\ At("shut", "range")
    /\ Goto("shut", IF entry THEN "close" ELSE "wait")
    /\ UNCHANGED <<entry, writeCh, closeCh, serverClosed, closed, conn, deadline,
                   reliable, calls, serverEnd, got, due, out, faults, closeSent, panicked>>

ShutdownDone ==
    /\ At("shut", "wait") /\ pc["main"] \in {"idle", "done"}
    /\ Goto("shut", "done")
    /\ UNCHANGED <<entry, writeCh, closeCh, serverClosed, closed, conn, deadline,
                   reliable, calls, serverEnd, got, due, out, faults, closeSent, panicked>>

-----------------------------------------------------------------------------
Connection ==
    \/ Register \/ ReadFails \/ CheckServerClosed \/ SendClose
    \/ WriterDone \/ WaitTimeout \/ signalClose("main", "signal", "closeCh", "join")
    \/ HangUp("main", "finish") \/ Finish

Lingering == Forget \/ RemoveReliable

Writing == WriteChunk \/ WriterTold \/ StopAccepting \/ Drain

\* The receive loop inside a callback.
Handling ==
    \/ CheckClosed \/ Enqueue \/ EnqueueTimeout \/ MarkClosed("recv")
    \/ signalClose("recv", "signal", "closeCh", "hangUp") \/ HangUp("recv", "idle")
    \/ signalClose("recv", "endSignal", "endCloseCh", "handled") \/ ServerCloseDone

Closing ==
    \/ CloseAll \/ MarkClosed("shut")
    \/ signalClose("shut", "signal", "closeCh", "hangUp")
    \/ HangUp("shut", "wait") \/ ShutdownDone

Next ==
    \/ Accept \/ Connection \/ ReadData \/ SendReturns \/ ReadEof
    \/ Lingering \/ Interrupt \/ Writing
    \/ LookUp \/ ServerClose \/ Handling \/ Shutdown \/ Closing

Spec == Init /\ [][Next]_vars

\* The goroutines run and timeouts expire; application and server need do
\* nothing.  A Send on the first reliable stream may wait for its window as
\* long as nobody closes that stream.  One made again has its whole window free,
\* which outlasts the few chunks read before the watching goroutine sets the
\* deadline.
FairSpec ==
    /\ Spec
    /\ WF_vars(Connection) /\ WF_vars(Lingering) /\ WF_vars(Interrupt)
    /\ WF_vars(Writing) /\ WF_vars(Handling) /\ WF_vars(Closing)
    /\ WF_vars((reliable # "first" \/ pc["shut"] # "idle") /\ SendReturns)

-----------------------------------------------------------------------------
\* Every variable has its type, and writeCh never holds more than it can.
TypeOK ==
    /\ DOMAIN pc = Proc
    /\ {entry, closeCh, serverClosed, closed, deadline, serverEnd,
        closeSent, panicked} \subseteq BOOLEAN
    /\ writeCh \in Seq(1 .. Chunks) /\ Len(writeCh) <= WriteCap
    /\ got \in Seq(1 .. Chunks) /\ out \in Seq(1 .. Chunks)
    /\ conn \in {"open", "closed"} /\ calls \in 0 .. Chunks /\ due \in Nat
    /\ reliable \in {"unused", "first", "removed", "again"}
    /\ faults \subseteq Events \cup {"slow"}

\* Until a Write to it fails, the application gets the chunks meant for it
\* without a gap: once handleReliableData has dropped one, whether for a closed
\* stream or a full queue, none of the later ones is written.
WithoutGap ==
    "write" \in faults \/ (Len(out) <= Len(got) /\ out = SubSeq(got, 1, Len(out)))

\* Short of errors and timeouts, handleConnection closes the TCP connection
\* only after the server's CLOSE, when every chunk that came before it was
\* written.
AllWritten ==
    pc["main"] \in {"finish", "done"} /\ faults = {} => serverEnd /\ Len(out) >= due

\* Short of a shutdown, no connection ends without the server being told, if
\* the server knows of it and did not close first.
TellsServer ==
    pc["main"] = "done" /\ "shutdown" \notin faults =>
        closeSent \/ serverEnd \/ reliable = "unused"

\* When the application or the server has closed, the goroutines of the
\* connection end and its streamConn leaves the map.
Reaped ==
    pc["main"] = "ended" \/ serverClosed ~> panicked \/ pc["linger"] = "done"
=============================================================================
