------------------------------ MODULE FrameMux ------------------------------
(***************************************************************************)
(* The frame-based multiplexer (pkg/tunnel/manager.go and frame.go): a     *)
(* Manager at each end with its Connections, opened by SYN and SYN-ACK and *)
(* closed by FIN and FIN-ACK.                                              *)
(*                                                                         *)
(*   Dialer(c)           Dial of connection c                              *)
(*   Reader(e, c), Writer(e, c), Closer(e, c)                              *)
(*                       the application's Read, Write and Close           *)
(*   Recv(e)             the goroutine in HandleFrame                      *)
(*   Main(e)             Manager.Close                                     *)
(*                                                                         *)
(* The client dials and the server accepts.  The network, the GRE tunnel,  *)
(* loses, repeats and reorders frames; only a SYN is not repeated, so that *)
(* a number has one Connection at each end.                                *)
(***************************************************************************)
EXTENDS Integers, Sequences

CONSTANTS
    MaxDials,   \* bound: connections
    MaxFrames,  \* bound: data frames each end sends on a connection
    ReadCap,    \* ReadChannelSize (16384)
    AcceptCap,  \* capacity of acceptCh (64)
    ReadSize,   \* bytes the reader's buffer holds; a data frame has two
    Readers,    \* ends whose application reads
    Writers,    \* ends whose application writes
    Stops,      \* ends whose Manager is closed
    MaxFaults   \* bound: frames repeated, or refused by sendFunc

ASSUME MuxAssumption ==
    /\ {MaxDials, ReadCap, AcceptCap, ReadSize} \subseteq Nat \ {0}
    /\ {MaxFrames, MaxFaults} \subseteq Nat
    /\ Readers \cup Writers \cup Stops \subseteq {"client", "server"}

End == {"client", "server"}
Peer(e) == IF e = "client" THEN "server" ELSE "client"
Conns == 1 .. MaxDials
None == 0

Dialer(c) == <<"dial", "client", c>>
Reader(e, c) == <<"reader", e, c>>
Writer(e, c) == <<"writer", e, c>>
Closer(e, c) == <<"closer", e, c>>
Recv(e) == <<"recv", e, None>>
Main(e) == <<"main", e, None>>
Proc == ({"reader", "writer", "closer"} \X End \X Conns)
        \cup ({"dial"} \X {"client"} \X Conns) \cup ({"recv", "main"} \X End \X {None})

-----------------------------------------------------------------------------
(***************************************************************************)
(* Frames on the wire: one number for each header field, then the payload. *)
(***************************************************************************)
FrameData   == 0
FrameSyn    == 1
FrameSynAck == 2
FrameFin    == 3
FrameFinAck == 4
MinFrameSize == 4
LengthSpace == 65536

NewFrame(type, c) == [type |-> type, connID |-> c, sequence |-> 0, payload |-> <<>>]
NewDataFrame(c, seq, payload) ==
    [type |-> FrameData, connID |-> c, sequence |-> seq, payload |-> payload]

Marshal(f) ==
    <<f.type, f.connID, f.sequence, Len(f.payload) % LengthSpace>> \o f.payload

\* UnmarshalFrame: no ErrFrameTooShort; the payload ends where the length says.
IsFrame(w) == Len(w) >= MinFrameSize /\ Len(w) >= MinFrameSize + w[4]
UnmarshalFrame(w) ==
    [type |-> w[1], connID |-> w[2], sequence |-> w[3],
     payload |-> SubSeq(w, MinFrameSize + 1, MinFrameSize + w[4])]

-----------------------------------------------------------------------------
Connection == [born : BOOLEAN, established : BOOLEAN, closed : BOOLEAN,
               closeCh : BOOLEAN, seq : Nat,
               readCh : Seq(Seq(Nat)), readBuf : Seq(Nat),
               fed : Seq(Nat),    \* history: what deliver has queued
               got : Seq(Nat)]    \* history: what Read has returned

VARIABLES
    conn,         \* the Connections; established, closeCh: closed yet?
    connections,  \* the numbers in the Manager's map
    acceptCh,     \* numbers queued for Accept
    acceptClosed, \* has acceptCh been closed?
    pc,           \* where each goroutine is
    target,       \* the connection "recv" and "main" work on
    visited,      \* the connections Manager.Close has been at
    due,          \* those that were in the map when it began
    net,          \* the set of frames on their way to each end
    faults,
    panicked      \* the channel that was closed again, or sent to when closed

vars == <<conn, connections, acceptCh, acceptClosed, pc, target, visited, due,
          net, faults, panicked>>

Unborn == [born |-> FALSE, established |-> FALSE, closed |-> FALSE,
           closeCh |-> FALSE, seq |-> 0, readCh |-> <<>>, readBuf |-> <<>>,
           fed |-> <<>>, got |-> <<>>]

Init ==
    /\ conn = [e \in End |-> [c \in Conns |-> Unborn]]
    /\ connections = [e \in End |-> {}] /\ acceptCh = [e \in End |-> <<>>]
    /\ acceptClosed = [e \in End |-> FALSE]
    /\ pc = [p \in Proc |-> IF p[1] \in {"recv", "main", "dial"} THEN "idle" ELSE "off"]
    /\ target = [e \in End |-> [r \in {"recv", "main"} |-> None]]
    /\ visited = [e \in End |-> {}] /\ due = [e \in End |-> {}]
    /\ net = [e \in End |-> {}] /\ faults = 0 /\ panicked = {}

At(p, l) == pc[p] = l /\ panicked = {}
Goto(p, l) == pc' = [pc EXCEPT ![p] = l]

\* sendFrame of end e, with "ok" for a nil error.
SendFrame(e, f, ok) ==
    \/ /\ ok /\ net' = [net EXCEPT ![Peer(e)] = @ \cup {Marshal(f)}]
       /\ UNCHANGED faults
    \/ ~ok /\ faults < MaxFaults /\ faults' = faults + 1 /\ UNCHANGED net

-----------------------------------------------------------------------------
(***************************************************************************)
(* Dial.                                                                   *)
(***************************************************************************)
\* connIDSeq, NewConnection, Store and the SYN.
Dial(c) ==
    LET p == Dialer(c)
    IN  /\ At(p, "idle") /\ \A d \in 1 .. (c - 1) : conn["client"][d].born
        /\ conn' = [conn EXCEPT !["client"][c].born = TRUE]
        /\ \E ok \in BOOLEAN :
              /\ SendFrame("client", NewFrame(FrameSyn, c), ok)
              /\ connections' = [connections EXCEPT !["client"] =
                                    IF ok THEN @ \cup {c} ELSE @ \ {c}]
              /\ Goto(p, IF ok THEN "wait" ELSE "failed")
        /\ UNCHANGED <<acceptCh, acceptClosed, target, visited, due, panicked>>

\* The application starts to use a connection.
Use(e, c, label) ==
    [p \in Proc |->
        IF p = <<"dial", e, c>> THEN label
        ELSE IF p \in {Reader(e, c), Writer(e, c), Closer(e, c)} THEN "idle"
        ELSE pc[p]]

\* Mutant: the handshake is not waited for.
BugDialReturns(c) ==
    /\ At(Dialer(c), "wait")
    /\ pc' = Use("client", c, "up")
    /\ UNCHANGED <<conn, connections, acceptCh, acceptClosed, target, visited,
                   due, net, faults, panicked>>

\* waitEstablished returns nil.
DialReturns(c) ==
    /\ At(Dialer(c), "wait") /\ conn["client"][c].established
    /\ pc' = Use("client", c, "up")
    /\ UNCHANGED <<conn, connections, acceptCh, acceptClosed, target, visited,
                   due, net, faults, panicked>>

\* The timeout, or the connection was closed meanwhile.
DialFails(c) ==
    /\ At(Dialer(c), "wait")
    /\ connections' = [connections EXCEPT !["client"] = @ \ {c}]
    /\ Goto(Dialer(c), "failed")
    /\ UNCHANGED <<conn, acceptCh, acceptClosed, target, visited, due, net,
                   faults, panicked>>

Accept(e) ==
    /\ panicked = {} /\ acceptCh[e] # <<>>
    /\ acceptCh' = [acceptCh EXCEPT ![e] = Tail(@)]
    /\ pc' = Use(e, Head(acceptCh[e]), "up")
    /\ UNCHANGED <<conn, connections, acceptClosed, target, visited, due, net,
                   faults, panicked>>

-----------------------------------------------------------------------------
(***************************************************************************)
(* Read.                                                                   *)
(***************************************************************************)
Take(s, n) == SubSeq(s, 1, n)
Rest(s, n) == SubSeq(s, n + 1, Len(s))
AtMost(n, m) == IF n < m THEN n ELSE m

\* Hand out at most ReadSize of b, and keep the rest in readBuf.
HandOut(x, b) ==
    LET n == AtMost(Len(b), ReadSize)
    IN  [x EXCEPT !.got = @ \o Take(b, n), !.readBuf = Rest(b, n)]

\* What is left in readBuf first; otherwise a closed connection is at its end.
StartRead(e, c) ==
    LET p == Reader(e, c)
        x == conn[e][c]
    IN  /\ At(p, "idle") /\ e \in Readers
        /\ \/ /\ x.readBuf # <<>>
              /\ conn' = [conn EXCEPT ![e][c] = HandOut(x, x.readBuf)]
              /\ UNCHANGED pc
           \/ /\ x.readBuf = <<>>
              /\ Goto(p, IF x.closed THEN "eof" ELSE "wait")
              /\ UNCHANGED conn
        /\ UNCHANGED <<connections, acceptCh, acceptClosed, target, visited, due,
                       net, faults, panicked>>

\* Mutant: the drained frame goes in front of what was read before.
BugReceiveOne(e, c) ==
    LET x == conn[e][c]
    IN  /\ At(Reader(e, c), "drain") \/ At(Reader(e, c), "wait")
        /\ x.readCh # <<>>
        /\ conn' = [conn EXCEPT ![e][c].readCh = Tail(@),
                                ![e][c].readBuf = Head(x.readCh) \o @]
        /\ Goto(Reader(e, c), "drain")
        /\ UNCHANGED <<connections, acceptCh, acceptClosed, target, visited, due,
                       net, faults, panicked>>

\* The first frame, and those that follow until one fills the buffer; the
\* first is followed by another whatever its length.
ReceiveOne(e, c) ==
    LET p == Reader(e, c)
        x == conn[e][c]
        b == x.readBuf \o Head(x.readCh)
    IN  /\ At(p, "wait") \/ At(p, "drain")
        /\ x.readCh # <<>>
        /\ conn' = [conn EXCEPT ![e][c].readCh = Tail(@), ![e][c].readBuf = b]
        /\ Goto(p, IF pc[p] = "drain" /\ Len(b) >= ReadSize THEN "full" ELSE "drain")
        /\ UNCHANGED <<connections, acceptCh, acceptClosed, target, visited, due,
                       net, faults, panicked>>

FinishRead(e, c) ==
    LET x == conn[e][c]
    IN  /\ At(Reader(e, c), "full") \/ (At(Reader(e, c), "drain") /\ x.readCh = <<>>)
        /\ conn' = [conn EXCEPT ![e][c] = HandOut(x, x.readBuf)]
        /\ Goto(Reader(e, c), "idle")
        /\ UNCHANGED <<connections, acceptCh, acceptClosed, target, visited, due,
                       net, faults, panicked>>

\* The select may also find closeCh closed.
ReadEof(e, c) ==
    /\ At(Reader(e, c), "wait") /\ conn[e][c].closeCh
    /\ Goto(Reader(e, c), "eof")
    /\ UNCHANGED <<conn, connections, acceptCh, acceptClosed, target, visited,
                   due, net, faults, panicked>>

-----------------------------------------------------------------------------
(***************************************************************************)
(* Write: a large one is several frames.                                   *)
(***************************************************************************)
StartWrite(e, c) ==
    /\ At(Writer(e, c), "idle") /\ e \in Writers
    /\ conn[e][c].seq < MaxFrames /\ ~conn[e][c].closed
    /\ Goto(Writer(e, c), "write")
    /\ UNCHANGED <<conn, connections, acceptCh, acceptClosed, target, visited,
                   due, net, faults, panicked>>

\* One frame.  After an error, or the last one, Write returns.
WriteFrame(e, c) ==
    LET n == conn[e][c].seq + 1
    IN  /\ At(Writer(e, c), "write")
        /\ conn' = [conn EXCEPT ![e][c].seq = n]
        /\ \E ok \in BOOLEAN :
              /\ SendFrame(e, NewDataFrame(c, n, <<2 * n - 1, 2 * n>>), ok)
              /\ \/ Goto(Writer(e, c), "idle")
                 \/ ok /\ n < MaxFrames /\ UNCHANGED pc
        /\ UNCHANGED <<connections, acceptCh, acceptClosed, target, visited, due,
                       panicked>>

-----------------------------------------------------------------------------
(***************************************************************************)
(* Connection.Close, by the application or by Manager.Close; "next" is     *)
(* where the caller goes on.                                               *)
(***************************************************************************)
Swap(p, e, c, label, next) ==
    /\ conn' = [conn EXCEPT ![e][c].closed = TRUE]
    /\ Goto(p, IF conn[e][c].closed THEN next ELSE label)

\* The test of closeCh, and its close; whoever finds it closed goes on.
TestCh(p, e, c, label, close, next) ==
    /\ At(p, label)
    /\ Goto(p, IF conn[e][c].closeCh THEN next ELSE close)
    /\ UNCHANGED <<conn, connections, acceptCh, acceptClosed, target, visited,
                   due, net, faults, panicked>>

CloseCh(p, e, c, label, next) ==
    /\ At(p, label)
    /\ panicked' = IF conn[e][c].closeCh THEN {"closeCh"} ELSE {}
    /\ conn' = [conn EXCEPT ![e][c].closeCh = TRUE]
    /\ Goto(p, next)
    /\ UNCHANGED <<connections, acceptCh, acceptClosed, target, visited, due,
                   net, faults>>

SendFin(p, e, c) ==
    /\ At(p, "sendFin")
    /\ \E ok \in BOOLEAN : SendFrame(e, NewFrame(FrameFin, c), ok)
    /\ Goto(p, "remove")
    /\ UNCHANGED <<conn, connections, acceptCh, acceptClosed, target, visited,
                   due, panicked>>

RemoveConnection(p, e, c, next) ==
    /\ At(p, "remove")
    /\ connections' = [connections EXCEPT ![e] = @ \ {c}]
    /\ Goto(p, next)
    /\ UNCHANGED <<conn, acceptCh, acceptClosed, target, visited, due, net,
                   faults, panicked>>

Close(p, e, c, next) ==
    \/ TestCh(p, e, c, "testCh", "closeCh", "sendFin")
    \/ CloseCh(p, e, c, "closeCh", "sendFin")
    \/ SendFin(p, e, c) \/ RemoveConnection(p, e, c, next)

\* The application closes, once.
AppClose(e, c) ==
    /\ At(Closer(e, c), "idle")
    /\ Swap(Closer(e, c), e, c, "testCh", "done")
    /\ UNCHANGED <<connections, acceptCh, acceptClosed, target, visited, due,
                   net, faults, panicked>>

(***************************************************************************)
(* Manager.Close.  Range comes to every connection that was in the map     *)
(* from the start, and perhaps to later ones.                              *)
(***************************************************************************)
StartShutdown(e) ==
    /\ At(Main(e), "idle") /\ e \in Stops
    /\ due' = [due EXCEPT ![e] = connections[e]]
    /\ Goto(Main(e), "range")
    /\ UNCHANGED <<conn, connections, acceptCh, acceptClosed, target, visited,
                   net, faults, panicked>>

RangeNext(e) ==
    /\ At(Main(e), "range")
    /\ \E c \in connections[e] \ visited[e] :
          /\ visited' = [visited EXCEPT ![e] = @ \cup {c}]
          /\ target' = [target EXCEPT ![e]["main"] = c]
          /\ Swap(Main(e), e, c, "testCh", "range")
    /\ UNCHANGED <<connections, acceptCh, acceptClosed, due, net, faults, panicked>>

CloseAcceptCh(e) ==
    /\ At(Main(e), "range") /\ due[e] \cap connections[e] \subseteq visited[e]
    /\ acceptClosed' = [acceptClosed EXCEPT ![e] = TRUE]
    /\ Goto(Main(e), "done")
    /\ UNCHANGED <<conn, connections, acceptCh, target, visited, due, net,
                   faults, panicked>>

-----------------------------------------------------------------------------
(***************************************************************************)
(* HandleFrame, for a frame w of the network, which may bring it again.    *)
(* Nothing here looks at a frame's sequence.                               *)
(***************************************************************************)
Arrives(e, w, type, c) ==
    /\ At(Recv(e), "idle") /\ w \in net[e] /\ IsFrame(w)
    /\ UnmarshalFrame(w).type = type /\ UnmarshalFrame(w).connID = c
    /\ \/ net' = [net EXCEPT ![e] = @ \ {w}] /\ UNCHANGED faults
       \/ type # FrameSyn /\ faults < MaxFaults /\ faults' = faults + 1 /\ UNCHANGED net

\* SYN: a new Connection, stored; then the SYN-ACK and acceptCh.
HandleSyn(e, c, w) ==
    /\ Arrives(e, w, FrameSyn, c)
    /\ conn' = [conn EXCEPT ![e][c] = [Unborn EXCEPT !.born = TRUE,
                                                     !.established = TRUE]]
    /\ connections' = [connections EXCEPT ![e] = @ \cup {c}]
    /\ target' = [target EXCEPT ![e]["recv"] = c]
    /\ Goto(Recv(e), "synAck")
    /\ UNCHANGED <<acceptCh, acceptClosed, visited, due, panicked>>

SendSynAck(e) ==
    /\ At(Recv(e), "synAck")
    /\ \E ok \in BOOLEAN :
          /\ SendFrame(e, NewFrame(FrameSynAck, target[e]["recv"]), ok)
          /\ Goto(Recv(e), IF ok THEN "queue" ELSE "idle")
    /\ UNCHANGED <<conn, connections, acceptCh, acceptClosed, target, visited,
                   due, panicked>>

\* A full acceptCh is passed over; sending to a closed one panics.
Queue(e) ==
    /\ At(Recv(e), "queue")
    /\ panicked' = IF acceptClosed[e] THEN {"acceptCh"} ELSE {}
    /\ acceptCh' = [acceptCh EXCEPT ![e] =
          IF acceptClosed[e] \/ Len(@) = AcceptCap THEN @
          ELSE Append(@, target[e]["recv"])]
    /\ Goto(Recv(e), "idle")
    /\ UNCHANGED <<conn, connections, acceptClosed, target, visited, due, net, faults>>

HandleSynAck(e, c, w) ==
    /\ Arrives(e, w, FrameSynAck, c)
    /\ conn' = [conn EXCEPT ![e][c].established = @ \/ c \in connections[e]]
    /\ UNCHANGED <<connections, acceptCh, acceptClosed, pc, target, visited, due, panicked>>

\* Mutant: deliver waits for no room.
BugHandleData(e, c, w) ==
    /\ Arrives(e, w, FrameData, c)
    /\ conn' = [conn EXCEPT
          ![e][c].readCh = Append(@, UnmarshalFrame(w).payload),
          ![e][c].fed = @ \o UnmarshalFrame(w).payload]
    /\ UNCHANGED <<connections, acceptCh, acceptClosed, pc, target, visited, due, panicked>>

\* deliver: dropped if the connection is gone or closed, or readCh is full.
HandleData(e, c, w) ==
    LET x == conn[e][c]
        data == UnmarshalFrame(w).payload
    IN  /\ Arrives(e, w, FrameData, c)
        /\ \/ /\ c \in connections[e] /\ ~x.closed /\ Len(x.readCh) < ReadCap
              /\ conn' = [conn EXCEPT ![e][c].readCh = Append(@, data),
                                      ![e][c].fed = @ \o data]
           \/ /\ c \notin connections[e] \/ x.closed \/ Len(x.readCh) = ReadCap
              /\ UNCHANGED conn
        /\ UNCHANGED <<connections, acceptCh, acceptClosed, pc, target, visited,
                       due, panicked>>

\* Mutant: closed is set without a look at its value before.
BugHandleFin(e, c, w) ==
    /\ Arrives(e, w, FrameFin, c)
    /\ c \in connections[e]
    /\ conn' = [conn EXCEPT ![e][c].closed = TRUE]
    /\ target' = [target EXCEPT ![e]["recv"] = c]
    /\ Goto(Recv(e), "finTest")
    /\ UNCHANGED <<connections, acceptCh, acceptClosed, visited, due, panicked>>

HandleFin(e, c, w) ==
    /\ Arrives(e, w, FrameFin, c)
    /\ \/ /\ c \in connections[e]
          /\ target' = [target EXCEPT ![e]["recv"] = c]
          /\ Swap(Recv(e), e, c, "finTest", "idle")
       \/ c \notin connections[e] /\ UNCHANGED <<conn, target, pc>>
    /\ UNCHANGED <<connections, acceptCh, acceptClosed, visited, due, panicked>>

\* Mutant: the FIN does not wake a Read.
BugFinClose(e) ==
    /\ At(Recv(e), "finTest") /\ Goto(Recv(e), "finAck")
    /\ UNCHANGED <<conn, connections, acceptCh, acceptClosed, target, visited,
                   due, net, faults, panicked>>

FinClose(e) ==
    \/ TestCh(Recv(e), e, target[e]["recv"], "finTest", "finClose", "finAck")
    \/ CloseCh(Recv(e), e, target[e]["recv"], "finClose", "finAck")

\* Delete and the FIN-ACK.
FinAck(e) ==
    /\ At(Recv(e), "finAck")
    /\ connections' = [connections EXCEPT ![e] = @ \ {target[e]["recv"]}]
    /\ \E ok \in BOOLEAN :
          SendFrame(e, NewFrame(FrameFinAck, target[e]["recv"]), ok)
    /\ Goto(Recv(e), "idle")
    /\ UNCHANGED <<conn, acceptCh, acceptClosed, target, visited, due, panicked>>

HandleFinAck(e, c, w) ==
    /\ Arrives(e, w, FrameFinAck, c)
    /\ connections' = [connections EXCEPT ![e] = @ \ {c}]
    /\ UNCHANGED <<conn, acceptCh, acceptClosed, pc, target, visited, due, panicked>>

-----------------------------------------------------------------------------
Reading(e, c) ==
    StartRead(e, c) \/ ReceiveOne(e, c) \/ FinishRead(e, c) \/ ReadEof(e, c)

HandleFrame(e) ==
    \E c \in Conns, w \in net[e] :
        \/ HandleSyn(e, c, w) \/ HandleSynAck(e, c, w) \/ HandleData(e, c, w)
        \/ HandleFin(e, c, w) \/ HandleFinAck(e, c, w)

\* The goroutine inside HandleFrame.
Handling(e) == SendSynAck(e) \/ Queue(e) \/ FinClose(e) \/ FinAck(e)

Closing(e) ==
    \/ RangeNext(e) \/ CloseAcceptCh(e)
    \/ Close(Main(e), e, target[e]["main"], "range")
    \/ \E c \in Conns : Close(Closer(e, c), e, c, "done")

Next ==
    \/ \E c \in Conns : Dial(c) \/ DialReturns(c) \/ DialFails(c)
    \/ \E e \in End :
          \/ Accept(e) \/ HandleFrame(e) \/ Handling(e) \/ StartShutdown(e) \/ Closing(e)
          \/ \E c \in Conns : \/ Reading(e, c) \/ AppClose(e, c)
                              \/ StartWrite(e, c) \/ WriteFrame(e, c)

Spec == Init /\ [][Next]_vars

\* The goroutines run; nobody need dial, accept, write or close, and no frame
\* need arrive.
FairSpec ==
    /\ Spec
    /\ \A e \in End : WF_vars(Handling(e)) /\ WF_vars(Closing(e))
    /\ \A e \in Readers, c \in Conns : WF_vars(Reading(e, c))

-----------------------------------------------------------------------------
\* Every variable has its type, and no channel holds more than it can.
TypeOK ==
    /\ conn \in [End -> [Conns -> Connection]]
    /\ connections \in [End -> SUBSET Conns] /\ acceptCh \in [End -> Seq(Conns)]
    /\ DOMAIN pc = Proc /\ net \in [End -> SUBSET Seq(Nat)]
    /\ faults \in 0 .. MaxFaults /\ panicked \subseteq {"closeCh", "acceptCh"}
    /\ \A e \in End : /\ Len(acceptCh[e]) <= AcceptCap
                      /\ \A c \in Conns : Len(conn[e][c].readCh) <= ReadCap

\* The application's Close, Manager.Close and an arriving FIN never close
\* closeCh twice, though each tests it and closes it in two steps.
ClosedOnce == "closeCh" \notin panicked

\* Read returns the bytes that deliver queued, in the order their frames came,
\* whatever the sizes of frames and buffer: readCh, readBuf and the drain lose,
\* repeat and mix up nothing.  It is not the order they were written in.
ReadAsDelivered ==
    \A e \in End, c \in Conns :
        LET x == conn[e][c]
        IN  Len(x.got) <= Len(x.fed) /\ \A i \in 1 .. Len(x.got) : x.got[i] = x.fed[i]

\* A Dial that returned a Connection has one at the other end.
DialReachesPeer ==
    \A c \in Conns : pc[Dialer(c)] = "up" => conn["server"][c].born

\* A Read that waits on a connection that is closed, by whoever it was, returns.
ReadReturns ==
    \A e \in Readers, c \in Conns :
        conn[e][c].closed /\ pc[Reader(e, c)] = "wait"
            ~> (pc[Reader(e, c)] # "wait" \/ panicked # {})
=============================================================================
