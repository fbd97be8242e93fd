--------------------------- MODULE FrameMuxProofs ---------------------------
(***************************************************************************)
(* Proofs about FrameMux, for any number of connections, frames and        *)
(* faults, any channels and any read buffer, whichever ends read, write    *)
(* and shut down.                                                          *)
(***************************************************************************)
EXTENDS FrameMux, SequenceTheorems, TLAPS

(***************************************************************************)
(* Where the goroutines can be.                                            *)
(***************************************************************************)
DialLabel == {"idle", "wait", "failed", "up"}
ReaderLabel == {"off", "idle", "wait", "drain", "full", "eof"}
WriterLabel == {"off", "idle", "write"}
Claimed == {"testCh", "closeCh"}
CloserLabel == {"off", "idle", "sendFin", "remove", "done"} \cup Claimed
MainLabel == {"idle", "range", "sendFin", "remove", "done"} \cup Claimed
FinClaimed == {"finTest", "finClose"}
RecvLabel == {"idle", "synAck", "queue", "finAck"} \cup FinClaimed
Label == DialLabel \cup ReaderLabel \cup WriterLabel \cup CloserLabel \cup MainLabel
         \cup RecvLabel

PcOK ==
    /\ pc \in [Proc -> Label]
    /\ \A c \in Conns : pc[Dialer(c)] \in DialLabel
    /\ \A e \in End :
         /\ pc[Recv(e)] \in RecvLabel /\ pc[Main(e)] \in MainLabel
         /\ \A c \in Conns : /\ pc[Reader(e, c)] \in ReaderLabel
                             /\ pc[Writer(e, c)] \in WriterLabel
                             /\ pc[Closer(e, c)] \in CloserLabel

\* The connection that HandleFrame, and that Manager.Close, is at.
MainWorks == {"sendFin", "remove"} \cup Claimed
TargetOK ==
    /\ target \in [End -> [{"recv", "main"} -> Conns \cup {None}]]
    /\ \A e \in End : /\ pc[Recv(e)] # "idle" => target[e]["recv"] \in Conns
                      /\ pc[Main(e)] \in MainWorks => target[e]["main"] \in Conns

(***************************************************************************)
(* Frames on the wire.                                                     *)
(***************************************************************************)
Bytes(n) == <<2 * n - 1, 2 * n>>
PayloadOf(w) == UnmarshalFrame(w).payload

\* A frame of the protocol: the n-th data frame has the bytes 2n-1 and 2n.
IsWire(w) ==
    /\ w \in Seq(Nat) /\ IsFrame(w)
    /\ w[1] \in 0 .. 4 /\ w[2] \in Conns /\ w[3] \in Nat
    /\ w[1] = FrameData => w[3] >= 1 /\ PayloadOf(w) = Bytes(w[3])

NetOK ==
    /\ net \in [End -> SUBSET Seq(Nat)]
    /\ \A e \in End : \A w \in net[e] : IsWire(w)

ConnOK ==
    /\ conn \in [End -> [Conns -> Connection]]
    /\ \A e \in End, c \in Conns : Len(conn[e][c].readCh) <= ReadCap

MapsOK ==
    /\ connections \in [End -> SUBSET Conns] /\ acceptCh \in [End -> Seq(Conns)]
    /\ \A e \in End : Len(acceptCh[e]) <= AcceptCap
    /\ faults \in 0 .. MaxFaults /\ panicked \subseteq {"acceptCh"}
    /\ visited \in [End -> SUBSET Conns]
    /\ acceptClosed \in [End -> BOOLEAN]

TypeInv == PcOK /\ TargetOK /\ NetOK /\ ConnOK /\ MapsOK

(***************************************************************************)
(* A Connection that does not exist has nothing and nobody at it.          *)
(***************************************************************************)
BornOK(e, c) ==
    \/ conn[e][c].born
    \/ /\ conn[e][c] = Unborn /\ c \notin connections[e]
       /\ \A i \in 1 .. Len(acceptCh[e]) : acceptCh[e][i] # c
       /\ pc[Reader(e, c)] = "off" /\ pc[Writer(e, c)] = "off" /\ pc[Closer(e, c)] = "off"
       /\ pc[Recv(e)] = "idle" \/ target[e]["recv"] # c
       /\ pc[Main(e)] \notin MainWorks \/ target[e]["main"] # c

(***************************************************************************)
(* The handshake.  Only the client sends SYN, once for a number, and only  *)
(* the server answers.                                                     *)
(***************************************************************************)
SynOK(c) ==
    /\ \A w \in net["server"] :
         w[1] = FrameSyn /\ w[2] = c =>
             /\ ~conn["server"][c].born /\ pc[Dialer(c)] # "idle"
             /\ \A v \in net["server"] : v[1] = FrameSyn /\ v[2] = c => v = w
    /\ pc[Dialer(c)] = "idle" => ~conn["server"][c].born

OneWay ==
    /\ \A w \in net["client"] : w[1] # FrameSyn
    /\ \A w \in net["server"] : w[1] # FrameSynAck
    /\ pc[Recv("client")] \notin {"synAck", "queue"} /\ acceptCh["client"] = <<>>

SynAckOK(c) ==
    /\ \A w \in net["client"] :
         w[1] = FrameSynAck /\ w[2] = c => conn["server"][c].born
    /\ conn["client"][c].established => conn["server"][c].born
    /\ pc[Dialer(c)] = "up" => conn["server"][c].born

ShakeInv == OneWay /\ \A c \in Conns : SynOK(c) /\ SynAckOK(c)

(***************************************************************************)
(* Whoever swaps closed is the only one at closeCh, which is still open.   *)
(***************************************************************************)
CloserClaims(e, c) == pc[Closer(e, c)] \in Claimed
MainClaims(e, c) == pc[Main(e)] \in Claimed /\ target[e]["main"] = c
RecvClaims(e, c) == pc[Recv(e)] \in FinClaimed /\ target[e]["recv"] = c

ClaimOK(e, c) ==
    /\ conn[e][c].closeCh => conn[e][c].closed
    /\ CloserClaims(e, c) \/ MainClaims(e, c) \/ RecvClaims(e, c) =>
         conn[e][c].closed /\ ~conn[e][c].closeCh
    /\ ~(CloserClaims(e, c) /\ MainClaims(e, c))
    /\ ~(CloserClaims(e, c) /\ RecvClaims(e, c))
    /\ ~(MainClaims(e, c) /\ RecvClaims(e, c))

(***************************************************************************)
(* The bytes that were queued: those that Read has handled and those in    *)
(* readCh, two to a frame, one behind the other.                           *)
(***************************************************************************)
Handled(x) == x.got \o x.readBuf

HeldOK(x) ==
    /\ Len(x.fed) = Len(Handled(x)) + 2 * Len(x.readCh)
    /\ \A i \in 1 .. Len(Handled(x)) : x.fed[i] = Handled(x)[i]
    /\ \A k \in 1 .. Len(x.readCh) :
         /\ Len(x.readCh[k]) = 2
         /\ x.fed[Len(Handled(x)) + 2 * k - 1] = x.readCh[k][1]
         /\ x.fed[Len(Handled(x)) + 2 * k] = x.readCh[k][2]

Inv ==
    /\ TypeInv /\ ShakeInv
    /\ \A e \in End, c \in Conns : BornOK(e, c) /\ ClaimOK(e, c) /\ HeldOK(conn[e][c])
-----------------------------------------------------------------------------
(***************************************************************************)
(* Ends, goroutines and steps.                                             *)
(***************************************************************************)

\* The two ends are each other's peer.
LEMMA EndFacts ==
    /\ "client" \in End /\ "server" \in End
    /\ Peer("client") = "server" /\ Peer("server") = "client"
    /\ \A e \in End : /\ Peer(e) \in End /\ Peer(e) # e /\ Peer(Peer(e)) = e
                      /\ e = "client" \/ e = "server"
                      /\ \A d \in End : d = e \/ d = Peer(e)
BY DEF End, Peer

\* The goroutines are in Proc.
LEMMA ProcNames ==
    /\ \A e \in End : Recv(e) \in Proc /\ Main(e) \in Proc
    /\ \A c \in Conns : Dialer(c) \in Proc
    /\ \A e \in End, c \in Conns :
          Reader(e, c) \in Proc /\ Writer(e, c) \in Proc /\ Closer(e, c) \in Proc
BY EndFacts DEF Proc, Recv, Main, Dialer, Reader, Writer, Closer

\* Goroutines of different kinds are different.
LEMMA KindsDiffer ==
    /\ \A e, d \in End : Recv(e) # Main(d)
    /\ \A e \in End, c \in Conns : Recv(e) # Dialer(c) /\ Main(e) # Dialer(c)
    /\ \A e, d \in End, c \in Conns :
         /\ Recv(d) \notin {Reader(e, c), Writer(e, c), Closer(e, c)}
         /\ Main(d) \notin {Reader(e, c), Writer(e, c), Closer(e, c)}
    /\ \A e \in End, c, b \in Conns :
         Dialer(b) \notin {Reader(e, c), Writer(e, c), Closer(e, c)}
    /\ \A e, d \in End, c, b \in Conns :
         /\ Reader(e, c) # Writer(d, b) /\ Reader(e, c) # Closer(d, b)
         /\ Writer(e, c) # Closer(d, b)
BY DEF Recv, Main, Dialer, Reader, Writer, Closer

\* So are those of different ends or connections.
LEMMA NamesDiffer ==
    /\ \A e, d \in End : (Recv(e) = Recv(d) => e = d) /\ (Main(e) = Main(d) => e = d)
    /\ \A c, b \in Conns : Dialer(c) = Dialer(b) => c = b
    /\ \A e, d \in End, c, b \in Conns :
         /\ Reader(e, c) = Reader(d, b) => e = d /\ c = b
         /\ Writer(e, c) = Writer(d, b) => e = d /\ c = b
         /\ Closer(e, c) = Closer(d, b) => e = d /\ c = b
BY DEF Recv, Main, Dialer, Reader, Writer, Closer

\* A step is one of these.
LEMMA NextCases ==
    ASSUME [Next]_vars
    PROVE  \/ \E c \in Conns : Dial(c)
           \/ \E c \in Conns : DialReturns(c)
           \/ \E c \in Conns : DialFails(c)
           \/ \E e \in End : Accept(e)
           \/ \E e \in End, c \in Conns : StartRead(e, c)
           \/ \E e \in End, c \in Conns : ReceiveOne(e, c)
           \/ \E e \in End, c \in Conns : FinishRead(e, c)
           \/ \E e \in End, c \in Conns : ReadEof(e, c)
           \/ \E e \in End, c \in Conns : StartWrite(e, c)
           \/ \E e \in End, c \in Conns : WriteFrame(e, c)
           \/ \E e \in End, c \in Conns : AppClose(e, c)
           \/ \E e \in End : StartShutdown(e)
           \/ \E e \in End : RangeNext(e)
           \/ \E e \in End : CloseAcceptCh(e)
           \/ \E e \in End : TestCh(Main(e), e, target[e]["main"], "testCh", "closeCh", "sendFin")
           \/ \E e \in End : CloseCh(Main(e), e, target[e]["main"], "closeCh", "sendFin")
           \/ \E e \in End : SendFin(Main(e), e, target[e]["main"])
           \/ \E e \in End : RemoveConnection(Main(e), e, target[e]["main"], "range")
           \/ \E e \in End, c \in Conns : TestCh(Closer(e, c), e, c, "testCh", "closeCh", "sendFin")
           \/ \E e \in End, c \in Conns : CloseCh(Closer(e, c), e, c, "closeCh", "sendFin")
           \/ \E e \in End, c \in Conns : SendFin(Closer(e, c), e, c)
           \/ \E e \in End, c \in Conns : RemoveConnection(Closer(e, c), e, c, "done")
           \/ \E e \in End : SendSynAck(e)
           \/ \E e \in End : Queue(e)
           \/ \E e \in End : TestCh(Recv(e), e, target[e]["recv"], "finTest", "finClose", "finAck")
           \/ \E e \in End : CloseCh(Recv(e), e, target[e]["recv"], "finClose", "finAck")
           \/ \E e \in End : FinAck(e)
           \/ \E e \in End, c \in Conns : \E w \in net[e] : HandleSyn(e, c, w)
           \/ \E e \in End, c \in Conns : \E w \in net[e] : HandleSynAck(e, c, w)
           \/ \E e \in End, c \in Conns : \E w \in net[e] : HandleData(e, c, w)
           \/ \E e \in End, c \in Conns : \E w \in net[e] : HandleFin(e, c, w)
           \/ \E e \in End, c \in Conns : \E w \in net[e] : HandleFinAck(e, c, w)
           \/ UNCHANGED vars
<1>1. CASE \E c \in Conns : Dial(c) \/ DialReturns(c) \/ DialFails(c)
  BY <1>1
<1>2. CASE \E e \in End : Handling(e)
  BY <1>2 DEF Handling, FinClose
<1>7. CASE \E e \in End : HandleFrame(e)
  BY <1>7 DEF HandleFrame
<1>3. CASE \E e \in End : Closing(e)
  BY <1>3 DEF Closing, Close
<1>4. CASE \E e \in End, c \in Conns : Reading(e, c)
  BY <1>4 DEF Reading
<1>5. CASE \E e \in End : Accept(e) \/ StartShutdown(e)
  BY <1>5
<1>6. CASE \E e \in End, c \in Conns : AppClose(e, c) \/ StartWrite(e, c) \/ WriteFrame(e, c)
  BY <1>6
<1> QED
  BY <1>1, <1>2, <1>3, <1>4, <1>5, <1>6, <1>7 DEF Next

\* Accept and the return of Dial put three goroutines at their start.
LEMMA UseFacts ==
    ASSUME PcOK, NEW e \in End, NEW c \in Conns, pc' = Use(e, c, "up")
    PROVE  /\ pc' \in [Proc -> Label]
           /\ pc'[Reader(e, c)] = "idle" /\ pc'[Writer(e, c)] = "idle"
           /\ pc'[Closer(e, c)] = "idle"
           /\ \A d \in End, b \in Conns : d # e \/ b # c =>
                 /\ pc'[Reader(d, b)] = pc[Reader(d, b)]
                 /\ pc'[Writer(d, b)] = pc[Writer(d, b)]
                 /\ pc'[Closer(d, b)] = pc[Closer(d, b)]
           /\ \A d \in End : pc'[Recv(d)] = pc[Recv(d)] /\ pc'[Main(d)] = pc[Main(d)]
           /\ \A b \in Conns : b # c \/ e # "client" => pc'[Dialer(b)] = pc[Dialer(b)]
           /\ e = "client" => pc'[Dialer(c)] = "up"
<1> DEFINE dialer == <<"dial", e, c>>
<1>1. /\ dialer \notin {Reader(e, c), Writer(e, c), Closer(e, c)}
      /\ \A d \in End, b \in Conns : dialer \notin {Reader(d, b), Writer(d, b), Closer(d, b)}
      /\ \A d \in End : dialer # Recv(d) /\ dialer # Main(d)
      /\ \A b \in Conns : b # c \/ e # "client" => Dialer(b) # dialer
      /\ e = "client" => Dialer(c) = dialer
  BY DEF Recv, Main, Dialer, Reader, Writer, Closer
<1>2. \A p \in Proc :
        pc'[p] = (IF p = dialer THEN "up"
                  ELSE IF p \in {Reader(e, c), Writer(e, c), Closer(e, c)} THEN "idle"
                  ELSE pc[p])
  BY DEF Use
<1>3. DOMAIN pc' = Proc /\ pc' = [p \in Proc |-> pc'[p]]
  BY DEF Use
<1> HIDE DEF dialer
<1>4. pc' \in [Proc -> Label]
  <2>1. "up" \in Label /\ "idle" \in Label
    BY DEF Label, DialLabel
  <2> QED
    BY <1>2, <1>3, <2>1 DEF PcOK
<1>5. /\ pc'[Reader(e, c)] = "idle" /\ pc'[Writer(e, c)] = "idle" /\ pc'[Closer(e, c)] = "idle"
  BY <1>1, <1>2, ProcNames
<1>6. ASSUME NEW d \in End, NEW b \in Conns, d # e \/ b # c
      PROVE  /\ pc'[Reader(d, b)] = pc[Reader(d, b)] /\ pc'[Writer(d, b)] = pc[Writer(d, b)]
             /\ pc'[Closer(d, b)] = pc[Closer(d, b)]
  BY <1>1, <1>2, <1>6, ProcNames, KindsDiffer, NamesDiffer
<1>7. ASSUME NEW d \in End
      PROVE  pc'[Recv(d)] = pc[Recv(d)] /\ pc'[Main(d)] = pc[Main(d)]
  BY <1>1, <1>2, ProcNames, KindsDiffer
<1>8. ASSUME NEW b \in Conns, b # c \/ e # "client" PROVE pc'[Dialer(b)] = pc[Dialer(b)]
  BY <1>1, <1>2, <1>8, ProcNames, KindsDiffer
<1>9. e = "client" => pc'[Dialer(c)] = "up"
  BY <1>1, <1>2, ProcNames
<1> QED
  BY <1>4, <1>5, <1>6, <1>7, <1>8, <1>9

\* Accept takes a number from acceptCh.
LEMMA AcceptedConn ==
    ASSUME MapsOK, NEW e \in End, acceptCh[e] # <<>>
    PROVE  /\ Head(acceptCh[e]) \in Conns /\ Len(acceptCh[e]) \in Nat
           /\ Head(acceptCh[e]) = acceptCh[e][1] /\ 1 \in 1 .. Len(acceptCh[e])
           /\ Tail(acceptCh[e]) \in Seq(Conns)
           /\ Len(Tail(acceptCh[e])) = Len(acceptCh[e]) - 1
           /\ \A i \in 1 .. Len(Tail(acceptCh[e])) :
                 /\ i + 1 \in 1 .. Len(acceptCh[e])
                 /\ Tail(acceptCh[e])[i] = acceptCh[e][i + 1]
<1>1. acceptCh[e] \in Seq(Conns)
  BY DEF MapsOK
<1> QED
  BY <1>1

-----------------------------------------------------------------------------
(***************************************************************************)
(* Types.                                                                  *)
(***************************************************************************)

\* Every goroutine goes from one of its labels to another.
LEMMA PcStep ==
    ASSUME PcOK, MapsOK, [Next]_vars PROVE PcOK'
<1> USE ProcNames, KindsDiffer, NamesDiffer
        DEF PcOK, At, Goto, Label, DialLabel, ReaderLabel, WriterLabel, CloserLabel,
            MainLabel, RecvLabel, Claimed, FinClaimed
<1>1. ASSUME NEW c \in Conns, Dial(c) PROVE PcOK'
  BY <1>1, EndFacts DEF Dial
<1>2. ASSUME NEW c \in Conns, DialReturns(c) PROVE PcOK'
  <2>1. pc' = Use("client", c, "up") /\ PcOK
    BY <1>2 DEF DialReturns
  <2> QED
    BY <2>1, UseFacts, EndFacts
<1>3. ASSUME NEW c \in Conns, DialFails(c) PROVE PcOK'
  BY <1>3 DEF DialFails
<1>4. ASSUME NEW e \in End, Accept(e) PROVE PcOK'
  <2>1. PICK c \in Conns : pc' = Use(e, c, "up") /\ PcOK
    BY <1>4, AcceptedConn DEF Accept
  <2> QED
    BY <2>1, UseFacts, EndFacts
<1>5. ASSUME NEW e \in End, NEW c \in Conns, StartRead(e, c) PROVE PcOK'
  BY <1>5 DEF StartRead
<1>6. ASSUME NEW e \in End, NEW c \in Conns, ReceiveOne(e, c) PROVE PcOK'
  BY <1>6 DEF ReceiveOne
<1>7. ASSUME NEW e \in End, NEW c \in Conns, FinishRead(e, c) PROVE PcOK'
  BY <1>7 DEF FinishRead
<1>8. ASSUME NEW e \in End, NEW c \in Conns, ReadEof(e, c) PROVE PcOK'
  BY <1>8 DEF ReadEof
<1>9. ASSUME NEW e \in End, NEW c \in Conns, StartWrite(e, c) PROVE PcOK'
  BY <1>9 DEF StartWrite
<1>10. ASSUME NEW e \in End, NEW c \in Conns, WriteFrame(e, c) PROVE PcOK'
  BY <1>10 DEF WriteFrame
<1>11. ASSUME NEW e \in End, NEW c \in Conns, AppClose(e, c) PROVE PcOK'
  BY <1>11 DEF AppClose, Swap
<1>12. ASSUME NEW e \in End, StartShutdown(e) PROVE PcOK'
  BY <1>12 DEF StartShutdown
<1>13. ASSUME NEW e \in End, RangeNext(e) PROVE PcOK'
  BY <1>13 DEF RangeNext, Swap
<1>14. ASSUME NEW e \in End, CloseAcceptCh(e) PROVE PcOK'
  BY <1>14 DEF CloseAcceptCh
<1>15. ASSUME NEW e \in End,
              TestCh(Main(e), e, target[e]["main"], "testCh", "closeCh", "sendFin")
       PROVE  PcOK'
  BY <1>15 DEF TestCh
<1>16. ASSUME NEW e \in End, CloseCh(Main(e), e, target[e]["main"], "closeCh", "sendFin")
       PROVE  PcOK'
  BY <1>16 DEF CloseCh
<1>17. ASSUME NEW e \in End, SendFin(Main(e), e, target[e]["main"]) PROVE PcOK'
  BY <1>17 DEF SendFin
<1>18. ASSUME NEW e \in End, RemoveConnection(Main(e), e, target[e]["main"], "range")
       PROVE  PcOK'
  BY <1>18 DEF RemoveConnection
<1>19. ASSUME NEW e \in End, NEW c \in Conns,
              TestCh(Closer(e, c), e, c, "testCh", "closeCh", "sendFin")
       PROVE  PcOK'
  BY <1>19 DEF TestCh
<1>20. ASSUME NEW e \in End, NEW c \in Conns,
              CloseCh(Closer(e, c), e, c, "closeCh", "sendFin")
       PROVE  PcOK'
  BY <1>20 DEF CloseCh
<1>21. ASSUME NEW e \in End, NEW c \in Conns, SendFin(Closer(e, c), e, c) PROVE PcOK'
  BY <1>21 DEF SendFin
<1>22. ASSUME NEW e \in End, NEW c \in Conns, RemoveConnection(Closer(e, c), e, c, "done")
       PROVE  PcOK'
  BY <1>22 DEF RemoveConnection
<1>23. ASSUME NEW e \in End, SendSynAck(e) PROVE PcOK'
  BY <1>23 DEF SendSynAck
<1>24. ASSUME NEW e \in End, Queue(e) PROVE PcOK'
  BY <1>24 DEF Queue
<1>25. ASSUME NEW e \in End,
              TestCh(Recv(e), e, target[e]["recv"], "finTest", "finClose", "finAck")
       PROVE  PcOK'
  BY <1>25 DEF TestCh
<1>26. ASSUME NEW e \in End, CloseCh(Recv(e), e, target[e]["recv"], "finClose", "finAck")
       PROVE  PcOK'
  BY <1>26 DEF CloseCh
<1>27. ASSUME NEW e \in End, FinAck(e) PROVE PcOK'
  BY <1>27 DEF FinAck
<1>28. ASSUME NEW e \in End, NEW c \in Conns, NEW w \in net[e], HandleSyn(e, c, w) PROVE PcOK'
  BY <1>28 DEF HandleSyn
<1>29. ASSUME NEW e \in End, NEW c \in Conns, NEW w \in net[e], HandleSynAck(e, c, w) PROVE PcOK'
  BY <1>29 DEF HandleSynAck
<1>30. ASSUME NEW e \in End, NEW c \in Conns, NEW w \in net[e], HandleData(e, c, w) PROVE PcOK'
  BY <1>30 DEF HandleData
<1>31. ASSUME NEW e \in End, NEW c \in Conns, NEW w \in net[e], HandleFin(e, c, w) PROVE PcOK'
  BY <1>31 DEF HandleFin, Swap
<1>32. ASSUME NEW e \in End, NEW c \in Conns, NEW w \in net[e], HandleFinAck(e, c, w) PROVE PcOK'
  BY <1>32 DEF HandleFinAck
<1>33. CASE UNCHANGED vars
  BY <1>33 DEF vars
<1> QED
  BY NextCases, <1>1, <1>2, <1>3, <1>4, <1>5, <1>6, <1>7, <1>8, <1>9, <1>10, <1>11, <1>12,
     <1>13, <1>14, <1>15, <1>16, <1>17, <1>18, <1>19, <1>20, <1>21, <1>22, <1>23, <1>24,
     <1>25, <1>26, <1>27, <1>28, <1>29, <1>30, <1>31, <1>32, <1>33

\* HandleFrame and Manager.Close are at a connection.
LEMMA TargetStep ==
    ASSUME PcOK, MapsOK, TargetOK, [Next]_vars PROVE TargetOK'
<1> USE ProcNames, KindsDiffer, NamesDiffer
        DEF PcOK, TargetOK, At, Goto, MainWorks, Claimed, FinClaimed
<1>1. ASSUME NEW c \in Conns, Dial(c) PROVE TargetOK'
  BY <1>1, EndFacts DEF Dial
<1>2. ASSUME NEW c \in Conns, DialReturns(c) PROVE TargetOK'
  <2>1. pc' = Use("client", c, "up") /\ PcOK /\ target' = target
    BY <1>2 DEF DialReturns
  <2> QED
    BY <2>1, UseFacts, EndFacts
<1>3. ASSUME NEW c \in Conns, DialFails(c) PROVE TargetOK'
  BY <1>3 DEF DialFails
<1>4. ASSUME NEW e \in End, Accept(e) PROVE TargetOK'
  <2>1. PICK c \in Conns : pc' = Use(e, c, "up") /\ PcOK /\ target' = target
    BY <1>4, AcceptedConn DEF Accept
  <2> QED
    BY <2>1, UseFacts, EndFacts
<1>5. ASSUME NEW e \in End, NEW c \in Conns, StartRead(e, c) PROVE TargetOK'
  BY <1>5 DEF StartRead
<1>6. ASSUME NEW e \in End, NEW c \in Conns, ReceiveOne(e, c) PROVE TargetOK'
  BY <1>6 DEF ReceiveOne
<1>7. ASSUME NEW e \in End, NEW c \in Conns, FinishRead(e, c) PROVE TargetOK'
  BY <1>7 DEF FinishRead
<1>8. ASSUME NEW e \in End, NEW c \in Conns, ReadEof(e, c) PROVE TargetOK'
  BY <1>8 DEF ReadEof
<1>9. ASSUME NEW e \in End, NEW c \in Conns, StartWrite(e, c) PROVE TargetOK'
  BY <1>9 DEF StartWrite
<1>10. ASSUME NEW e \in End, NEW c \in Conns, WriteFrame(e, c) PROVE TargetOK'
  BY <1>10 DEF WriteFrame
<1>11. ASSUME NEW e \in End, NEW c \in Conns, AppClose(e, c) PROVE TargetOK'
  BY <1>11 DEF AppClose, Swap
<1>12. ASSUME NEW e \in End, StartShutdown(e) PROVE TargetOK'
  BY <1>12 DEF StartShutdown
<1>13. ASSUME NEW e \in End, RangeNext(e) PROVE TargetOK'
  BY <1>13 DEF RangeNext, Swap, MapsOK
<1>14. ASSUME NEW e \in End, CloseAcceptCh(e) PROVE TargetOK'
  BY <1>14 DEF CloseAcceptCh
<1>15. ASSUME NEW e \in End,
              TestCh(Main(e), e, target[e]["main"], "testCh", "closeCh", "sendFin")
       PROVE  TargetOK'
  BY <1>15 DEF TestCh
<1>16. ASSUME NEW e \in End, CloseCh(Main(e), e, target[e]["main"], "closeCh", "sendFin")
       PROVE  TargetOK'
  BY <1>16 DEF CloseCh
<1>17. ASSUME NEW e \in End, SendFin(Main(e), e, target[e]["main"]) PROVE TargetOK'
  BY <1>17 DEF SendFin
<1>18. ASSUME NEW e \in End, RemoveConnection(Main(e), e, target[e]["main"], "range")
       PROVE  TargetOK'
  BY <1>18 DEF RemoveConnection
<1>19. ASSUME NEW e \in End, NEW c \in Conns,
              TestCh(Closer(e, c), e, c, "testCh", "closeCh", "sendFin")
       PROVE  TargetOK'
  BY <1>19 DEF TestCh
<1>20. ASSUME NEW e \in End, NEW c \in Conns,
              CloseCh(Closer(e, c), e, c, "closeCh", "sendFin")
       PROVE  TargetOK'
  BY <1>20 DEF CloseCh
<1>21. ASSUME NEW e \in End, NEW c \in Conns, SendFin(Closer(e, c), e, c) PROVE TargetOK'
  BY <1>21 DEF SendFin
<1>22. ASSUME NEW e \in End, NEW c \in Conns, RemoveConnection(Closer(e, c), e, c, "done")
       PROVE  TargetOK'
  BY <1>22 DEF RemoveConnection
<1>23. ASSUME NEW e \in End, SendSynAck(e) PROVE TargetOK'
  BY <1>23 DEF SendSynAck
<1>24. ASSUME NEW e \in End, Queue(e) PROVE TargetOK'
  BY <1>24 DEF Queue
<1>25. ASSUME NEW e \in End,
              TestCh(Recv(e), e, target[e]["recv"], "finTest", "finClose", "finAck")
       PROVE  TargetOK'
  BY <1>25 DEF TestCh
<1>26. ASSUME NEW e \in End, CloseCh(Recv(e), e, target[e]["recv"], "finClose", "finAck")
       PROVE  TargetOK'
  BY <1>26 DEF CloseCh
<1>27. ASSUME NEW e \in End, FinAck(e) PROVE TargetOK'
  BY <1>27 DEF FinAck
<1>28. ASSUME NEW e \in End, NEW c \in Conns, NEW w \in net[e], HandleSyn(e, c, w) PROVE TargetOK'
  BY <1>28 DEF HandleSyn
<1>29. ASSUME NEW e \in End, NEW c \in Conns, NEW w \in net[e], HandleSynAck(e, c, w) PROVE TargetOK'
  BY <1>29 DEF HandleSynAck
<1>30. ASSUME NEW e \in End, NEW c \in Conns, NEW w \in net[e], HandleData(e, c, w) PROVE TargetOK'
  BY <1>30 DEF HandleData
<1>31. ASSUME NEW e \in End, NEW c \in Conns, NEW w \in net[e], HandleFin(e, c, w) PROVE TargetOK'
  BY <1>31 DEF HandleFin, Swap
<1>32. ASSUME NEW e \in End, NEW c \in Conns, NEW w \in net[e], HandleFinAck(e, c, w) PROVE TargetOK'
  BY <1>32 DEF HandleFinAck
<1>33. CASE UNCHANGED vars
  BY <1>33 DEF vars
<1> QED
  BY NextCases, <1>1, <1>2, <1>3, <1>4, <1>5, <1>6, <1>7, <1>8, <1>9, <1>10, <1>11, <1>12,
     <1>13, <1>14, <1>15, <1>16, <1>17, <1>18, <1>19, <1>20, <1>21, <1>22, <1>23, <1>24,
     <1>25, <1>26, <1>27, <1>28, <1>29, <1>30, <1>31, <1>32, <1>33

\* The elements of a concatenation.
LEMMA TwoParts ==
    ASSUME NEW u \in Seq(Nat), NEW d \in Seq(Nat), NEW w, w = u \o d
    PROVE  /\ w \in Seq(Nat) /\ Len(w) = Len(u) + Len(d) /\ Len(w) \in Nat
           /\ Len(u) \in Nat /\ Len(d) \in Nat
           /\ \A i \in 1 .. Len(u) : w[i] = u[i]
           /\ \A i \in 1 .. Len(d) : w[Len(u) + i] = d[i]
<1>0. Len(u) \in Nat /\ Len(d) \in Nat
  OBVIOUS
<1>2. /\ w \in Seq(Nat) /\ Len(w) = Len(u) + Len(d)
      /\ \A i \in 1 .. Len(u) + Len(d) :
           w[i] = IF i <= Len(u) THEN u[i] ELSE d[i - Len(u)]
  BY ConcatProperties
<1>3. ASSUME NEW i \in 1 .. Len(u) PROVE w[i] = u[i]
  BY <1>0, <1>2
<1>4. ASSUME NEW i \in 1 .. Len(d) PROVE w[Len(u) + i] = d[i]
  <2>1. /\ Len(u) + i \in 1 .. Len(u) + Len(d) /\ ~(Len(u) + i <= Len(u))
        /\ (Len(u) + i) - Len(u) = i
    BY <1>0
  <2> QED
    BY <1>2, <2>1
<1> QED
  BY <1>0, <1>2, <1>3, <1>4

\* Marshal without a payload.
LEMMA FrameWire ==
    ASSUME NEW t \in 1 .. 4, NEW c \in Conns
    PROVE  LET w == Marshal(NewFrame(t, c))
           IN  IsWire(w) /\ w[1] = t /\ w[2] = c
<1> DEFINE w == <<t, c, 0, 0>>
<1>1. Marshal(NewFrame(t, c)) = w \o <<>>
  BY DEF Marshal, NewFrame, LengthSpace
<1>2. w \in Seq(Nat) /\ w \o <<>> = w
  BY DEF Conns
<1>3. Len(w) = 4 /\ w[1] = t /\ w[2] = c /\ w[3] = 0 /\ w[4] = 0
  OBVIOUS
<1> HIDE DEF w
<1>4. IsWire(w)
  BY <1>2, <1>3 DEF IsWire, IsFrame, MinFrameSize, FrameData
<1> QED
  BY <1>1, <1>2, <1>3, <1>4

\* UnmarshalFrame gets back the two bytes of a data frame.
LEMMA DataWire ==
    ASSUME NEW c \in Conns, NEW n \in Nat, n >= 1
    PROVE  LET w == Marshal(NewDataFrame(c, n, <<2 * n - 1, 2 * n>>))
           IN  IsWire(w) /\ w[1] = FrameData /\ w[2] = c /\ w[3] = n
<1> DEFINE h == <<FrameData, c, n, 2>>
           b == <<2 * n - 1, 2 * n>>
<1>0. PICK w : w = Marshal(NewDataFrame(c, n, b))
  OBVIOUS
<1>1. w = h \o b
  BY <1>0 DEF Marshal, NewDataFrame, LengthSpace
<1>2. /\ h \in Seq(Nat) /\ Len(h) = 4
      /\ h[1] = FrameData /\ h[2] = c /\ h[3] = n /\ h[4] = 2
  BY DEF Conns, FrameData
<1>3. b \in Seq(Nat) /\ Len(b) = 2
  OBVIOUS
<1> HIDE DEF h, b
<1>4. /\ w \in Seq(Nat) /\ Len(w) = 6
      /\ \A i \in 1 .. 4 : w[i] = h[i]
      /\ \A i \in 1 .. 2 : w[4 + i] = b[i]
  <2>0. h \in Seq(Nat) /\ b \in Seq(Nat)
    BY <1>2, <1>3
  <2>1. /\ w \in Seq(Nat) /\ Len(w) = Len(h) + Len(b)
        /\ \A i \in 1 .. Len(h) : w[i] = h[i]
        /\ \A i \in 1 .. Len(b) : w[Len(h) + i] = b[i]
    BY <1>1, <2>0, TwoParts
  <2> QED
    BY <1>2, <1>3, <2>1
<1>5. w[1] = FrameData /\ w[2] = c /\ w[3] = n /\ w[4] = 2
  BY <1>2, <1>4
<1>6. PayloadOf(w) = b
  <2>1. PayloadOf(w) = SubSeq(w, 5, 6)
    BY <1>5 DEF PayloadOf, UnmarshalFrame, MinFrameSize
  <2>2. /\ SubSeq(w, 5, 6) \in Seq(Nat) /\ Len(SubSeq(w, 5, 6)) = 2
        /\ \A i \in 1 .. 2 : SubSeq(w, 5, 6)[i] = w[4 + i]
    <3>1. \A i \in 5 .. 6 : w[i] \in Nat
      <4>1. \A i \in 5 .. 6 : i \in 1 .. Len(w)
        BY <1>4
      <4>2. \A i \in 1 .. Len(w) : w[i] \in Nat
        BY <1>4, ElementOfSeq
      <4> QED
        BY <4>1, <4>2
    <3>2. /\ SubSeq(w, 5, 6) \in Seq(Nat) /\ Len(SubSeq(w, 5, 6)) = 2
          /\ \A i \in 1 .. 6 - 5 + 1 : SubSeq(w, 5, 6)[i] = w[5 + i - 1]
      BY <3>1, SubSeqProperties
    <3> QED
      BY <3>2
  <2>3. \A i \in 1 .. 2 : SubSeq(w, 5, 6)[i] = b[i]
    BY <1>4, <2>2
  <2> QED
    BY <1>3, <2>1, <2>2, <2>3
<1>7. b = Bytes(n)
  BY DEF b, Bytes
<1>8. IsFrame(w)
  BY <1>4, <1>5 DEF IsFrame, MinFrameSize
<1>9. IsWire(w)
  BY <1>4, <1>5, <1>6, <1>7, <1>8 DEF IsWire, FrameData
<1> QED
  BY <1>0, <1>5, <1>9 DEF b

(***************************************************************************)
(* What a step does to the frames on their way to an end.                  *)
(***************************************************************************)
Grows(d, w) == net'[d] = net[d] \cup {w} /\ net'[Peer(d)] = net[Peer(d)]

Shrinks(d) == net'[d] \subseteq net[d] /\ net'[Peer(d)] = net[Peer(d)]

\* A frame that is sent joins the others, or is refused.
LEMMA SendFrameFacts ==
    ASSUME NetOK, MapsOK, NEW e \in End, NEW f, IsWire(Marshal(f)), NEW ok, SendFrame(e, f, ok)
    PROVE  /\ NetOK' /\ faults' \in 0 .. MaxFaults
           /\ net' = net \/ Grows(Peer(e), Marshal(f))
<1>1. CASE net' = [net EXCEPT ![Peer(e)] = @ \cup {Marshal(f)}] /\ faults' = faults
  <2>1. PICK w : w = Marshal(f)
    OBVIOUS
  <2>2. PICK d \in End : d = Peer(e) /\ Peer(d) \in End /\ Peer(d) # d
    BY EndFacts
  <2>3. /\ net'[d] = net[d] \cup {w} /\ net'[Peer(d)] = net[Peer(d)]
        /\ net' \in [End -> SUBSET Seq(Nat)]
    BY <1>1, <2>1, <2>2 DEF NetOK, IsWire
  <2>4. \A x \in End : \A v \in net'[x] : IsWire(v)
    BY <2>1, <2>2, <2>3, EndFacts DEF NetOK
  <2>5. NetOK'
    BY <2>3, <2>4 DEF NetOK, IsWire
  <2> QED
    BY <1>1, <2>1, <2>2, <2>3, <2>5 DEF MapsOK, Grows
<1>2. CASE faults < MaxFaults /\ faults' = faults + 1 /\ net' = net
  <2>1. faults' \in 0 .. MaxFaults
    BY <1>2, MuxAssumption DEF MapsOK
  <2>2. NetOK'
    BY <1>2 DEF NetOK, IsWire
  <2> QED
    BY <1>2, <2>1, <2>2
<1> QED
  BY <1>1, <1>2 DEF SendFrame

\* The frame that HandleFrame works on may come again, if it is no SYN.
LEMMA ArrivesFacts ==
    ASSUME NetOK, MapsOK, NEW e \in End, NEW w, NEW t, NEW c, Arrives(e, w, t, c)
    PROVE  /\ NetOK' /\ faults' \in 0 .. MaxFaults /\ Shrinks(e)
           /\ w \in net[e] /\ IsWire(w) /\ w[1] = t /\ w[2] = c
           /\ UnmarshalFrame(w).payload = PayloadOf(w)
           /\ t = FrameSyn => w \notin net'[e]
<1>1. w \in net[e] /\ w[1] = t /\ w[2] = c
  BY DEF Arrives, UnmarshalFrame
<1>2. IsWire(w)
  BY <1>1 DEF NetOK
<1>3. /\ Shrinks(e) /\ net' \in [End -> SUBSET Seq(Nat)]
      /\ t = FrameSyn => w \notin net'[e]
  BY EndFacts DEF Arrives, Shrinks, NetOK
<1>4. NetOK'
  BY <1>3, EndFacts DEF NetOK, Shrinks, IsWire
<1>5. faults' \in 0 .. MaxFaults
  BY MuxAssumption DEF Arrives, MapsOK
<1> QED
  BY <1>1, <1>2, <1>3, <1>4, <1>5 DEF PayloadOf

\* The numbers of the frame types.
LEMMA TypeNumbers ==
    /\ FrameSyn \in 1 .. 4 /\ FrameSynAck \in 1 .. 4 /\ FrameFin \in 1 .. 4
    /\ FrameFinAck \in 1 .. 4 /\ FrameData \notin 1 .. 4
    /\ FrameSyn # FrameSynAck /\ FrameSyn # FrameFin /\ FrameSyn # FrameFinAck
    /\ FrameSynAck # FrameFin /\ FrameSynAck # FrameFinAck
    /\ FrameData # FrameSyn /\ FrameData # FrameSynAck
BY DEF FrameData, FrameSyn, FrameSynAck, FrameFin, FrameFinAck

\* A frame of type t for connection c is sent to end d, or lost.
SendsTo(d, t, c) ==
    \/ net' = net
    \/ \E w \in Seq(Nat) : Grows(d, w) /\ w[1] = t /\ w[2] = c

\* What SendFrame does with a frame without a payload.
LEMMA SendsFrame ==
    ASSUME NetOK, MapsOK, NEW e \in End, NEW c \in Conns, NEW t \in 1 .. 4,
           NEW ok, SendFrame(e, NewFrame(t, c), ok)
    PROVE  NetOK' /\ faults' \in 0 .. MaxFaults /\ SendsTo(Peer(e), t, c)
<1>1. PICK w : w = Marshal(NewFrame(t, c))
  OBVIOUS
<1>2. IsWire(w) /\ w[1] = t /\ w[2] = c
  BY <1>1, FrameWire
<1>3. /\ NetOK' /\ faults' \in 0 .. MaxFaults
      /\ net' = net \/ Grows(Peer(e), w)
  BY <1>1, <1>2, SendFrameFacts
<1> QED
  BY <1>2, <1>3 DEF SendsTo, IsWire

\* Dial sends a SYN.
LEMMA DialNet ==
    ASSUME NetOK, MapsOK, NEW c \in Conns, Dial(c)
    PROVE  NetOK' /\ faults' \in 0 .. MaxFaults /\ SendsTo("server", FrameSyn, c)
<1>1. PICK ok \in BOOLEAN : SendFrame("client", NewFrame(FrameSyn, c), ok)
  BY DEF Dial
<1> QED
  BY <1>1, SendsFrame, TypeNumbers, EndFacts

\* Close sends a FIN.
LEMMA SendFinNet ==
    ASSUME NetOK, MapsOK, NEW e \in End, NEW c \in Conns, NEW p, SendFin(p, e, c)
    PROVE  NetOK' /\ faults' \in 0 .. MaxFaults /\ SendsTo(Peer(e), FrameFin, c)
<1>1. PICK ok \in BOOLEAN : SendFrame(e, NewFrame(FrameFin, c), ok)
  BY DEF SendFin
<1> QED
  BY <1>1, SendsFrame, TypeNumbers

\* HandleFrame answers a SYN.
LEMMA SynAckNet ==
    ASSUME NetOK, MapsOK, TargetOK, NEW e \in End, SendSynAck(e)
    PROVE  /\ NetOK' /\ faults' \in 0 .. MaxFaults /\ target[e]["recv"] \in Conns
           /\ SendsTo(Peer(e), FrameSynAck, target[e]["recv"])
<1>1. PICK ok \in BOOLEAN : SendFrame(e, NewFrame(FrameSynAck, target[e]["recv"]), ok)
  BY DEF SendSynAck
<1>2. target[e]["recv"] \in Conns
  BY DEF SendSynAck, At, TargetOK
<1> QED
  BY <1>1, <1>2, SendsFrame, TypeNumbers

\* It answers a FIN.
LEMMA FinAckNet ==
    ASSUME NetOK, MapsOK, TargetOK, NEW e \in End, FinAck(e)
    PROVE  /\ NetOK' /\ faults' \in 0 .. MaxFaults /\ target[e]["recv"] \in Conns
           /\ SendsTo(Peer(e), FrameFinAck, target[e]["recv"])
<1>1. PICK ok \in BOOLEAN : SendFrame(e, NewFrame(FrameFinAck, target[e]["recv"]), ok)
  BY DEF FinAck
<1>2. target[e]["recv"] \in Conns
  BY DEF FinAck, At, TargetOK
<1> QED
  BY <1>1, <1>2, SendsFrame, TypeNumbers

\* Write sends the next data frame.
LEMMA WriteNet ==
    ASSUME NetOK, MapsOK, ConnOK, NEW e \in End, NEW c \in Conns, WriteFrame(e, c)
    PROVE  /\ NetOK' /\ faults' \in 0 .. MaxFaults /\ conn[e][c].seq \in Nat
           /\ \/ net' = net
              \/ \E w \in Seq(Nat) : /\ Grows(Peer(e), w) /\ w[1] = FrameData /\ w[2] = c
                                     /\ w[3] = conn[e][c].seq + 1
<1>0. PICK n \in Nat : n = conn[e][c].seq + 1 /\ n >= 1 /\ conn[e][c].seq \in Nat
  <2>1. conn[e][c] \in Connection
    BY DEF ConnOK
  <2>2. conn[e][c].seq \in Nat
    BY <2>1 DEF Connection
  <2> QED
    BY <2>2
<1>1. PICK ok \in BOOLEAN : SendFrame(e, NewDataFrame(c, n, <<2 * n - 1, 2 * n>>), ok)
  BY <1>0 DEF WriteFrame
<1>2. PICK w : w = Marshal(NewDataFrame(c, n, <<2 * n - 1, 2 * n>>))
  OBVIOUS
<1>3. IsWire(w) /\ w[1] = FrameData /\ w[2] = c /\ w[3] = n
  BY <1>0, <1>2, DataWire
<1>4. /\ NetOK' /\ faults' \in 0 .. MaxFaults
      /\ net' = net \/ Grows(Peer(e), w)
  BY <1>1, <1>2, <1>3, SendFrameFacts
<1> QED
  BY <1>0, <1>3, <1>4 DEF IsWire

(***************************************************************************)
(* What a step does to the Connections: at most one changes.               *)
(***************************************************************************)
OnlyConn(e, c) ==
    \A d \in End, b \in Conns : d # e \/ b # c => conn'[d][b] = conn[d][b]

SameBytes(x, y) ==
    y.got = x.got /\ y.readBuf = x.readBuf /\ y.readCh = x.readCh /\ y.fed = x.fed
SameLife(x, y) == y.born = x.born /\ y.established = x.established
SameClose(x, y) == y.closed = x.closed /\ y.closeCh = x.closeCh

\* The fields of a Connection.
LEMMA Fields ==
    ASSUME NEW x \in Connection
    PROVE  /\ x.born \in BOOLEAN /\ x.established \in BOOLEAN /\ x.closed \in BOOLEAN
           /\ x.closeCh \in BOOLEAN /\ x.seq \in Nat /\ x.readCh \in Seq(Seq(Nat))
           /\ x.readBuf \in Seq(Nat) /\ x.got \in Seq(Nat) /\ x.fed \in Seq(Nat)
BY DEF Connection

\* A Connection that is replaced by another record.
LEMMA BecomesFacts ==
    ASSUME ConnOK, NEW e \in End, NEW c \in Conns, NEW x \in Connection,
           Len(x.readCh) <= ReadCap, conn' = [conn EXCEPT ![e][c] = x]
    PROVE  ConnOK' /\ conn'[e][c] = x /\ OnlyConn(e, c)
BY DEF ConnOK, OnlyConn

\* Dial.
LEMMA DialFields ==
    ASSUME ConnOK, NEW c \in Conns, Dial(c)
    PROVE  LET x == conn["client"][c]
               y == conn'["client"][c]
           IN  /\ ConnOK' /\ OnlyConn("client", c)
               /\ y.born /\ y.established = x.established /\ SameClose(x, y)
               /\ y.seq = x.seq /\ SameBytes(x, y)
<1> DEFINE x == conn["client"][c]
           y == [x EXCEPT !.born = TRUE]
<1>1. x \in Connection /\ Len(x.readCh) <= ReadCap /\ "client" \in End
  BY EndFacts DEF ConnOK
<1>2. y \in Connection /\ y.readCh = x.readCh /\ y.born
      /\ y.established = x.established /\ SameClose(x, y) /\ y.seq = x.seq /\ SameBytes(x, y)
  BY <1>1 DEF Connection, SameClose, SameBytes
<1>3. conn' = [conn EXCEPT !["client"][c] = y]
  BY DEF Dial
<1> HIDE DEF y
<1>4. ConnOK' /\ conn'["client"][c] = y /\ OnlyConn("client", c)
  BY <1>1, <1>2, <1>3, BecomesFacts
<1> QED
  BY <1>2, <1>4

\* Swap of closed.
LEMMA SwapFields ==
    ASSUME ConnOK, NEW e \in End, NEW c \in Conns, NEW p, NEW l, NEW m, Swap(p, e, c, l, m)
    PROVE  LET x == conn[e][c]
               y == conn'[e][c]
           IN  /\ ConnOK' /\ OnlyConn(e, c)
               /\ SameLife(x, y) /\ y.closed /\ y.closeCh = x.closeCh
               /\ y.seq = x.seq /\ SameBytes(x, y)
<1> DEFINE x == conn[e][c]
           y == [x EXCEPT !.closed = TRUE]
<1>1. x \in Connection /\ Len(x.readCh) <= ReadCap
  BY DEF ConnOK
<1>2. y \in Connection /\ y.readCh = x.readCh /\ y.closed /\ y.closeCh = x.closeCh
      /\ SameLife(x, y) /\ y.seq = x.seq /\ SameBytes(x, y)
  BY <1>1 DEF Connection, SameLife, SameBytes
<1>3. conn' = [conn EXCEPT ![e][c] = y]
  BY DEF Swap
<1> HIDE DEF y
<1>4. ConnOK' /\ conn'[e][c] = y /\ OnlyConn(e, c)
  BY <1>1, <1>2, <1>3, BecomesFacts
<1> QED
  BY <1>2, <1>4

\* The close of closeCh.
LEMMA CloseChFields ==
    ASSUME ConnOK, NEW e \in End, NEW c \in Conns, NEW p, NEW l, NEW m, CloseCh(p, e, c, l, m)
    PROVE  LET x == conn[e][c]
               y == conn'[e][c]
           IN  /\ ConnOK' /\ OnlyConn(e, c)
               /\ SameLife(x, y) /\ y.closed = x.closed /\ y.closeCh
               /\ y.seq = x.seq /\ SameBytes(x, y)
<1> DEFINE x == conn[e][c]
           y == [x EXCEPT !.closeCh = TRUE]
<1>1. x \in Connection /\ Len(x.readCh) <= ReadCap
  BY DEF ConnOK
<1>2. y \in Connection /\ y.readCh = x.readCh /\ y.closeCh /\ y.closed = x.closed
      /\ SameLife(x, y) /\ y.seq = x.seq /\ SameBytes(x, y)
  BY <1>1 DEF Connection, SameLife, SameBytes
<1>3. conn' = [conn EXCEPT ![e][c] = y]
  BY DEF CloseCh
<1> HIDE DEF y
<1>4. ConnOK' /\ conn'[e][c] = y /\ OnlyConn(e, c)
  BY <1>1, <1>2, <1>3, BecomesFacts
<1> QED
  BY <1>2, <1>4

\* A SYN-ACK.
LEMMA SynAckFields ==
    ASSUME ConnOK, NEW e \in End, NEW c \in Conns, NEW w \in net[e], HandleSynAck(e, c, w)
    PROVE  LET x == conn[e][c]
               y == conn'[e][c]
           IN  /\ ConnOK' /\ OnlyConn(e, c)
               /\ y.established => x.established \/ c \in connections[e]
               /\ c \notin connections[e] => conn'[e][c] = conn[e][c]
               /\ y.born = x.born /\ SameClose(x, y) /\ y.seq = x.seq /\ SameBytes(x, y)
<1> DEFINE x == conn[e][c]
           y == [x EXCEPT !.established = x.established \/ c \in connections[e]]
<1>1. x \in Connection /\ Len(x.readCh) <= ReadCap
  BY DEF ConnOK
<1>2. y \in Connection /\ y.readCh = x.readCh
      /\ y.born = x.born /\ SameClose(x, y) /\ y.seq = x.seq /\ SameBytes(x, y)
  <2>1. (x.established \/ c \in connections[e]) \in BOOLEAN
    OBVIOUS
  <2>2. PICK v \in BOOLEAN : v = (x.established \/ c \in connections[e])
    BY <2>1
  <2>3. y = [x EXCEPT !.established = v]
    BY <2>2
  <2> QED
    BY <1>1, <2>3 DEF Connection, SameClose, SameBytes
<1>3. /\ y.established = (x.established \/ c \in connections[e])
      /\ c \notin connections[e] => y = x
  BY <1>1 DEF Connection
<1>4. conn' = [conn EXCEPT ![e][c] = y]
  BY DEF HandleSynAck
<1> HIDE DEF y
<1>5. ConnOK' /\ conn'[e][c] = y /\ OnlyConn(e, c)
  BY <1>1, <1>2, <1>4, BecomesFacts
<1> QED
  BY <1>2, <1>3, <1>5

\* The Connection that is not there yet.
LEMMA UnbornFacts ==
    /\ Unborn \in Connection
    /\ Unborn.born = FALSE /\ Unborn.established = FALSE /\ Unborn.closed = FALSE
    /\ Unborn.closeCh = FALSE /\ Unborn.seq = 0
    /\ Unborn.readCh = <<>> /\ Unborn.readBuf = <<>> /\ Unborn.got = <<>>
    /\ Unborn.fed = <<>>
<1>1. <<>> \in Seq(Nat) /\ <<>> \in Seq(Seq(Nat))
  OBVIOUS
<1>2. Unborn \in Connection
  BY <1>1 DEF Unborn, Connection
<1>3. /\ Unborn.born = FALSE /\ Unborn.established = FALSE /\ Unborn.closed = FALSE
      /\ Unborn.closeCh = FALSE
  BY DEF Unborn
<1>4. /\ Unborn.seq = 0
      /\ Unborn.readCh = <<>> /\ Unborn.readBuf = <<>> /\ Unborn.got = <<>>
      /\ Unborn.fed = <<>>
  BY DEF Unborn
<1> QED
  BY <1>2, <1>3, <1>4

\* A SYN.
LEMMA SynFields ==
    ASSUME ConnOK, NEW e \in End, NEW c \in Conns, NEW w \in net[e], HandleSyn(e, c, w)
    PROVE  LET y == conn'[e][c]
           IN  /\ ConnOK' /\ OnlyConn(e, c)
               /\ y.born /\ y.established /\ ~y.closed /\ ~y.closeCh
               /\ y.seq = 0 /\ SameBytes(Unborn, y)
<1> DEFINE y == [Unborn EXCEPT !.born = TRUE, !.established = TRUE]
<1>1. y \in Connection /\ y.readCh = <<>> /\ y.born /\ y.established /\ ~y.closed /\ ~y.closeCh
      /\ y.seq = 0 /\ SameBytes(Unborn, y)
  <2>1. PICK x \in Connection : x = Unborn
    BY UnbornFacts
  <2>2. /\ x.readCh = <<>> /\ x.closed = FALSE /\ x.closeCh = FALSE /\ x.seq = 0
    BY <2>1, UnbornFacts
  <2>3. [x EXCEPT !.born = TRUE, !.established = TRUE] \in Connection
    BY DEF Connection
  <2>4. LET z == [x EXCEPT !.born = TRUE, !.established = TRUE]
        IN  /\ z.born = TRUE /\ z.established = TRUE /\ z.closed = x.closed
            /\ z.closeCh = x.closeCh /\ z.seq = x.seq /\ z.readCh = x.readCh
            /\ SameBytes(x, z)
    BY DEF Connection, SameBytes
  <2> QED
    BY <2>1, <2>2, <2>3, <2>4
<1>2. conn' = [conn EXCEPT ![e][c] = y]
  BY DEF HandleSyn
<1>3. Len(y.readCh) <= ReadCap
  <2>1. Len(<<>>) = 0 /\ ReadCap \in Nat
    BY MuxAssumption
  <2> QED
    BY <1>1, <2>1
<1> HIDE DEF y
<1>4. ConnOK' /\ conn'[e][c] = y /\ OnlyConn(e, c)
  BY <1>1, <1>2, <1>3, BecomesFacts
<1> QED
  BY <1>1, <1>4

\* A written frame.
LEMMA WriteFields ==
    ASSUME ConnOK, NEW e \in End, NEW c \in Conns, WriteFrame(e, c)
    PROVE  LET x == conn[e][c]
               y == conn'[e][c]
           IN  /\ ConnOK' /\ OnlyConn(e, c)
               /\ SameLife(x, y) /\ SameClose(x, y) /\ SameBytes(x, y)
               /\ y.seq = x.seq + 1
<1> DEFINE x == conn[e][c]
           y == [x EXCEPT !.seq = x.seq + 1]
<1>1. x \in Connection /\ Len(x.readCh) <= ReadCap
  BY DEF ConnOK
<1>2. y \in Connection /\ y.readCh = x.readCh /\ y.seq = x.seq + 1
      /\ SameLife(x, y) /\ SameClose(x, y) /\ SameBytes(x, y)
  <2>1. x.seq + 1 \in Nat
    BY <1>1, Fields
  <2> QED
    BY <1>1, <2>1 DEF Connection, SameLife, SameClose, SameBytes
<1>3. conn' = [conn EXCEPT ![e][c] = y]
  BY DEF WriteFrame
<1> HIDE DEF y
<1>4. ConnOK' /\ conn'[e][c] = y /\ OnlyConn(e, c)
  BY <1>1, <1>2, <1>3, BecomesFacts
<1> QED
  BY <1>2, <1>4

\* A data frame is queued, or dropped.
LEMMA DataFields ==
    ASSUME ConnOK, NetOK, MapsOK,
           NEW e \in End, NEW c \in Conns, NEW w \in net[e], HandleData(e, c, w)
    PROVE  LET x == conn[e][c]
               y == conn'[e][c]
           IN  /\ ConnOK' /\ OnlyConn(e, c)
               /\ SameLife(x, y) /\ SameClose(x, y) /\ y.seq = x.seq
               /\ y.got = x.got /\ y.readBuf = x.readBuf
               /\ \/ y = x
                  \/ /\ y.readCh = Append(x.readCh, PayloadOf(w))
                     /\ y.fed = x.fed \o PayloadOf(w) /\ c \in connections[e]
               /\ PayloadOf(w) \in Seq(Nat) /\ Len(PayloadOf(w)) = 2
<1> DEFINE x == conn[e][c]
<1>1. x \in Connection /\ Len(x.readCh) <= ReadCap
  BY DEF ConnOK
<1>2. IsWire(w) /\ w[1] = FrameData /\ UnmarshalFrame(w).payload = PayloadOf(w)
  BY ArrivesFacts DEF HandleData
<1>3. PICK data \in Seq(Nat) : data = PayloadOf(w) /\ Len(data) = 2
  <2>1. PayloadOf(w) = Bytes(w[3]) /\ w[3] \in Nat /\ w[3] >= 1
    BY <1>2 DEF IsWire
  <2>2. 2 * w[3] - 1 \in Nat /\ 2 * w[3] \in Nat
    BY <2>1
  <2>3. Bytes(w[3]) \in Seq(Nat) /\ Len(Bytes(w[3])) = 2
    BY <2>2 DEF Bytes
  <2> QED
    BY <2>1, <2>3
<1>4. CASE /\ Len(x.readCh) < ReadCap /\ c \in connections[e]
           /\ conn' = [conn EXCEPT ![e][c].readCh = Append(@, data),
                                   ![e][c].fed = @ \o data]
  <2>1. x.readCh \in Seq(Seq(Nat)) /\ Len(x.readCh) \in Nat /\ x.fed \in Seq(Nat)
    BY <1>1, Fields
  <2>2. Append(x.readCh, data) \in Seq(Seq(Nat)) /\ Len(Append(x.readCh, data)) = Len(x.readCh) + 1
    BY <2>1
  <2>3. PICK r \in Seq(Seq(Nat)) : r = Append(x.readCh, data) /\ Len(r) <= ReadCap
    <3>1. Len(x.readCh) + 1 <= ReadCap
      BY <1>4, <2>1, MuxAssumption
    <3> QED
      BY <2>2, <3>1
  <2>4. PICK f \in Seq(Nat) : f = x.fed \o data
    <3>1. x.fed \o data \in Seq(Nat)
      BY <2>1
    <3> QED
      BY <3>1
  <2> DEFINE y == [x EXCEPT !.readCh = r, !.fed = f]
  <2>5. y \in Connection /\ y.readCh = r /\ y.fed = f /\ y.got = x.got /\ y.readBuf = x.readBuf
        /\ SameLife(x, y) /\ SameClose(x, y) /\ y.seq = x.seq
    BY <1>1 DEF Connection, SameLife, SameClose
  <2>6. conn' = [conn EXCEPT ![e][c] = y]
    <3>1. conn' = [conn EXCEPT ![e][c].readCh = r, ![e][c].fed = f]
      BY <1>4, <2>3, <2>4
    <3>2. conn \in [End -> [Conns -> Connection]]
      BY DEF ConnOK
    <3> QED
      BY <3>1, <3>2 DEF Connection
  <2> HIDE DEF y
  <2>7. ConnOK' /\ conn'[e][c] = y /\ OnlyConn(e, c)
    BY <2>3, <2>5, <2>6, BecomesFacts
  <2> QED
    BY <1>3, <1>4, <2>3, <2>4, <2>5, <2>7
<1>5. CASE UNCHANGED conn
  BY <1>1, <1>3, <1>5 DEF ConnOK, OnlyConn, SameLife, SameClose
<1> QED
  BY <1>2, <1>3, <1>4, <1>5 DEF HandleData

\* Concatenation is associative.
LEMMA ConcatNat ==
    ASSUME NEW s \in Seq(Nat), NEW t \in Seq(Nat), NEW u \in Seq(Nat)
    PROVE  (s \o t) \o u = s \o (t \o u)
BY ConcatAssociative, SMTT(30)

\* Read moves bytes from readBuf to got, and leaves the two together as they were.
LEMMA HandOutFacts ==
    ASSUME NEW x \in Connection
    PROVE  LET y == HandOut(x, x.readBuf)
           IN  /\ y \in Connection /\ y.readCh = x.readCh /\ y.fed = x.fed
               /\ SameLife(x, y) /\ SameClose(x, y) /\ y.seq = x.seq
               /\ Handled(y) = Handled(x)
<1> DEFINE b == x.readBuf
<1>0. x.got \in Seq(Nat) /\ b \in Seq(Nat) /\ Len(b) \in Nat /\ ReadSize \in Nat
  BY Fields, MuxAssumption
<1>1. PICK n \in Nat : n = AtMost(Len(b), ReadSize) /\ n <= Len(b)
  BY <1>0 DEF AtMost
<1>2. PICK t \in Seq(Nat) : t = Take(b, n)
  <2>1. Take(b, n) \in Seq(Nat)
    BY <1>0, <1>1 DEF Take
  <2> QED
    BY <2>1
<1>3. PICK r \in Seq(Nat) : r = Rest(b, n)
  <2>1. Rest(b, n) \in Seq(Nat)
    BY <1>0, <1>1 DEF Rest
  <2> QED
    BY <2>1
<1>4. t \o r = b
  <2>1. n \in 0 .. Len(b) /\ 1 \in 1 .. Len(b) + 1 /\ Len(b) \in n .. Len(b) /\ 1 - 1 = 0
    BY <1>0, <1>1
  <2>2. SubSeq(b, 1, n) \o SubSeq(b, n + 1, Len(b)) = SubSeq(b, 1, Len(b))
    BY <1>0, <2>1, ConcatAdjacentSubSeq
  <2>3. SubSeq(b, 1, Len(b)) = b
    BY <1>0, SubSeqFull
  <2> QED
    BY <1>2, <1>3, <2>2, <2>3 DEF Take, Rest
<1>5. PICK g \in Seq(Nat) : g = x.got \o t
  <2>1. x.got \o t \in Seq(Nat)
    BY <1>0, <1>2
  <2> QED
    BY <2>1
<1>6. g \o r = x.got \o b
  <2>1. PICK a \in Seq(Nat) : a = x.got
    BY <1>0
  <2>2. (a \o t) \o r = a \o (t \o r)
    BY ConcatNat
  <2> QED
    BY <1>4, <1>5, <2>1, <2>2
<1> DEFINE y == [x EXCEPT !.got = g, !.readBuf = r]
<1>7. HandOut(x, b) = y
  BY <1>1, <1>2, <1>3, <1>5 DEF HandOut
<1>8. y \in Connection /\ y.readCh = x.readCh /\ y.fed = x.fed /\ y.got = g /\ y.readBuf = r
      /\ SameLife(x, y) /\ SameClose(x, y) /\ y.seq = x.seq
  BY DEF Connection, SameLife, SameClose
<1> HIDE DEF y
<1> QED
  BY <1>6, <1>7, <1>8 DEF Handled

\* Read returns bytes of readBuf.
LEMMA HandsOut ==
    ASSUME ConnOK, NEW e \in End, NEW c \in Conns,
           conn' = [conn EXCEPT ![e][c] = HandOut(conn[e][c], conn[e][c].readBuf)]
    PROVE  LET x == conn[e][c]
               y == conn'[e][c]
           IN  /\ ConnOK' /\ OnlyConn(e, c)
               /\ SameLife(x, y) /\ SameClose(x, y) /\ y.seq = x.seq
               /\ y.readCh = x.readCh /\ y.fed = x.fed /\ Handled(y) = Handled(x)
<1>1. conn[e][c] \in Connection /\ Len(conn[e][c].readCh) <= ReadCap
  BY DEF ConnOK
<1>2. PICK y : y = HandOut(conn[e][c], conn[e][c].readBuf)
  OBVIOUS
<1>3. /\ y \in Connection /\ y.readCh = conn[e][c].readCh /\ y.fed = conn[e][c].fed
      /\ SameLife(conn[e][c], y) /\ SameClose(conn[e][c], y) /\ y.seq = conn[e][c].seq
      /\ Handled(y) = Handled(conn[e][c])
  BY <1>1, <1>2, HandOutFacts
<1>4. conn' = [conn EXCEPT ![e][c] = y] /\ Len(y.readCh) <= ReadCap
  BY <1>1, <1>2, <1>3
<1>5. ConnOK' /\ conn'[e][c] = y /\ OnlyConn(e, c)
  BY <1>3, <1>4, BecomesFacts
<1> QED
  BY <1>3, <1>5

\* Read takes a frame from readCh.
LEMMA ReceiveFields ==
    ASSUME ConnOK, NEW e \in End, NEW c \in Conns, ReceiveOne(e, c)
    PROVE  LET x == conn[e][c]
               y == conn'[e][c]
           IN  /\ ConnOK' /\ OnlyConn(e, c)
               /\ SameLife(x, y) /\ SameClose(x, y) /\ y.seq = x.seq
               /\ x.readCh # <<>> /\ y.readCh = Tail(x.readCh) /\ y.fed = x.fed
               /\ Handled(y) = Handled(x) \o Head(x.readCh)
<1> DEFINE x == conn[e][c]
<1>1. x \in Connection /\ Len(x.readCh) <= ReadCap /\ x.readCh # <<>>
  BY DEF ConnOK, ReceiveOne
<1>2. x.readCh \in Seq(Seq(Nat)) /\ x.got \in Seq(Nat) /\ x.readBuf \in Seq(Nat)
  BY <1>1, Fields
<1>3. PICK h \in Seq(Nat) : h = Head(x.readCh)
  BY <1>1, <1>2
<1>4. PICK r \in Seq(Seq(Nat)) : r = Tail(x.readCh) /\ Len(r) <= ReadCap
  <2>1. Tail(x.readCh) \in Seq(Seq(Nat)) /\ Len(Tail(x.readCh)) = Len(x.readCh) - 1
        /\ Len(x.readCh) \in Nat
    BY <1>1, <1>2
  <2> QED
    <3>1. Len(x.readCh) - 1 <= ReadCap
      BY <1>1, <2>1, MuxAssumption
    <3> QED
      BY <2>1, <3>1
<1>5. PICK b \in Seq(Nat) : b = x.readBuf \o h
  <2>1. x.readBuf \o h \in Seq(Nat)
    BY <1>2, <1>3
  <2> QED
    BY <2>1
<1> DEFINE y == [x EXCEPT !.readCh = r, !.readBuf = b]
<1>6. y \in Connection /\ y.readCh = r /\ y.fed = x.fed /\ y.got = x.got /\ y.readBuf = b
      /\ SameLife(x, y) /\ SameClose(x, y) /\ y.seq = x.seq
  BY <1>1 DEF Connection, SameLife, SameClose
<1>7. conn' = [conn EXCEPT ![e][c] = y]
  <2>1. conn' = [conn EXCEPT ![e][c].readCh = r, ![e][c].readBuf = b]
    BY <1>3, <1>4, <1>5 DEF ReceiveOne
  <2>2. conn \in [End -> [Conns -> Connection]]
    BY DEF ConnOK
  <2> QED
    BY <2>1, <2>2 DEF Connection
<1> HIDE DEF y
<1>8. ConnOK' /\ conn'[e][c] = y /\ OnlyConn(e, c)
  BY <1>4, <1>6, <1>7, BecomesFacts
<1>9. x.got \o b = (x.got \o x.readBuf) \o h
  <2>1. (x.got \o x.readBuf) \o h = x.got \o (x.readBuf \o h)
    BY <1>2, ConcatNat
  <2> QED
    BY <1>5, <2>1
<1> QED
  BY <1>1, <1>3, <1>4, <1>6, <1>8, <1>9 DEF Handled

\* Connections stay Connections, and readCh within its capacity.
LEMMA ConnStep ==
    ASSUME TypeInv, [Next]_vars PROVE ConnOK'
<1> USE DEF TypeInv
<1>1. ASSUME NEW c \in Conns, Dial(c) PROVE ConnOK'
  BY <1>1, DialFields
<1>2. ASSUME NEW c \in Conns, DialReturns(c) PROVE ConnOK'
  BY <1>2 DEF DialReturns, ConnOK
<1>3. ASSUME NEW c \in Conns, DialFails(c) PROVE ConnOK'
  BY <1>3 DEF DialFails, ConnOK
<1>4. ASSUME NEW e \in End, Accept(e) PROVE ConnOK'
  BY <1>4 DEF Accept, ConnOK
<1>5. ASSUME NEW e \in End, NEW c \in Conns, StartRead(e, c) PROVE ConnOK'
  <2>1. CASE conn' = [conn EXCEPT ![e][c] = HandOut(conn[e][c], conn[e][c].readBuf)]
    BY <2>1, HandsOut
  <2>2. CASE UNCHANGED conn
    BY <2>2 DEF ConnOK
  <2> QED
    BY <1>5, <2>1, <2>2 DEF StartRead
<1>6. ASSUME NEW e \in End, NEW c \in Conns, ReceiveOne(e, c) PROVE ConnOK'
  BY <1>6, ReceiveFields
<1>7. ASSUME NEW e \in End, NEW c \in Conns, FinishRead(e, c) PROVE ConnOK'
  BY <1>7, HandsOut DEF FinishRead
<1>8. ASSUME NEW e \in End, NEW c \in Conns, ReadEof(e, c) PROVE ConnOK'
  BY <1>8 DEF ReadEof, ConnOK
<1>9. ASSUME NEW e \in End, NEW c \in Conns, StartWrite(e, c) PROVE ConnOK'
  BY <1>9 DEF StartWrite, ConnOK
<1>10. ASSUME NEW e \in End, NEW c \in Conns, WriteFrame(e, c) PROVE ConnOK'
  BY <1>10, WriteFields
<1>11. ASSUME NEW e \in End, NEW c \in Conns, AppClose(e, c) PROVE ConnOK'
  BY <1>11, SwapFields DEF AppClose
<1>12. ASSUME NEW e \in End, StartShutdown(e) PROVE ConnOK'
  BY <1>12 DEF StartShutdown, ConnOK
<1>13. ASSUME NEW e \in End, RangeNext(e) PROVE ConnOK'
  <2>1. PICK c \in Conns : Swap(Main(e), e, c, "testCh", "range")
    BY <1>13 DEF RangeNext, MapsOK
  <2> QED
    BY <2>1, SwapFields
<1>14. ASSUME NEW e \in End, CloseAcceptCh(e) PROVE ConnOK'
  BY <1>14 DEF CloseAcceptCh, ConnOK
<1>15. ASSUME NEW e \in End,
              TestCh(Main(e), e, target[e]["main"], "testCh", "closeCh", "sendFin")
       PROVE  ConnOK'
  BY <1>15 DEF TestCh, ConnOK
<1>16. ASSUME NEW e \in End, CloseCh(Main(e), e, target[e]["main"], "closeCh", "sendFin")
       PROVE  ConnOK'
  <2>1. target[e]["main"] \in Conns
    BY <1>16 DEF CloseCh, At, TargetOK, MainWorks, Claimed
  <2> QED
    BY <1>16, <2>1, CloseChFields
<1>17. ASSUME NEW e \in End, SendFin(Main(e), e, target[e]["main"]) PROVE ConnOK'
  BY <1>17 DEF SendFin, ConnOK
<1>18. ASSUME NEW e \in End, RemoveConnection(Main(e), e, target[e]["main"], "range")
       PROVE  ConnOK'
  BY <1>18 DEF RemoveConnection, ConnOK
<1>19. ASSUME NEW e \in End, NEW c \in Conns,
              TestCh(Closer(e, c), e, c, "testCh", "closeCh", "sendFin")
       PROVE  ConnOK'
  BY <1>19 DEF TestCh, ConnOK
<1>20. ASSUME NEW e \in End, NEW c \in Conns,
              CloseCh(Closer(e, c), e, c, "closeCh", "sendFin")
       PROVE  ConnOK'
  BY <1>20, CloseChFields
<1>21. ASSUME NEW e \in End, NEW c \in Conns, SendFin(Closer(e, c), e, c) PROVE ConnOK'
  BY <1>21 DEF SendFin, ConnOK
<1>22. ASSUME NEW e \in End, NEW c \in Conns, RemoveConnection(Closer(e, c), e, c, "done")
       PROVE  ConnOK'
  BY <1>22 DEF RemoveConnection, ConnOK
<1>23. ASSUME NEW e \in End, SendSynAck(e) PROVE ConnOK'
  BY <1>23 DEF SendSynAck, ConnOK
<1>24. ASSUME NEW e \in End, Queue(e) PROVE ConnOK'
  BY <1>24 DEF Queue, ConnOK
<1>25. ASSUME NEW e \in End,
              TestCh(Recv(e), e, target[e]["recv"], "finTest", "finClose", "finAck")
       PROVE  ConnOK'
  BY <1>25 DEF TestCh, ConnOK
<1>26. ASSUME NEW e \in End, CloseCh(Recv(e), e, target[e]["recv"], "finClose", "finAck")
       PROVE  ConnOK'
  <2>1. target[e]["recv"] \in Conns
    BY <1>26 DEF CloseCh, At, TargetOK
  <2> QED
    BY <1>26, <2>1, CloseChFields
<1>27. ASSUME NEW e \in End, FinAck(e) PROVE ConnOK'
  BY <1>27 DEF FinAck, ConnOK
<1>28. ASSUME NEW e \in End, NEW c \in Conns, NEW w \in net[e], HandleSyn(e, c, w) PROVE ConnOK'
  BY <1>28, SynFields
<1>29. ASSUME NEW e \in End, NEW c \in Conns, NEW w \in net[e], HandleSynAck(e, c, w) PROVE ConnOK'
  BY <1>29, SynAckFields
<1>30. ASSUME NEW e \in End, NEW c \in Conns, NEW w \in net[e], HandleData(e, c, w) PROVE ConnOK'
  BY <1>30, DataFields
<1>31. ASSUME NEW e \in End, NEW c \in Conns, NEW w \in net[e], HandleFin(e, c, w) PROVE ConnOK'
  <2>1. CASE Swap(Recv(e), e, c, "finTest", "idle")
    BY <2>1, SwapFields
  <2>2. CASE UNCHANGED conn
    BY <2>2 DEF ConnOK
  <2> QED
    BY <1>31, <2>1, <2>2 DEF HandleFin
<1>32. ASSUME NEW e \in End, NEW c \in Conns, NEW w \in net[e], HandleFinAck(e, c, w) PROVE ConnOK'
  BY <1>32 DEF HandleFinAck, ConnOK
<1>33. CASE UNCHANGED vars
  BY <1>33 DEF vars, ConnOK
<1> QED
  BY NextCases, <1>1, <1>2, <1>3, <1>4, <1>5, <1>6, <1>7, <1>8, <1>9, <1>10, <1>11, <1>12,
     <1>13, <1>14, <1>15, <1>16, <1>17, <1>18, <1>19, <1>20, <1>21, <1>22, <1>23, <1>24,
     <1>25, <1>26, <1>27, <1>28, <1>29, <1>30, <1>31, <1>32, <1>33

\* What is on the wire are frames of the protocol.
LEMMA NetStep ==
    ASSUME TypeInv, [Next]_vars PROVE NetOK' /\ faults' \in 0 .. MaxFaults
<1> USE DEF TypeInv
<1>1. ASSUME NEW c \in Conns, Dial(c) PROVE NetOK' /\ faults' \in 0 .. MaxFaults
  BY <1>1, DialNet
<1>2. ASSUME NEW c \in Conns, DialReturns(c) PROVE NetOK' /\ faults' \in 0 .. MaxFaults
  BY <1>2 DEF DialReturns, NetOK, IsWire, MapsOK
<1>3. ASSUME NEW c \in Conns, DialFails(c) PROVE NetOK' /\ faults' \in 0 .. MaxFaults
  BY <1>3 DEF DialFails, NetOK, IsWire, MapsOK
<1>4. ASSUME NEW e \in End, Accept(e) PROVE NetOK' /\ faults' \in 0 .. MaxFaults
  BY <1>4 DEF Accept, NetOK, IsWire, MapsOK
<1>5. ASSUME NEW e \in End, NEW c \in Conns, StartRead(e, c)
      PROVE  NetOK' /\ faults' \in 0 .. MaxFaults
  BY <1>5 DEF StartRead, NetOK, IsWire, MapsOK
<1>6. ASSUME NEW e \in End, NEW c \in Conns, ReceiveOne(e, c)
      PROVE  NetOK' /\ faults' \in 0 .. MaxFaults
  BY <1>6 DEF ReceiveOne, NetOK, IsWire, MapsOK
<1>7. ASSUME NEW e \in End, NEW c \in Conns, FinishRead(e, c)
      PROVE  NetOK' /\ faults' \in 0 .. MaxFaults
  BY <1>7 DEF FinishRead, NetOK, IsWire, MapsOK
<1>8. ASSUME NEW e \in End, NEW c \in Conns, ReadEof(e, c)
      PROVE  NetOK' /\ faults' \in 0 .. MaxFaults
  BY <1>8 DEF ReadEof, NetOK, IsWire, MapsOK
<1>9. ASSUME NEW e \in End, NEW c \in Conns, StartWrite(e, c)
      PROVE  NetOK' /\ faults' \in 0 .. MaxFaults
  BY <1>9 DEF StartWrite, NetOK, IsWire, MapsOK
<1>10. ASSUME NEW e \in End, NEW c \in Conns, WriteFrame(e, c)
       PROVE  NetOK' /\ faults' \in 0 .. MaxFaults
  BY <1>10, WriteNet
<1>11. ASSUME NEW e \in End, NEW c \in Conns, AppClose(e, c)
       PROVE  NetOK' /\ faults' \in 0 .. MaxFaults
  BY <1>11 DEF AppClose, NetOK, IsWire, MapsOK
<1>12. ASSUME NEW e \in End, StartShutdown(e) PROVE NetOK' /\ faults' \in 0 .. MaxFaults
  BY <1>12 DEF StartShutdown, NetOK, IsWire, MapsOK
<1>13. ASSUME NEW e \in End, RangeNext(e) PROVE NetOK' /\ faults' \in 0 .. MaxFaults
  BY <1>13 DEF RangeNext, NetOK, IsWire, MapsOK
<1>14. ASSUME NEW e \in End, CloseAcceptCh(e) PROVE NetOK' /\ faults' \in 0 .. MaxFaults
  BY <1>14 DEF CloseAcceptCh, NetOK, IsWire, MapsOK
<1>15. ASSUME NEW e \in End,
              TestCh(Main(e), e, target[e]["main"], "testCh", "closeCh", "sendFin")
       PROVE  NetOK' /\ faults' \in 0 .. MaxFaults
  BY <1>15 DEF TestCh, NetOK, IsWire, MapsOK
<1>16. ASSUME NEW e \in End, CloseCh(Main(e), e, target[e]["main"], "closeCh", "sendFin")
       PROVE  NetOK' /\ faults' \in 0 .. MaxFaults
  BY <1>16 DEF CloseCh, NetOK, IsWire, MapsOK
<1>17. ASSUME NEW e \in End, SendFin(Main(e), e, target[e]["main"])
       PROVE  NetOK' /\ faults' \in 0 .. MaxFaults
  <2>1. target[e]["main"] \in Conns
    BY <1>17 DEF SendFin, At, TargetOK, MainWorks, Claimed
  <2> QED
    BY <1>17, <2>1, SendFinNet
<1>18. ASSUME NEW e \in End, RemoveConnection(Main(e), e, target[e]["main"], "range")
       PROVE  NetOK' /\ faults' \in 0 .. MaxFaults
  BY <1>18 DEF RemoveConnection, NetOK, IsWire, MapsOK
<1>19. ASSUME NEW e \in End, NEW c \in Conns,
              TestCh(Closer(e, c), e, c, "testCh", "closeCh", "sendFin")
       PROVE  NetOK' /\ faults' \in 0 .. MaxFaults
  BY <1>19 DEF TestCh, NetOK, IsWire, MapsOK
<1>20. ASSUME NEW e \in End, NEW c \in Conns,
              CloseCh(Closer(e, c), e, c, "closeCh", "sendFin")
       PROVE  NetOK' /\ faults' \in 0 .. MaxFaults
  BY <1>20 DEF CloseCh, NetOK, IsWire, MapsOK
<1>21. ASSUME NEW e \in End, NEW c \in Conns, SendFin(Closer(e, c), e, c)
       PROVE  NetOK' /\ faults' \in 0 .. MaxFaults
  BY <1>21, SendFinNet
<1>22. ASSUME NEW e \in End, NEW c \in Conns, RemoveConnection(Closer(e, c), e, c, "done")
       PROVE  NetOK' /\ faults' \in 0 .. MaxFaults
  BY <1>22 DEF RemoveConnection, NetOK, IsWire, MapsOK
<1>23. ASSUME NEW e \in End, SendSynAck(e) PROVE NetOK' /\ faults' \in 0 .. MaxFaults
  BY <1>23, SynAckNet
<1>24. ASSUME NEW e \in End, Queue(e) PROVE NetOK' /\ faults' \in 0 .. MaxFaults
  BY <1>24 DEF Queue, NetOK, IsWire, MapsOK
<1>25. ASSUME NEW e \in End,
              TestCh(Recv(e), e, target[e]["recv"], "finTest", "finClose", "finAck")
       PROVE  NetOK' /\ faults' \in 0 .. MaxFaults
  BY <1>25 DEF TestCh, NetOK, IsWire, MapsOK
<1>26. ASSUME NEW e \in End, CloseCh(Recv(e), e, target[e]["recv"], "finClose", "finAck")
       PROVE  NetOK' /\ faults' \in 0 .. MaxFaults
  BY <1>26 DEF CloseCh, NetOK, IsWire, MapsOK
<1>27. ASSUME NEW e \in End, FinAck(e) PROVE NetOK' /\ faults' \in 0 .. MaxFaults
  BY <1>27, FinAckNet
<1>28. ASSUME NEW e \in End, NEW c \in Conns, NEW w \in net[e], HandleSyn(e, c, w)
       PROVE  NetOK' /\ faults' \in 0 .. MaxFaults
  BY <1>28, ArrivesFacts DEF HandleSyn, MapsOK
<1>29. ASSUME NEW e \in End, NEW c \in Conns, NEW w \in net[e], HandleSynAck(e, c, w)
       PROVE  NetOK' /\ faults' \in 0 .. MaxFaults
  BY <1>29, ArrivesFacts DEF HandleSynAck, MapsOK
<1>30. ASSUME NEW e \in End, NEW c \in Conns, NEW w \in net[e], HandleData(e, c, w)
       PROVE  NetOK' /\ faults' \in 0 .. MaxFaults
  BY <1>30, ArrivesFacts DEF HandleData, MapsOK
<1>31. ASSUME NEW e \in End, NEW c \in Conns, NEW w \in net[e], HandleFin(e, c, w)
       PROVE  NetOK' /\ faults' \in 0 .. MaxFaults
  BY <1>31, ArrivesFacts DEF HandleFin, MapsOK
<1>32. ASSUME NEW e \in End, NEW c \in Conns, NEW w \in net[e], HandleFinAck(e, c, w)
       PROVE  NetOK' /\ faults' \in 0 .. MaxFaults
  BY <1>32, ArrivesFacts DEF HandleFinAck, MapsOK
<1>33. CASE UNCHANGED vars
  BY <1>33 DEF vars, NetOK, IsWire, MapsOK
<1> QED
  BY NextCases, <1>1, <1>2, <1>3, <1>4, <1>5, <1>6, <1>7, <1>8, <1>9, <1>10, <1>11, <1>12,
     <1>13, <1>14, <1>15, <1>16, <1>17, <1>18, <1>19, <1>20, <1>21, <1>22, <1>23, <1>24,
     <1>25, <1>26, <1>27, <1>28, <1>29, <1>30, <1>31, <1>32, <1>33

\* The maps and channels keep their types; closeCh is never closed twice.
LEMMA MapsStep ==
    ASSUME TypeInv, \A e \in End, c \in Conns : ClaimOK(e, c), [Next]_vars PROVE MapsOK'
<1>0. faults' \in 0 .. MaxFaults
  BY NetStep
<1> USE <1>0 DEF TypeInv, MapsOK
<1>1. ASSUME NEW c \in Conns, Dial(c) PROVE MapsOK'
  BY <1>1, EndFacts DEF Dial
<1>2. ASSUME NEW c \in Conns, DialReturns(c) PROVE MapsOK'
  BY <1>2 DEF DialReturns
<1>3. ASSUME NEW c \in Conns, DialFails(c) PROVE MapsOK'
  BY <1>3, EndFacts DEF DialFails
<1>4. ASSUME NEW e \in End, Accept(e) PROVE MapsOK'
  <2>1. /\ Tail(acceptCh[e]) \in Seq(Conns) /\ Len(Tail(acceptCh[e])) <= AcceptCap
    <3>1. acceptCh[e] # <<>>
      BY <1>4 DEF Accept
    <3>2. /\ Tail(acceptCh[e]) \in Seq(Conns) /\ Len(acceptCh[e]) \in Nat
          /\ Len(Tail(acceptCh[e])) = Len(acceptCh[e]) - 1
      BY <3>1, AcceptedConn
    <3>3. Len(acceptCh[e]) <= AcceptCap /\ AcceptCap \in Nat
      BY MuxAssumption
    <3> QED
      BY <3>2, <3>3
  <2> QED
    BY <1>4, <2>1 DEF Accept
<1>5. ASSUME NEW e \in End, NEW c \in Conns, StartRead(e, c) PROVE MapsOK'
  BY <1>5 DEF StartRead
<1>6. ASSUME NEW e \in End, NEW c \in Conns, ReceiveOne(e, c) PROVE MapsOK'
  BY <1>6 DEF ReceiveOne
<1>7. ASSUME NEW e \in End, NEW c \in Conns, FinishRead(e, c) PROVE MapsOK'
  BY <1>7 DEF FinishRead
<1>8. ASSUME NEW e \in End, NEW c \in Conns, ReadEof(e, c) PROVE MapsOK'
  BY <1>8 DEF ReadEof
<1>9. ASSUME NEW e \in End, NEW c \in Conns, StartWrite(e, c) PROVE MapsOK'
  BY <1>9 DEF StartWrite
<1>10. ASSUME NEW e \in End, NEW c \in Conns, WriteFrame(e, c) PROVE MapsOK'
  BY <1>10 DEF WriteFrame
<1>11. ASSUME NEW e \in End, NEW c \in Conns, AppClose(e, c) PROVE MapsOK'
  BY <1>11 DEF AppClose
<1>12. ASSUME NEW e \in End, StartShutdown(e) PROVE MapsOK'
  BY <1>12 DEF StartShutdown
<1>13. ASSUME NEW e \in End, RangeNext(e) PROVE MapsOK'
  BY <1>13 DEF RangeNext
<1>14. ASSUME NEW e \in End, CloseAcceptCh(e) PROVE MapsOK'
  BY <1>14 DEF CloseAcceptCh
<1>15. ASSUME NEW e \in End,
              TestCh(Main(e), e, target[e]["main"], "testCh", "closeCh", "sendFin")
       PROVE  MapsOK'
  BY <1>15 DEF TestCh
<1>16. ASSUME NEW e \in End, CloseCh(Main(e), e, target[e]["main"], "closeCh", "sendFin")
       PROVE  MapsOK'
  <2>1. target[e]["main"] \in Conns
    BY <1>16 DEF CloseCh, At, TargetOK, MainWorks, Claimed
  <2>2. panicked' = {}
    BY <1>16, <2>1 DEF ClaimOK, MainClaims, CloseCh, At, Claimed, FinClaimed
  <2> QED
    BY <1>16, <2>2 DEF CloseCh
<1>17. ASSUME NEW e \in End, SendFin(Main(e), e, target[e]["main"]) PROVE MapsOK'
  BY <1>17 DEF SendFin
<1>18. ASSUME NEW e \in End, RemoveConnection(Main(e), e, target[e]["main"], "range")
       PROVE  MapsOK'
  BY <1>18 DEF RemoveConnection
<1>19. ASSUME NEW e \in End, NEW c \in Conns,
              TestCh(Closer(e, c), e, c, "testCh", "closeCh", "sendFin")
       PROVE  MapsOK'
  BY <1>19 DEF TestCh
<1>20. ASSUME NEW e \in End, NEW c \in Conns,
              CloseCh(Closer(e, c), e, c, "closeCh", "sendFin")
       PROVE  MapsOK'
  <2>1. c \in Conns
    BY <1>20
  <2>2. panicked' = {}
    BY <1>20, <2>1 DEF ClaimOK, CloserClaims, CloseCh, At, Claimed, FinClaimed
  <2> QED
    BY <1>20, <2>2 DEF CloseCh
<1>21. ASSUME NEW e \in End, NEW c \in Conns, SendFin(Closer(e, c), e, c) PROVE MapsOK'
  BY <1>21 DEF SendFin
<1>22. ASSUME NEW e \in End, NEW c \in Conns, RemoveConnection(Closer(e, c), e, c, "done")
       PROVE  MapsOK'
  BY <1>22 DEF RemoveConnection
<1>23. ASSUME NEW e \in End, SendSynAck(e) PROVE MapsOK'
  BY <1>23 DEF SendSynAck
<1>24. ASSUME NEW e \in End, Queue(e) PROVE MapsOK'
  <2>1. target[e]["recv"] \in Conns
    BY <1>24 DEF Queue, At, TargetOK
  <2>2. /\ acceptCh[e] \in Seq(Conns) /\ Len(acceptCh[e]) \in Nat /\ AcceptCap \in Nat
        /\ Len(acceptCh[e]) <= AcceptCap
    BY MuxAssumption
  <2>3. PICK q : acceptCh' = [acceptCh EXCEPT ![e] = q]
                 /\ (q = acceptCh[e] \/ (Len(acceptCh[e]) # AcceptCap
                                         /\ q = Append(acceptCh[e], target[e]["recv"])))
    BY <1>24 DEF Queue
  <2>4. q \in Seq(Conns) /\ Len(q) <= AcceptCap
    <3>1. CASE q = acceptCh[e]
      BY <2>2, <3>1
    <3>2. CASE Len(acceptCh[e]) # AcceptCap /\ q = Append(acceptCh[e], target[e]["recv"])
      <4>1. q \in Seq(Conns) /\ Len(q) = Len(acceptCh[e]) + 1
        BY <2>1, <2>2, <3>2
      <4> QED
        BY <2>2, <3>2, <4>1
    <3> QED
      BY <2>3, <3>1, <3>2
  <2>5. panicked' \subseteq {"acceptCh"}
    BY <1>24 DEF Queue
  <2>6. acceptCh' \in [End -> Seq(Conns)] /\ \A d \in End : Len(acceptCh'[d]) <= AcceptCap
    BY <2>3, <2>4
  <2> QED
    BY <1>24, <2>5, <2>6 DEF Queue
<1>25. ASSUME NEW e \in End,
              TestCh(Recv(e), e, target[e]["recv"], "finTest", "finClose", "finAck")
       PROVE  MapsOK'
  BY <1>25 DEF TestCh
<1>26. ASSUME NEW e \in End, CloseCh(Recv(e), e, target[e]["recv"], "finClose", "finAck")
       PROVE  MapsOK'
  <2>1. target[e]["recv"] \in Conns
    BY <1>26 DEF CloseCh, At, TargetOK
  <2>2. panicked' = {}
    BY <1>26, <2>1 DEF ClaimOK, RecvClaims, CloseCh, At, Claimed, FinClaimed
  <2> QED
    BY <1>26, <2>2 DEF CloseCh
<1>27. ASSUME NEW e \in End, FinAck(e) PROVE MapsOK'
  BY <1>27 DEF FinAck
<1>28. ASSUME NEW e \in End, NEW c \in Conns, NEW w \in net[e], HandleSyn(e, c, w) PROVE MapsOK'
  BY <1>28 DEF HandleSyn
<1>29. ASSUME NEW e \in End, NEW c \in Conns, NEW w \in net[e], HandleSynAck(e, c, w) PROVE MapsOK'
  BY <1>29 DEF HandleSynAck
<1>30. ASSUME NEW e \in End, NEW c \in Conns, NEW w \in net[e], HandleData(e, c, w) PROVE MapsOK'
  BY <1>30 DEF HandleData
<1>31. ASSUME NEW e \in End, NEW c \in Conns, NEW w \in net[e], HandleFin(e, c, w) PROVE MapsOK'
  BY <1>31 DEF HandleFin
<1>32. ASSUME NEW e \in End, NEW c \in Conns, NEW w \in net[e], HandleFinAck(e, c, w) PROVE MapsOK'
  BY <1>32 DEF HandleFinAck
<1>33. CASE UNCHANGED vars
  BY <1>33 DEF vars
<1> QED
  BY NextCases, <1>1, <1>2, <1>3, <1>4, <1>5, <1>6, <1>7, <1>8, <1>9, <1>10, <1>11, <1>12,
     <1>13, <1>14, <1>15, <1>16, <1>17, <1>18, <1>19, <1>20, <1>21, <1>22, <1>23, <1>24,
     <1>25, <1>26, <1>27, <1>28, <1>29, <1>30, <1>31, <1>32, <1>33

-----------------------------------------------------------------------------
(***************************************************************************)
(* Who may close closeCh.                                                  *)
(***************************************************************************)

\* A SYN comes to the server only, for a Connection that is not there.
LEMMA SynIsNew ==
    ASSUME TypeInv, ShakeInv, NEW e \in End, NEW c \in Conns, BornOK(e, c),
           NEW w \in net[e], HandleSyn(e, c, w)
    PROVE  /\ e = "server" /\ ~conn[e][c].born /\ conn[e][c] = Unborn
           /\ c \notin connections[e]
           /\ \A i \in 1 .. Len(acceptCh[e]) : acceptCh[e][i] # c
           /\ pc[Reader(e, c)] = "off" /\ pc[Writer(e, c)] = "off" /\ pc[Closer(e, c)] = "off"
           /\ pc[Recv(e)] = "idle" /\ (pc[Main(e)] \notin MainWorks \/ target[e]["main"] # c)
<1>1. w[1] = FrameSyn /\ w[2] = c /\ pc[Recv(e)] = "idle"
  BY ArrivesFacts DEF HandleSyn, Arrives, At, TypeInv
<1>3. e = "server"
  BY <1>1, EndFacts DEF ShakeInv, OneWay
<1>4. ~conn[e][c].born
  BY <1>1, <1>3 DEF ShakeInv, SynOK
<1> QED
  BY <1>1, <1>3, <1>4 DEF BornOK

\* Reading moves bytes and changes nothing else.
LEMMA ReadingKeeps ==
    ASSUME ConnOK, NEW e \in End, NEW c \in Conns,
           StartRead(e, c) \/ ReceiveOne(e, c) \/ FinishRead(e, c)
    PROVE  \A d \in End, b \in Conns :
             /\ SameLife(conn[d][b], conn'[d][b]) /\ SameClose(conn[d][b], conn'[d][b])
             /\ conn'[d][b].seq = conn[d][b].seq
<1>1. CASE UNCHANGED conn
  BY <1>1 DEF SameLife, SameClose
<1>2. CASE conn' = [conn EXCEPT ![e][c] = HandOut(conn[e][c], conn[e][c].readBuf)]
  <2>1. /\ OnlyConn(e, c) /\ SameLife(conn[e][c], conn'[e][c])
        /\ SameClose(conn[e][c], conn'[e][c]) /\ conn'[e][c].seq = conn[e][c].seq
    BY <1>2, HandsOut
  <2> QED
    BY <2>1 DEF OnlyConn, SameLife, SameClose
<1>3. CASE ReceiveOne(e, c)
  <2>1. /\ OnlyConn(e, c) /\ SameLife(conn[e][c], conn'[e][c])
        /\ SameClose(conn[e][c], conn'[e][c]) /\ conn'[e][c].seq = conn[e][c].seq
    BY <1>3, ReceiveFields
  <2> QED
    BY <2>1 DEF OnlyConn, SameLife, SameClose
<1> QED
  BY <1>1, <1>2, <1>3 DEF StartRead, FinishRead

\* Whoever swaps closed is the only one at closeCh.
LEMMA ClaimStep ==
    ASSUME TypeInv, ShakeInv, NEW d \in End, NEW b \in Conns,
           \A e \in End, c \in Conns : BornOK(e, c) /\ ClaimOK(e, c), [Next]_vars
    PROVE  ClaimOK(d, b)'
<1>0. ClaimOK(d, b)
  OBVIOUS
<1> USE <1>0, ProcNames, KindsDiffer, NamesDiffer
        DEF TypeInv, At, Goto, ClaimOK, CloserClaims, MainClaims, RecvClaims, Claimed,
            FinClaimed
<1>1. ASSUME NEW c \in Conns, Dial(c) PROVE ClaimOK(d, b)'
  <2>1. conn'[d][b].closed = conn[d][b].closed /\ conn'[d][b].closeCh = conn[d][b].closeCh
    BY <1>1, DialFields DEF OnlyConn, SameClose
  <2> QED
    BY <1>1, <2>1 DEF Dial, PcOK
<1>2. ASSUME NEW c \in Conns, DialReturns(c) PROVE ClaimOK(d, b)'
  <2>1. pc' = Use("client", c, "up") /\ PcOK /\ target' = target /\ conn' = conn
    BY <1>2 DEF DialReturns
  <2> QED
    BY <2>1, UseFacts, EndFacts
<1>3. ASSUME NEW c \in Conns, DialFails(c) PROVE ClaimOK(d, b)'
  BY <1>3 DEF DialFails, PcOK
<1>4. ASSUME NEW e \in End, Accept(e) PROVE ClaimOK(d, b)'
  <2>1. PICK c \in Conns : pc' = Use(e, c, "up") /\ PcOK /\ target' = target /\ conn' = conn
    BY <1>4, AcceptedConn DEF Accept
  <2> QED
    BY <2>1, UseFacts, EndFacts
<1>5. ASSUME NEW e \in End, NEW c \in Conns, StartRead(e, c) PROVE ClaimOK(d, b)'
  <2>1. conn'[d][b].closed = conn[d][b].closed /\ conn'[d][b].closeCh = conn[d][b].closeCh
    BY <1>5, ReadingKeeps DEF SameClose
  <2>2. target' = target /\ (pc' = pc \/ \E l : pc' = [pc EXCEPT ![Reader(e, c)] = l])
    BY <1>5 DEF StartRead
  <2> QED
    BY <2>1, <2>2 DEF PcOK
<1>6. ASSUME NEW e \in End, NEW c \in Conns, ReceiveOne(e, c) PROVE ClaimOK(d, b)'
  <2>1. conn'[d][b].closed = conn[d][b].closed /\ conn'[d][b].closeCh = conn[d][b].closeCh
    BY <1>6, ReadingKeeps DEF SameClose
  <2>2. target' = target /\ (\E l : pc' = [pc EXCEPT ![Reader(e, c)] = l])
    BY <1>6 DEF ReceiveOne
  <2> QED
    BY <2>1, <2>2 DEF PcOK
<1>7. ASSUME NEW e \in End, NEW c \in Conns, FinishRead(e, c) PROVE ClaimOK(d, b)'
  <2>1. conn'[d][b].closed = conn[d][b].closed /\ conn'[d][b].closeCh = conn[d][b].closeCh
    BY <1>7, ReadingKeeps DEF SameClose
  <2>2. target' = target /\ pc' = [pc EXCEPT ![Reader(e, c)] = "idle"]
    BY <1>7 DEF FinishRead
  <2> QED
    BY <2>1, <2>2 DEF PcOK
<1>8. ASSUME NEW e \in End, NEW c \in Conns, ReadEof(e, c) PROVE ClaimOK(d, b)'
  BY <1>8 DEF ReadEof, PcOK
<1>9. ASSUME NEW e \in End, NEW c \in Conns, StartWrite(e, c) PROVE ClaimOK(d, b)'
  BY <1>9 DEF StartWrite, PcOK
<1>10. ASSUME NEW e \in End, NEW c \in Conns, WriteFrame(e, c) PROVE ClaimOK(d, b)'
  BY <1>10 DEF WriteFrame, PcOK
<1>11. ASSUME NEW e \in End, NEW c \in Conns, AppClose(e, c) PROVE ClaimOK(d, b)'
  <2>1. /\ conn'[e][c].closed /\ conn'[e][c].closeCh = conn[e][c].closeCh
        /\ d # e \/ b # c => conn'[d][b] = conn[d][b]
    BY <1>11, SwapFields DEF OnlyConn, AppClose
  <2>2. /\ target' = target /\ pc[Closer(e, c)] = "idle"
        /\ pc' = [pc EXCEPT ![Closer(e, c)] = IF conn[e][c].closed THEN "done" ELSE "testCh"]
    BY <1>11 DEF AppClose, Swap
  <2> QED
    BY <2>1, <2>2 DEF PcOK
<1>12. ASSUME NEW e \in End, StartShutdown(e) PROVE ClaimOK(d, b)'
  BY <1>12 DEF StartShutdown, PcOK
<1>13. ASSUME NEW e \in End, RangeNext(e) PROVE ClaimOK(d, b)'
  <2>0. PICK c \in Conns :
          /\ target' = [target EXCEPT ![e]["main"] = c]
          /\ Swap(Main(e), e, c, "testCh", "range")
    BY <1>13 DEF RangeNext, MapsOK
  <2>1. /\ conn'[e][c].closed /\ conn'[e][c].closeCh = conn[e][c].closeCh
        /\ d # e \/ b # c => conn'[d][b] = conn[d][b]
    BY <2>0, SwapFields DEF OnlyConn
  <2>2. /\ pc[Main(e)] = "range"
        /\ pc' = [pc EXCEPT ![Main(e)] = IF conn[e][c].closed THEN "range" ELSE "testCh"]
    BY <1>13, <2>0 DEF RangeNext, Swap
  <2> QED
    BY <2>0, <2>1, <2>2 DEF PcOK, TargetOK
<1>14. ASSUME NEW e \in End, CloseAcceptCh(e) PROVE ClaimOK(d, b)'
  BY <1>14 DEF CloseAcceptCh, PcOK
<1>15. ASSUME NEW e \in End,
              TestCh(Main(e), e, target[e]["main"], "testCh", "closeCh", "sendFin")
       PROVE  ClaimOK(d, b)'
  BY <1>15 DEF TestCh, PcOK
<1>16. ASSUME NEW e \in End, CloseCh(Main(e), e, target[e]["main"], "closeCh", "sendFin")
       PROVE  ClaimOK(d, b)'
  BY <1>16 DEF CloseCh, PcOK
<1>17. ASSUME NEW e \in End, SendFin(Main(e), e, target[e]["main"]) PROVE ClaimOK(d, b)'
  BY <1>17 DEF SendFin, PcOK
<1>18. ASSUME NEW e \in End, RemoveConnection(Main(e), e, target[e]["main"], "range")
       PROVE  ClaimOK(d, b)'
  BY <1>18 DEF RemoveConnection, PcOK
<1>19. ASSUME NEW e \in End, NEW c \in Conns,
              TestCh(Closer(e, c), e, c, "testCh", "closeCh", "sendFin")
       PROVE  ClaimOK(d, b)'
  BY <1>19 DEF TestCh, PcOK
<1>20. ASSUME NEW e \in End, NEW c \in Conns,
              CloseCh(Closer(e, c), e, c, "closeCh", "sendFin")
       PROVE  ClaimOK(d, b)'
  BY <1>20 DEF CloseCh, PcOK
<1>21. ASSUME NEW e \in End, NEW c \in Conns, SendFin(Closer(e, c), e, c)
       PROVE  ClaimOK(d, b)'
  BY <1>21 DEF SendFin, PcOK
<1>22. ASSUME NEW e \in End, NEW c \in Conns, RemoveConnection(Closer(e, c), e, c, "done")
       PROVE  ClaimOK(d, b)'
  BY <1>22 DEF RemoveConnection, PcOK
<1>23. ASSUME NEW e \in End, SendSynAck(e) PROVE ClaimOK(d, b)'
  BY <1>23 DEF SendSynAck, PcOK
<1>24. ASSUME NEW e \in End, Queue(e) PROVE ClaimOK(d, b)'
  BY <1>24 DEF Queue, PcOK
<1>25. ASSUME NEW e \in End,
              TestCh(Recv(e), e, target[e]["recv"], "finTest", "finClose", "finAck")
       PROVE  ClaimOK(d, b)'
  BY <1>25 DEF TestCh, PcOK
<1>26. ASSUME NEW e \in End, CloseCh(Recv(e), e, target[e]["recv"], "finClose", "finAck")
       PROVE  ClaimOK(d, b)'
  BY <1>26 DEF CloseCh, PcOK
<1>27. ASSUME NEW e \in End, FinAck(e) PROVE ClaimOK(d, b)'
  BY <1>27 DEF FinAck, PcOK
<1>28. ASSUME NEW e \in End, NEW c \in Conns, NEW w \in net[e], HandleSyn(e, c, w) PROVE ClaimOK(d, b)'
  <2>1. /\ ~conn'[e][c].closed /\ ~conn'[e][c].closeCh
        /\ d # e \/ b # c => conn'[d][b] = conn[d][b]
    BY <1>28, SynFields DEF OnlyConn
  <2>2. /\ target' = [target EXCEPT ![e]["recv"] = c] /\ pc[Recv(e)] = "idle"
        /\ pc' = [pc EXCEPT ![Recv(e)] = "synAck"]
    BY <1>28 DEF HandleSyn, Arrives
  <2>3. pc[Closer(e, c)] = "off" /\ (pc[Main(e)] \notin MainWorks \/ target[e]["main"] # c)
    BY <1>28, SynIsNew
  <2> QED
    BY <2>1, <2>2, <2>3 DEF PcOK, TargetOK, MainWorks
<1>29. ASSUME NEW e \in End, NEW c \in Conns, NEW w \in net[e], HandleSynAck(e, c, w) PROVE ClaimOK(d, b)'
  BY <1>29 DEF HandleSynAck, PcOK
<1>30. ASSUME NEW e \in End, NEW c \in Conns, NEW w \in net[e], HandleData(e, c, w) PROVE ClaimOK(d, b)'
  <2>1. conn'[d][b].closed = conn[d][b].closed /\ conn'[d][b].closeCh = conn[d][b].closeCh
    BY <1>30, DataFields DEF OnlyConn, SameClose
  <2> QED
    BY <1>30, <2>1 DEF HandleData
<1>31. ASSUME NEW e \in End, NEW c \in Conns, NEW w \in net[e], HandleFin(e, c, w) PROVE ClaimOK(d, b)'
  <2>0. pc[Recv(e)] = "idle"
    BY <1>31 DEF HandleFin, Arrives
  <2>1. CASE target' = [target EXCEPT ![e]["recv"] = c] /\ Swap(Recv(e), e, c, "finTest", "idle")
    <3>1. /\ conn'[e][c].closed /\ conn'[e][c].closeCh = conn[e][c].closeCh
          /\ d # e \/ b # c => conn'[d][b] = conn[d][b]
      BY <2>1, SwapFields DEF OnlyConn
    <3>2. pc' = [pc EXCEPT ![Recv(e)] = IF conn[e][c].closed THEN "idle" ELSE "finTest"]
      BY <2>1 DEF Swap
    <3> QED
      BY <2>0, <2>1, <3>1, <3>2 DEF PcOK, TargetOK
  <2>2. CASE UNCHANGED <<conn, target, pc>>
    BY <2>2
  <2> QED
    BY <1>31, <2>1, <2>2 DEF HandleFin
<1>32. ASSUME NEW e \in End, NEW c \in Conns, NEW w \in net[e], HandleFinAck(e, c, w) PROVE ClaimOK(d, b)'
  BY <1>32 DEF HandleFinAck, PcOK
<1>33. CASE UNCHANGED vars
  BY <1>33 DEF vars, PcOK
<1> QED
  BY NextCases, <1>1, <1>2, <1>3, <1>4, <1>5, <1>6, <1>7, <1>8, <1>9, <1>10, <1>11, <1>12,
     <1>13, <1>14, <1>15, <1>16, <1>17, <1>18, <1>19, <1>20, <1>21, <1>22, <1>23, <1>24,
     <1>25, <1>26, <1>27, <1>28, <1>29, <1>30, <1>31, <1>32, <1>33

-----------------------------------------------------------------------------
(***************************************************************************)
(* Nothing happens at a Connection before it is there.                     *)
(***************************************************************************)
LifeSame == \A d \in End, b \in Conns : SameLife(conn[d][b], conn'[d][b])
LifeStarts ==
    \/ \E c \in Conns : Dial(c)
    \/ \E e \in End, c \in Conns : \E w \in net[e] : HandleSyn(e, c, w) \/ HandleSynAck(e, c, w)

\* Only Dial, a SYN and a SYN-ACK change born or established.
LEMMA LifeStep ==
    ASSUME TypeInv, [Next]_vars PROVE LifeSame \/ LifeStarts
<1> USE DEF TypeInv, LifeStarts
<1>1. ASSUME NEW c \in Conns, Dial(c) PROVE LifeSame \/ LifeStarts
  BY <1>1
<1>2. ASSUME NEW c \in Conns, DialReturns(c) PROVE LifeSame \/ LifeStarts
  BY <1>2 DEF DialReturns, LifeSame, SameLife
<1>3. ASSUME NEW c \in Conns, DialFails(c) PROVE LifeSame \/ LifeStarts
  BY <1>3 DEF DialFails, LifeSame, SameLife
<1>4. ASSUME NEW e \in End, Accept(e) PROVE LifeSame \/ LifeStarts
  BY <1>4 DEF Accept, LifeSame, SameLife
<1>5. ASSUME NEW e \in End, NEW c \in Conns, StartRead(e, c) PROVE LifeSame \/ LifeStarts
  BY <1>5, ReadingKeeps DEF LifeSame
<1>6. ASSUME NEW e \in End, NEW c \in Conns, ReceiveOne(e, c) PROVE LifeSame \/ LifeStarts
  BY <1>6, ReadingKeeps DEF LifeSame
<1>7. ASSUME NEW e \in End, NEW c \in Conns, FinishRead(e, c) PROVE LifeSame \/ LifeStarts
  BY <1>7, ReadingKeeps DEF LifeSame
<1>8. ASSUME NEW e \in End, NEW c \in Conns, ReadEof(e, c) PROVE LifeSame \/ LifeStarts
  BY <1>8 DEF ReadEof, LifeSame, SameLife
<1>9. ASSUME NEW e \in End, NEW c \in Conns, StartWrite(e, c) PROVE LifeSame \/ LifeStarts
  BY <1>9 DEF StartWrite, LifeSame, SameLife
<1>10. ASSUME NEW e \in End, NEW c \in Conns, WriteFrame(e, c) PROVE LifeSame \/ LifeStarts
  <2>1. OnlyConn(e, c) /\ SameLife(conn[e][c], conn'[e][c])
    BY <1>10, WriteFields
  <2> QED
    BY <2>1 DEF LifeSame, OnlyConn, SameLife
<1>11. ASSUME NEW e \in End, NEW c \in Conns, AppClose(e, c) PROVE LifeSame \/ LifeStarts
  <2>1. OnlyConn(e, c) /\ SameLife(conn[e][c], conn'[e][c])
    BY <1>11, SwapFields DEF AppClose
  <2> QED
    BY <2>1 DEF LifeSame, OnlyConn, SameLife
<1>12. ASSUME NEW e \in End, StartShutdown(e) PROVE LifeSame \/ LifeStarts
  BY <1>12 DEF StartShutdown, LifeSame, SameLife
<1>13. ASSUME NEW e \in End, RangeNext(e) PROVE LifeSame \/ LifeStarts
  <2>1. PICK c \in Conns : Swap(Main(e), e, c, "testCh", "range")
    BY <1>13 DEF RangeNext, MapsOK
  <2>2. OnlyConn(e, c) /\ SameLife(conn[e][c], conn'[e][c])
    BY <2>1, SwapFields
  <2> QED
    BY <2>2 DEF LifeSame, OnlyConn, SameLife
<1>14. ASSUME NEW e \in End, CloseAcceptCh(e) PROVE LifeSame \/ LifeStarts
  BY <1>14 DEF CloseAcceptCh, LifeSame, SameLife
<1>15. ASSUME NEW e \in End,
              TestCh(Main(e), e, target[e]["main"], "testCh", "closeCh", "sendFin")
       PROVE  LifeSame \/ LifeStarts
  BY <1>15 DEF TestCh, LifeSame, SameLife
<1>16. ASSUME NEW e \in End, CloseCh(Main(e), e, target[e]["main"], "closeCh", "sendFin")
       PROVE  LifeSame \/ LifeStarts
  <2>1. target[e]["main"] \in Conns
    BY <1>16 DEF CloseCh, At, TargetOK, MainWorks, Claimed
  <2>2. PICK c \in Conns : c = target[e]["main"]
    BY <2>1
  <2>3. OnlyConn(e, c) /\ SameLife(conn[e][c], conn'[e][c])
    BY <1>16, <2>2, CloseChFields
  <2> QED
    BY <2>3 DEF LifeSame, OnlyConn, SameLife
<1>17. ASSUME NEW e \in End, SendFin(Main(e), e, target[e]["main"])
       PROVE  LifeSame \/ LifeStarts
  BY <1>17 DEF SendFin, LifeSame, SameLife
<1>18. ASSUME NEW e \in End, RemoveConnection(Main(e), e, target[e]["main"], "range")
       PROVE  LifeSame \/ LifeStarts
  BY <1>18 DEF RemoveConnection, LifeSame, SameLife
<1>19. ASSUME NEW e \in End, NEW c \in Conns,
              TestCh(Closer(e, c), e, c, "testCh", "closeCh", "sendFin")
       PROVE  LifeSame \/ LifeStarts
  BY <1>19 DEF TestCh, LifeSame, SameLife
<1>20. ASSUME NEW e \in End, NEW c \in Conns,
              CloseCh(Closer(e, c), e, c, "closeCh", "sendFin")
       PROVE  LifeSame \/ LifeStarts
  <2>1. OnlyConn(e, c) /\ SameLife(conn[e][c], conn'[e][c])
    BY <1>20, CloseChFields
  <2> QED
    BY <2>1 DEF LifeSame, OnlyConn, SameLife
<1>21. ASSUME NEW e \in End, NEW c \in Conns, SendFin(Closer(e, c), e, c)
       PROVE  LifeSame \/ LifeStarts
  BY <1>21 DEF SendFin, LifeSame, SameLife
<1>22. ASSUME NEW e \in End, NEW c \in Conns, RemoveConnection(Closer(e, c), e, c, "done")
       PROVE  LifeSame \/ LifeStarts
  BY <1>22 DEF RemoveConnection, LifeSame, SameLife
<1>23. ASSUME NEW e \in End, SendSynAck(e) PROVE LifeSame \/ LifeStarts
  BY <1>23 DEF SendSynAck, LifeSame, SameLife
<1>24. ASSUME NEW e \in End, Queue(e) PROVE LifeSame \/ LifeStarts
  BY <1>24 DEF Queue, LifeSame, SameLife
<1>25. ASSUME NEW e \in End,
              TestCh(Recv(e), e, target[e]["recv"], "finTest", "finClose", "finAck")
       PROVE  LifeSame \/ LifeStarts
  BY <1>25 DEF TestCh, LifeSame, SameLife
<1>26. ASSUME NEW e \in End, CloseCh(Recv(e), e, target[e]["recv"], "finClose", "finAck")
       PROVE  LifeSame \/ LifeStarts
  <2>1. target[e]["recv"] \in Conns
    BY <1>26 DEF CloseCh, At, TargetOK
  <2>2. PICK c \in Conns : c = target[e]["recv"]
    BY <2>1
  <2>3. OnlyConn(e, c) /\ SameLife(conn[e][c], conn'[e][c])
    BY <1>26, <2>2, CloseChFields
  <2> QED
    BY <2>3 DEF LifeSame, OnlyConn, SameLife
<1>27. ASSUME NEW e \in End, FinAck(e) PROVE LifeSame \/ LifeStarts
  BY <1>27 DEF FinAck, LifeSame, SameLife
<1>28. ASSUME NEW e \in End, NEW c \in Conns, NEW w \in net[e], HandleSyn(e, c, w) PROVE LifeSame \/ LifeStarts
  BY <1>28
<1>29. ASSUME NEW e \in End, NEW c \in Conns, NEW w \in net[e], HandleSynAck(e, c, w)
       PROVE  LifeSame \/ LifeStarts
  BY <1>29
<1>30. ASSUME NEW e \in End, NEW c \in Conns, NEW w \in net[e], HandleData(e, c, w) PROVE LifeSame \/ LifeStarts
  <2>1. OnlyConn(e, c) /\ SameLife(conn[e][c], conn'[e][c])
    BY <1>30, DataFields
  <2> QED
    BY <2>1 DEF LifeSame, OnlyConn, SameLife
<1>31. ASSUME NEW e \in End, NEW c \in Conns, NEW w \in net[e], HandleFin(e, c, w) PROVE LifeSame \/ LifeStarts
  <2>1. CASE Swap(Recv(e), e, c, "finTest", "idle")
    <3>1. OnlyConn(e, c) /\ SameLife(conn[e][c], conn'[e][c])
      BY <2>1, SwapFields
    <3> QED
      BY <3>1 DEF LifeSame, OnlyConn, SameLife
  <2>2. CASE UNCHANGED conn
    BY <2>2 DEF LifeSame, SameLife
  <2> QED
    BY <1>31, <2>1, <2>2 DEF HandleFin
<1>32. ASSUME NEW e \in End, NEW c \in Conns, NEW w \in net[e], HandleFinAck(e, c, w)
       PROVE  LifeSame \/ LifeStarts
  BY <1>32 DEF HandleFinAck, LifeSame, SameLife
<1>33. CASE UNCHANGED vars
  BY <1>33 DEF vars, LifeSame, SameLife
<1> QED
  BY NextCases, <1>1, <1>2, <1>3, <1>4, <1>5, <1>6, <1>7, <1>8, <1>9, <1>10, <1>11, <1>12,
     <1>13, <1>14, <1>15, <1>16, <1>17, <1>18, <1>19, <1>20, <1>21, <1>22, <1>23, <1>24,
     <1>25, <1>26, <1>27, <1>28, <1>29, <1>30, <1>31, <1>32, <1>33

\* A Connection that is there stays.
LEMMA BornStays ==
    ASSUME TypeInv, NEW d \in End, NEW b \in Conns, conn[d][b].born, [Next]_vars
    PROVE  conn'[d][b].born
<1>1. CASE LifeSame
  BY <1>1 DEF LifeSame, SameLife
<1>2. ASSUME NEW c \in Conns, Dial(c) PROVE conn'[d][b].born
  <2>1. OnlyConn("client", c) /\ conn'["client"][c].born
    BY <1>2, DialFields DEF TypeInv
  <2> QED
    BY <2>1 DEF OnlyConn
<1>3. ASSUME NEW e \in End, NEW c \in Conns, NEW w \in net[e], HandleSyn(e, c, w) PROVE conn'[d][b].born
  <2>1. OnlyConn(e, c) /\ conn'[e][c].born
    BY <1>3, SynFields DEF TypeInv
  <2> QED
    BY <2>1 DEF OnlyConn
<1>4. ASSUME NEW e \in End, NEW c \in Conns, NEW w \in net[e], HandleSynAck(e, c, w) PROVE conn'[d][b].born
  <2>1. OnlyConn(e, c) /\ conn'[e][c].born = conn[e][c].born
    BY <1>4, SynAckFields DEF TypeInv
  <2> QED
    BY <2>1 DEF OnlyConn
<1> QED
  BY <1>1, <1>2, <1>3, <1>4, LifeStep DEF LifeStarts

\* A Connection that is not there has nothing and nobody at it.
LEMMA UnbornStep ==
    ASSUME TypeInv, NEW d \in End, NEW b \in Conns, ~conn[d][b].born,
           \A e \in End, c \in Conns : BornOK(e, c), [Next]_vars
    PROVE  BornOK(d, b)'
<1>0. /\ conn[d][b] = Unborn /\ b \notin connections[d]
      /\ \A i \in 1 .. Len(acceptCh[d]) : acceptCh[d][i] # b
      /\ pc[Reader(d, b)] = "off" /\ pc[Writer(d, b)] = "off" /\ pc[Closer(d, b)] = "off"
      /\ pc[Recv(d)] = "idle" \/ target[d]["recv"] # b
      /\ pc[Main(d)] \notin MainWorks \/ target[d]["main"] # b
  BY DEF BornOK
<1> USE <1>0, ProcNames, KindsDiffer, NamesDiffer
        DEF TypeInv, At, Goto, BornOK, MainWorks, Claimed
<1>1. ASSUME NEW c \in Conns, Dial(c) PROVE BornOK(d, b)'
  <2>1. OnlyConn("client", c) /\ conn'["client"][c].born
    BY <1>1, DialFields
  <2>2. CASE d = "client" /\ b = c
    BY <2>1, <2>2
  <2>3. CASE d # "client" \/ b # c
    <3>1. conn'[d][b] = conn[d][b] /\ b \notin connections'[d]
      BY <1>1, <2>1, <2>3, EndFacts DEF Dial, OnlyConn, MapsOK
    <3> QED
      BY <1>1, <3>1 DEF Dial, PcOK
  <2> QED
    BY <2>2, <2>3
<1>2. ASSUME NEW c \in Conns, DialReturns(c) PROVE BornOK(d, b)'
  <2>1. /\ pc' = Use("client", c, "up") /\ PcOK /\ conn["client"][c].established
        /\ UNCHANGED <<conn, connections, acceptCh, target>>
    BY <1>2 DEF DialReturns
  <2>2. d # "client" \/ b # c
    BY <2>1, UnbornFacts
  <2> QED
    BY <2>1, <2>2, UseFacts, EndFacts
<1>3. ASSUME NEW c \in Conns, DialFails(c) PROVE BornOK(d, b)'
  BY <1>3 DEF DialFails, PcOK
<1>4. ASSUME NEW e \in End, Accept(e) PROVE BornOK(d, b)'
  <2>1. acceptCh[e] # <<>>
    BY <1>4 DEF Accept
  <2>2. PICK c \in Conns : c = Head(acceptCh[e])
    BY <2>1, AcceptedConn
  <2>3. /\ pc' = Use(e, c, "up") /\ PcOK /\ UNCHANGED <<conn, connections, target>>
        /\ acceptCh' = [acceptCh EXCEPT ![e] = Tail(@)]
    BY <1>4, <2>2 DEF Accept
  <2>4. d # e \/ b # c
    BY <2>1, <2>2, AcceptedConn
  <2>5. \A i \in 1 .. Len(acceptCh'[d]) : acceptCh'[d][i] # b
    <3>1. CASE d = e
      <4>1. acceptCh'[d] = Tail(acceptCh[e])
        BY <2>3, <3>1 DEF MapsOK
      <4> QED
        BY <2>1, <3>1, <4>1, AcceptedConn
    <3>2. CASE d # e
      BY <2>3, <3>2 DEF MapsOK
    <3> QED
      BY <3>1, <3>2
  <2> QED
    BY <2>3, <2>4, <2>5, UseFacts, EndFacts
<1>5. ASSUME NEW e \in End, NEW c \in Conns, StartRead(e, c) PROVE BornOK(d, b)'
  <2>1. d # e \/ b # c
    BY <1>5 DEF StartRead
  <2>2. conn'[d][b] = conn[d][b]
    <3>1. CASE conn' = [conn EXCEPT ![e][c] = HandOut(conn[e][c], conn[e][c].readBuf)]
      BY <2>1, <3>1, HandsOut DEF OnlyConn
    <3> QED
      BY <1>5, <3>1 DEF StartRead
  <2>3. /\ pc' = pc \/ \E l : pc' = [pc EXCEPT ![Reader(e, c)] = l]
        /\ UNCHANGED <<connections, acceptCh, target>>
    BY <1>5 DEF StartRead
  <2> QED
    BY <2>1, <2>2, <2>3 DEF PcOK
<1>6. ASSUME NEW e \in End, NEW c \in Conns, ReceiveOne(e, c) PROVE BornOK(d, b)'
  <2>1. d # e \/ b # c
    BY <1>6 DEF ReceiveOne
  <2>2. conn'[d][b] = conn[d][b]
    <3>1. OnlyConn(e, c)
      BY <1>6, ReceiveFields
    <3> QED
      BY <2>1, <3>1 DEF OnlyConn
  <2>3. /\ \E l : pc' = [pc EXCEPT ![Reader(e, c)] = l]
        /\ UNCHANGED <<connections, acceptCh, target>>
    BY <1>6 DEF ReceiveOne
  <2> QED
    BY <2>1, <2>2, <2>3 DEF PcOK
<1>7. ASSUME NEW e \in End, NEW c \in Conns, FinishRead(e, c) PROVE BornOK(d, b)'
  BY <1>7 DEF FinishRead, PcOK
<1>8. ASSUME NEW e \in End, NEW c \in Conns, ReadEof(e, c) PROVE BornOK(d, b)'
  BY <1>8 DEF ReadEof, PcOK
<1>9. ASSUME NEW e \in End, NEW c \in Conns, StartWrite(e, c) PROVE BornOK(d, b)'
  BY <1>9 DEF StartWrite, PcOK
<1>10. ASSUME NEW e \in End, NEW c \in Conns, WriteFrame(e, c) PROVE BornOK(d, b)'
  BY <1>10 DEF WriteFrame, PcOK
<1>11. ASSUME NEW e \in End, NEW c \in Conns, AppClose(e, c) PROVE BornOK(d, b)'
  <2>1. d # e \/ b # c
    BY <1>11 DEF AppClose
  <2>2. conn'[d][b] = conn[d][b]
    BY <1>11, <2>1, SwapFields DEF OnlyConn, AppClose
  <2>3. /\ \E l : pc' = [pc EXCEPT ![Closer(e, c)] = l]
        /\ UNCHANGED <<connections, acceptCh, target>>
    BY <1>11 DEF AppClose, Swap
  <2> QED
    BY <2>1, <2>2, <2>3 DEF PcOK
<1>12. ASSUME NEW e \in End, StartShutdown(e) PROVE BornOK(d, b)'
  BY <1>12 DEF StartShutdown, PcOK
<1>13. ASSUME NEW e \in End, RangeNext(e) PROVE BornOK(d, b)'
  <2>0. PICK c \in Conns :
          /\ c \in connections[e] /\ target' = [target EXCEPT ![e]["main"] = c]
          /\ Swap(Main(e), e, c, "testCh", "range")
    BY <1>13 DEF RangeNext, MapsOK
  <2>1. d # e \/ b # c
    BY <2>0
  <2>2. conn'[d][b] = conn[d][b]
    BY <2>0, <2>1, SwapFields DEF OnlyConn
  <2>3. /\ \E l : pc' = [pc EXCEPT ![Main(e)] = l] /\ UNCHANGED <<connections, acceptCh>>
        /\ pc[Main(e)] = "range"
    BY <1>13, <2>0 DEF RangeNext, Swap
  <2> QED
    BY <2>0, <2>1, <2>2, <2>3 DEF PcOK, TargetOK
<1>14. ASSUME NEW e \in End, CloseAcceptCh(e) PROVE BornOK(d, b)'
  BY <1>14 DEF CloseAcceptCh, PcOK
<1>15. ASSUME NEW e \in End,
              TestCh(Main(e), e, target[e]["main"], "testCh", "closeCh", "sendFin")
       PROVE  BornOK(d, b)'
  BY <1>15 DEF TestCh, PcOK
<1>16. ASSUME NEW e \in End, CloseCh(Main(e), e, target[e]["main"], "closeCh", "sendFin")
       PROVE  BornOK(d, b)'
  <2>1. target[e]["main"] \in Conns
    BY <1>16 DEF CloseCh, At, TargetOK, MainWorks, Claimed
  <2>2. d # e \/ b # target[e]["main"]
    BY <1>16 DEF CloseCh
  <2>3. conn'[d][b] = conn[d][b]
    BY <1>16, <2>1, <2>2, CloseChFields DEF OnlyConn
  <2> QED
    BY <1>16, <2>2, <2>3 DEF CloseCh, PcOK
<1>17. ASSUME NEW e \in End, SendFin(Main(e), e, target[e]["main"]) PROVE BornOK(d, b)'
  BY <1>17 DEF SendFin, PcOK
<1>18. ASSUME NEW e \in End, RemoveConnection(Main(e), e, target[e]["main"], "range")
       PROVE  BornOK(d, b)'
  BY <1>18 DEF RemoveConnection, PcOK
<1>19. ASSUME NEW e \in End, NEW c \in Conns,
              TestCh(Closer(e, c), e, c, "testCh", "closeCh", "sendFin")
       PROVE  BornOK(d, b)'
  BY <1>19 DEF TestCh, PcOK
<1>20. ASSUME NEW e \in End, NEW c \in Conns,
              CloseCh(Closer(e, c), e, c, "closeCh", "sendFin")
       PROVE  BornOK(d, b)'
  BY <1>20 DEF CloseCh, PcOK
<1>21. ASSUME NEW e \in End, NEW c \in Conns, SendFin(Closer(e, c), e, c)
       PROVE  BornOK(d, b)'
  BY <1>21 DEF SendFin, PcOK
<1>22. ASSUME NEW e \in End, NEW c \in Conns, RemoveConnection(Closer(e, c), e, c, "done")
       PROVE  BornOK(d, b)'
  BY <1>22 DEF RemoveConnection, PcOK
<1>23. ASSUME NEW e \in End, SendSynAck(e) PROVE BornOK(d, b)'
  BY <1>23 DEF SendSynAck, PcOK
<1>24. ASSUME NEW e \in End, Queue(e) PROVE BornOK(d, b)'
  <2>1. target[e]["recv"] \in Conns /\ (d # e \/ target[e]["recv"] # b)
    BY <1>24 DEF Queue, TargetOK
  <2>2. acceptCh[e] \in Seq(Conns)
    BY DEF MapsOK
  <2>3. PICK q : acceptCh' = [acceptCh EXCEPT ![e] = q]
                 /\ (q = acceptCh[e] \/ q = Append(acceptCh[e], target[e]["recv"]))
    BY <1>24 DEF Queue
  <2>4. \A i \in 1 .. Len(acceptCh'[d]) : acceptCh'[d][i] # b
    <3>1. CASE d = e
      <4>1. acceptCh'[d] = q
        BY <2>3, <3>1 DEF MapsOK
      <4> QED
        BY <2>1, <2>2, <2>3, <3>1, <4>1
    <3>2. CASE d # e
      BY <2>3, <3>2 DEF MapsOK
    <3> QED
      BY <3>1, <3>2
  <2> QED
    BY <1>24, <2>4 DEF Queue, PcOK
<1>25. ASSUME NEW e \in End,
              TestCh(Recv(e), e, target[e]["recv"], "finTest", "finClose", "finAck")
       PROVE  BornOK(d, b)'
  BY <1>25 DEF TestCh, PcOK
<1>26. ASSUME NEW e \in End, CloseCh(Recv(e), e, target[e]["recv"], "finClose", "finAck")
       PROVE  BornOK(d, b)'
  <2>1. target[e]["recv"] \in Conns
    BY <1>26 DEF CloseCh, At, TargetOK
  <2>2. d # e \/ b # target[e]["recv"]
    BY <1>26 DEF CloseCh
  <2>3. conn'[d][b] = conn[d][b]
    BY <1>26, <2>1, <2>2, CloseChFields DEF OnlyConn
  <2> QED
    BY <1>26, <2>2, <2>3 DEF CloseCh, PcOK
<1>27. ASSUME NEW e \in End, FinAck(e) PROVE BornOK(d, b)'
  BY <1>27 DEF FinAck, PcOK
<1>28. ASSUME NEW e \in End, NEW c \in Conns, NEW w \in net[e], HandleSyn(e, c, w) PROVE BornOK(d, b)'
  <2>1. OnlyConn(e, c) /\ conn'[e][c].born
    BY <1>28, SynFields
  <2>2. CASE d = e /\ b = c
    BY <2>1, <2>2
  <2>3. CASE d # e \/ b # c
    <3>1. conn'[d][b] = conn[d][b]
      BY <2>1, <2>3 DEF OnlyConn
    <3>2. /\ connections' = [connections EXCEPT ![e] = @ \cup {c}] /\ UNCHANGED acceptCh
          /\ target' = [target EXCEPT ![e]["recv"] = c] /\ pc' = [pc EXCEPT ![Recv(e)] = "synAck"]
      BY <1>28 DEF HandleSyn
    <3>3. b \notin connections'[d] /\ (pc'[Recv(d)] = "idle" \/ target'[d]["recv"] # b)
      BY <2>3, <3>2 DEF MapsOK, PcOK, TargetOK
    <3>4. pc'[Main(d)] \notin MainWorks \/ target'[d]["main"] # b
      BY <3>2 DEF PcOK, TargetOK
    <3> QED
      BY <3>1, <3>2, <3>3, <3>4 DEF PcOK
  <2> QED
    BY <2>2, <2>3
<1>29. ASSUME NEW e \in End, NEW c \in Conns, NEW w \in net[e], HandleSynAck(e, c, w) PROVE BornOK(d, b)'
  <2>1. conn'[d][b] = conn[d][b]
    BY <1>29, SynAckFields DEF OnlyConn
  <2> QED
    BY <1>29, <2>1 DEF HandleSynAck
<1>30. ASSUME NEW e \in End, NEW c \in Conns, NEW w \in net[e], HandleData(e, c, w) PROVE BornOK(d, b)'
  <2>1. conn'[d][b] = conn[d][b]
    BY <1>30, DataFields DEF OnlyConn
  <2> QED
    BY <1>30, <2>1 DEF HandleData
<1>31. ASSUME NEW e \in End, NEW c \in Conns, NEW w \in net[e], HandleFin(e, c, w) PROVE BornOK(d, b)'
  <2>1. CASE /\ c \in connections[e] /\ target' = [target EXCEPT ![e]["recv"] = c]
             /\ Swap(Recv(e), e, c, "finTest", "idle")
    <3>1. d # e \/ b # c
      BY <2>1
    <3>2. conn'[d][b] = conn[d][b]
      BY <2>1, <3>1, SwapFields DEF OnlyConn
    <3>3. \E l : pc' = [pc EXCEPT ![Recv(e)] = l]
      BY <2>1 DEF Swap
    <3>4. UNCHANGED <<connections, acceptCh>>
      BY <1>31 DEF HandleFin
    <3> QED
      BY <2>1, <3>1, <3>2, <3>3, <3>4 DEF PcOK, TargetOK
  <2>2. CASE UNCHANGED <<conn, target, pc>>
    BY <1>31, <2>2 DEF HandleFin
  <2> QED
    BY <1>31, <2>1, <2>2 DEF HandleFin
<1>32. ASSUME NEW e \in End, NEW c \in Conns, NEW w \in net[e], HandleFinAck(e, c, w) PROVE BornOK(d, b)'
  BY <1>32 DEF HandleFinAck, PcOK
<1>33. CASE UNCHANGED vars
  BY <1>33 DEF vars, PcOK
<1> QED
  BY NextCases, <1>1, <1>2, <1>3, <1>4, <1>5, <1>6, <1>7, <1>8, <1>9, <1>10, <1>11, <1>12,
     <1>13, <1>14, <1>15, <1>16, <1>17, <1>18, <1>19, <1>20, <1>21, <1>22, <1>23, <1>24,
     <1>25, <1>26, <1>27, <1>28, <1>29, <1>30, <1>31, <1>32, <1>33

-----------------------------------------------------------------------------
(***************************************************************************)
(* The handshake.                                                          *)
(***************************************************************************)

\* The step sends no frame with a type of T.
Quiet(T) ==
    \/ net' = net
    \/ \E d \in End : Shrinks(d)
    \/ \E d \in End, w \in Seq(Nat) : Grows(d, w) /\ w[1] \notin T

\* Then the frames with such a type were there.
LEMMA OldFrames ==
    ASSUME NEW T, Quiet(T), NEW d \in End
    PROVE  \A w \in net'[d] : w[1] \in T => w \in net[d]
<1>1. CASE net'[d] = net[d]
  BY <1>1
<1>2. CASE Shrinks(d)
  BY <1>2 DEF Shrinks
<1>3. CASE \E w \in Seq(Nat) : Grows(d, w) /\ w[1] \notin T
  BY <1>3 DEF Grows
<1>4. ASSUME NEW x \in End, Shrinks(x) \/ (\E w \in Seq(Nat) : Grows(x, w)), x # d
      PROVE  net'[d] = net[d]
  BY <1>4, EndFacts DEF Shrinks, Grows
<1> QED
  BY <1>1, <1>2, <1>3, <1>4 DEF Quiet

Calm ==
    /\ Quiet({FrameSyn, FrameSynAck})
    /\ pc'[Recv("client")] \notin {"synAck", "queue"} /\ acceptCh'["client"] = <<>>
    /\ \A b \in Conns :
         /\ conn'["server"][b].born = conn["server"][b].born
         /\ conn'["client"][b].established => conn["server"][b].born
         /\ pc'[Dialer(b)] = "idle" <=> pc[Dialer(b)] = "idle"
         /\ pc'[Dialer(b)] = "up" => conn["server"][b].born

\* A step that neither sends nor takes up a SYN or SYN-ACK.
LEMMA ShakeKept ==
    ASSUME NetOK, ShakeInv, Calm
    PROVE  ShakeInv'
<1>1. \A d \in End : \A w \in net'[d] : w[1] \in {FrameSyn, FrameSynAck} => w \in net[d]
  BY OldFrames DEF Calm
<1>3. OneWay'
  BY <1>1, EndFacts DEF Calm, OneWay, ShakeInv
<1>4. ASSUME NEW c \in Conns PROVE SynOK(c)'
  BY <1>1, EndFacts DEF Calm, ShakeInv, SynOK
<1>5. ASSUME NEW c \in Conns PROVE SynAckOK(c)'
  BY <1>1, EndFacts DEF Calm, ShakeInv, SynAckOK
<1> QED
  BY <1>3, <1>4, <1>5 DEF ShakeInv

Opening == {FrameData, FrameSyn, FrameSynAck}
Sending ==
    \/ \E c \in Conns : Dial(c)
    \/ \E e \in End : SendSynAck(e)
    \/ \E e \in End, c \in Conns : WriteFrame(e, c)

\* Only Dial, HandleFrame and Write send SYN, SYN-ACK and data.
LEMMA SendingStep ==
    ASSUME TypeInv, [Next]_vars PROVE Quiet(Opening) \/ Sending
<1> USE DEF TypeInv, Quiet, Opening, Sending
<1>1. ASSUME NEW c \in Conns, Dial(c) PROVE Quiet(Opening) \/ Sending
  BY <1>1
<1>2. ASSUME NEW c \in Conns, DialReturns(c) PROVE Quiet(Opening) \/ Sending
  BY <1>2 DEF DialReturns
<1>3. ASSUME NEW c \in Conns, DialFails(c) PROVE Quiet(Opening) \/ Sending
  BY <1>3 DEF DialFails
<1>4. ASSUME NEW e \in End, Accept(e) PROVE Quiet(Opening) \/ Sending
  BY <1>4 DEF Accept
<1>5. ASSUME NEW e \in End, NEW c \in Conns, StartRead(e, c) PROVE Quiet(Opening) \/ Sending
  BY <1>5 DEF StartRead
<1>6. ASSUME NEW e \in End, NEW c \in Conns, ReceiveOne(e, c)
      PROVE  Quiet(Opening) \/ Sending
  BY <1>6 DEF ReceiveOne
<1>7. ASSUME NEW e \in End, NEW c \in Conns, FinishRead(e, c)
      PROVE  Quiet(Opening) \/ Sending
  BY <1>7 DEF FinishRead
<1>8. ASSUME NEW e \in End, NEW c \in Conns, ReadEof(e, c) PROVE Quiet(Opening) \/ Sending
  BY <1>8 DEF ReadEof
<1>9. ASSUME NEW e \in End, NEW c \in Conns, StartWrite(e, c)
      PROVE  Quiet(Opening) \/ Sending
  BY <1>9 DEF StartWrite
<1>10. ASSUME NEW e \in End, NEW c \in Conns, WriteFrame(e, c)
       PROVE  Quiet(Opening) \/ Sending
  BY <1>10
<1>11. ASSUME NEW e \in End, NEW c \in Conns, AppClose(e, c) PROVE Quiet(Opening) \/ Sending
  BY <1>11 DEF AppClose
<1>12. ASSUME NEW e \in End, StartShutdown(e) PROVE Quiet(Opening) \/ Sending
  BY <1>12 DEF StartShutdown
<1>13. ASSUME NEW e \in End, RangeNext(e) PROVE Quiet(Opening) \/ Sending
  BY <1>13 DEF RangeNext
<1>14. ASSUME NEW e \in End, CloseAcceptCh(e) PROVE Quiet(Opening) \/ Sending
  BY <1>14 DEF CloseAcceptCh
<1>15. ASSUME NEW e \in End,
              TestCh(Main(e), e, target[e]["main"], "testCh", "closeCh", "sendFin")
       PROVE  Quiet(Opening) \/ Sending
  BY <1>15 DEF TestCh
<1>16. ASSUME NEW e \in End, CloseCh(Main(e), e, target[e]["main"], "closeCh", "sendFin")
       PROVE  Quiet(Opening) \/ Sending
  BY <1>16 DEF CloseCh
<1>17. ASSUME NEW e \in End, SendFin(Main(e), e, target[e]["main"])
       PROVE  Quiet(Opening) \/ Sending
  <2>1. target[e]["main"] \in Conns
    BY <1>17 DEF SendFin, At, TargetOK, MainWorks, Claimed
  <2> QED
    BY <1>17, <2>1, SendFinNet, EndFacts, TypeNumbers DEF SendsTo
<1>18. ASSUME NEW e \in End, RemoveConnection(Main(e), e, target[e]["main"], "range")
       PROVE  Quiet(Opening) \/ Sending
  BY <1>18 DEF RemoveConnection
<1>19. ASSUME NEW e \in End, NEW c \in Conns,
              TestCh(Closer(e, c), e, c, "testCh", "closeCh", "sendFin")
       PROVE  Quiet(Opening) \/ Sending
  BY <1>19 DEF TestCh
<1>20. ASSUME NEW e \in End, NEW c \in Conns,
              CloseCh(Closer(e, c), e, c, "closeCh", "sendFin")
       PROVE  Quiet(Opening) \/ Sending
  BY <1>20 DEF CloseCh
<1>21. ASSUME NEW e \in End, NEW c \in Conns, SendFin(Closer(e, c), e, c)
       PROVE  Quiet(Opening) \/ Sending
  BY <1>21, SendFinNet, EndFacts, TypeNumbers DEF SendsTo
<1>22. ASSUME NEW e \in End, NEW c \in Conns, RemoveConnection(Closer(e, c), e, c, "done")
       PROVE  Quiet(Opening) \/ Sending
  BY <1>22 DEF RemoveConnection
<1>23. ASSUME NEW e \in End, SendSynAck(e) PROVE Quiet(Opening) \/ Sending
  BY <1>23
<1>24. ASSUME NEW e \in End, Queue(e) PROVE Quiet(Opening) \/ Sending
  BY <1>24 DEF Queue
<1>25. ASSUME NEW e \in End,
              TestCh(Recv(e), e, target[e]["recv"], "finTest", "finClose", "finAck")
       PROVE  Quiet(Opening) \/ Sending
  BY <1>25 DEF TestCh
<1>26. ASSUME NEW e \in End, CloseCh(Recv(e), e, target[e]["recv"], "finClose", "finAck")
       PROVE  Quiet(Opening) \/ Sending
  BY <1>26 DEF CloseCh
<1>27. ASSUME NEW e \in End, FinAck(e) PROVE Quiet(Opening) \/ Sending
  <2>1. target[e]["recv"] \in Conns
    BY <1>27 DEF FinAck, At, TargetOK
  <2> QED
    BY <1>27, <2>1, FinAckNet, EndFacts, TypeNumbers DEF SendsTo
<1>28. ASSUME NEW e \in End, NEW c \in Conns, NEW w \in net[e], HandleSyn(e, c, w)
       PROVE  Quiet(Opening) \/ Sending
  BY <1>28, ArrivesFacts DEF HandleSyn
<1>29. ASSUME NEW e \in End, NEW c \in Conns, NEW w \in net[e], HandleSynAck(e, c, w)
       PROVE  Quiet(Opening) \/ Sending
  BY <1>29, ArrivesFacts DEF HandleSynAck
<1>30. ASSUME NEW e \in End, NEW c \in Conns, NEW w \in net[e], HandleData(e, c, w)
       PROVE  Quiet(Opening) \/ Sending
  BY <1>30, ArrivesFacts DEF HandleData
<1>31. ASSUME NEW e \in End, NEW c \in Conns, NEW w \in net[e], HandleFin(e, c, w)
       PROVE  Quiet(Opening) \/ Sending
  BY <1>31, ArrivesFacts DEF HandleFin
<1>32. ASSUME NEW e \in End, NEW c \in Conns, NEW w \in net[e], HandleFinAck(e, c, w)
       PROVE  Quiet(Opening) \/ Sending
  BY <1>32, ArrivesFacts DEF HandleFinAck
<1>33. CASE UNCHANGED vars
  BY <1>33 DEF vars
<1> QED
  BY NextCases, <1>1, <1>2, <1>3, <1>4, <1>5, <1>6, <1>7, <1>8, <1>9, <1>10, <1>11, <1>12,
     <1>13, <1>14, <1>15, <1>16, <1>17, <1>18, <1>19, <1>20, <1>21, <1>22, <1>23, <1>24,
     <1>25, <1>26, <1>27, <1>28, <1>29, <1>30, <1>31, <1>32, <1>33

\* The client neither answers a SYN nor queues a Connection.
LEMMA ClientStep ==
    ASSUME TypeInv, ShakeInv, \A e \in End, c \in Conns : BornOK(e, c), [Next]_vars
    PROVE  pc'[Recv("client")] \notin {"synAck", "queue"} /\ acceptCh'["client"] = <<>>
<1>0. /\ pc[Recv("client")] \notin {"synAck", "queue"} /\ acceptCh["client"] = <<>>
      /\ pc \in [Proc -> Label] /\ acceptCh \in [End -> Seq(Conns)]
  BY DEF TypeInv, ShakeInv, OneWay, PcOK, MapsOK
<1> DEFINE Goal == pc'[Recv("client")] \notin {"synAck", "queue"} /\ acceptCh'["client"] = <<>>
<1> USE <1>0, EndFacts, ProcNames, KindsDiffer, NamesDiffer DEF At, Goto
<1>1. ASSUME NEW c \in Conns, Dial(c) PROVE Goal
  BY <1>1 DEF Dial
<1>2. ASSUME NEW c \in Conns, DialReturns(c) PROVE Goal
  <2>1. pc' = Use("client", c, "up") /\ PcOK /\ acceptCh' = acceptCh
    BY <1>2 DEF DialReturns, TypeInv
  <2> QED
    BY <2>1, UseFacts
<1>3. ASSUME NEW c \in Conns, DialFails(c) PROVE Goal
  BY <1>3 DEF DialFails
<1>4. ASSUME NEW e \in End, Accept(e) PROVE Goal
  <2>1. acceptCh[e] # <<>>
    BY <1>4 DEF Accept
  <2>2. PICK c \in Conns : pc' = Use(e, c, "up") /\ PcOK /\ acceptCh'["client"] = acceptCh["client"]
    BY <1>4, <2>1, AcceptedConn DEF Accept, TypeInv
  <2> QED
    BY <2>2, UseFacts
<1>5. ASSUME NEW e \in End, NEW c \in Conns, StartRead(e, c) PROVE Goal
  BY <1>5 DEF StartRead
<1>6. ASSUME NEW e \in End, NEW c \in Conns, ReceiveOne(e, c) PROVE Goal
  BY <1>6 DEF ReceiveOne
<1>7. ASSUME NEW e \in End, NEW c \in Conns, FinishRead(e, c) PROVE Goal
  BY <1>7 DEF FinishRead
<1>8. ASSUME NEW e \in End, NEW c \in Conns, ReadEof(e, c) PROVE Goal
  BY <1>8 DEF ReadEof
<1>9. ASSUME NEW e \in End, NEW c \in Conns, StartWrite(e, c) PROVE Goal
  BY <1>9 DEF StartWrite
<1>10. ASSUME NEW e \in End, NEW c \in Conns, WriteFrame(e, c) PROVE Goal
  BY <1>10 DEF WriteFrame
<1>11. ASSUME NEW e \in End, NEW c \in Conns, AppClose(e, c) PROVE Goal
  BY <1>11 DEF AppClose, Swap
<1>12. ASSUME NEW e \in End, StartShutdown(e) PROVE Goal
  BY <1>12 DEF StartShutdown
<1>13. ASSUME NEW e \in End, RangeNext(e) PROVE Goal
  BY <1>13 DEF RangeNext, Swap
<1>14. ASSUME NEW e \in End, CloseAcceptCh(e) PROVE Goal
  BY <1>14 DEF CloseAcceptCh
<1>15. ASSUME NEW e \in End,
              TestCh(Main(e), e, target[e]["main"], "testCh", "closeCh", "sendFin")
       PROVE  Goal
  BY <1>15 DEF TestCh
<1>16. ASSUME NEW e \in End, CloseCh(Main(e), e, target[e]["main"], "closeCh", "sendFin")
       PROVE  Goal
  BY <1>16 DEF CloseCh
<1>17. ASSUME NEW e \in End, SendFin(Main(e), e, target[e]["main"]) PROVE Goal
  BY <1>17 DEF SendFin
<1>18. ASSUME NEW e \in End, RemoveConnection(Main(e), e, target[e]["main"], "range")
       PROVE  Goal
  BY <1>18 DEF RemoveConnection
<1>19. ASSUME NEW e \in End, NEW c \in Conns,
              TestCh(Closer(e, c), e, c, "testCh", "closeCh", "sendFin")
       PROVE  Goal
  BY <1>19 DEF TestCh
<1>20. ASSUME NEW e \in End, NEW c \in Conns,
              CloseCh(Closer(e, c), e, c, "closeCh", "sendFin")
       PROVE  Goal
  BY <1>20 DEF CloseCh
<1>21. ASSUME NEW e \in End, NEW c \in Conns, SendFin(Closer(e, c), e, c) PROVE Goal
  BY <1>21 DEF SendFin
<1>22. ASSUME NEW e \in End, NEW c \in Conns, RemoveConnection(Closer(e, c), e, c, "done")
       PROVE  Goal
  BY <1>22 DEF RemoveConnection
<1>23. ASSUME NEW e \in End, SendSynAck(e) PROVE Goal
  BY <1>23 DEF SendSynAck
<1>24. ASSUME NEW e \in End, Queue(e) PROVE Goal
  BY <1>24 DEF Queue
<1>25. ASSUME NEW e \in End,
              TestCh(Recv(e), e, target[e]["recv"], "finTest", "finClose", "finAck")
       PROVE  Goal
  BY <1>25 DEF TestCh
<1>26. ASSUME NEW e \in End, CloseCh(Recv(e), e, target[e]["recv"], "finClose", "finAck")
       PROVE  Goal
  BY <1>26 DEF CloseCh
<1>27. ASSUME NEW e \in End, FinAck(e) PROVE Goal
  BY <1>27 DEF FinAck
<1>28. ASSUME NEW e \in End, NEW c \in Conns, NEW w \in net[e], HandleSyn(e, c, w) PROVE Goal
  <2>1. e # "client"
    BY <1>28, SynIsNew
  <2> QED
    BY <1>28, <2>1 DEF HandleSyn
<1>29. ASSUME NEW e \in End, NEW c \in Conns, NEW w \in net[e], HandleSynAck(e, c, w) PROVE Goal
  BY <1>29 DEF HandleSynAck
<1>30. ASSUME NEW e \in End, NEW c \in Conns, NEW w \in net[e], HandleData(e, c, w) PROVE Goal
  BY <1>30 DEF HandleData
<1>31. ASSUME NEW e \in End, NEW c \in Conns, NEW w \in net[e], HandleFin(e, c, w) PROVE Goal
  BY <1>31 DEF HandleFin, Swap
<1>32. ASSUME NEW e \in End, NEW c \in Conns, NEW w \in net[e], HandleFinAck(e, c, w) PROVE Goal
  BY <1>32 DEF HandleFinAck
<1>33. CASE UNCHANGED vars
  BY <1>33 DEF vars
<1> QED
  BY NextCases, <1>1, <1>2, <1>3, <1>4, <1>5, <1>6, <1>7, <1>8, <1>9, <1>10, <1>11, <1>12,
     <1>13, <1>14, <1>15, <1>16, <1>17, <1>18, <1>19, <1>20, <1>21, <1>22, <1>23, <1>24,
     <1>25, <1>26, <1>27, <1>28, <1>29, <1>30, <1>31, <1>32, <1>33

\* Dial starts once, and returns a Connection when it is established.
LEMMA DialerStep ==
    ASSUME TypeInv, ShakeInv, NEW b \in Conns, [Next]_vars
    PROVE  \/ Dial(b) \/ DialReturns(b)
           \/ /\ pc'[Dialer(b)] = "idle" <=> pc[Dialer(b)] = "idle"
              /\ pc'[Dialer(b)] = "up" => pc[Dialer(b)] = "up"
<1> DEFINE Goal == \/ Dial(b) \/ DialReturns(b)
                   \/ /\ pc'[Dialer(b)] = "idle" <=> pc[Dialer(b)] = "idle"
                      /\ pc'[Dialer(b)] = "up" => pc[Dialer(b)] = "up"
<1>0. pc \in [Proc -> Label]
  BY DEF TypeInv, PcOK
<1> USE <1>0, EndFacts, ProcNames, KindsDiffer, NamesDiffer DEF At, Goto
<1>1. ASSUME NEW c \in Conns, Dial(c) PROVE Goal
  <2>1. CASE b # c
    BY <1>1, <2>1 DEF Dial
  <2> QED
    BY <1>1, <2>1
<1>2. ASSUME NEW c \in Conns, DialReturns(c) PROVE Goal
  <2>1. pc' = Use("client", c, "up") /\ PcOK
    BY <1>2 DEF DialReturns, TypeInv
  <2>2. CASE b # c
    BY <2>1, <2>2, UseFacts
  <2> QED
    BY <1>2, <2>2
<1>3. ASSUME NEW c \in Conns, DialFails(c) PROVE Goal
  BY <1>3 DEF DialFails
<1>4. ASSUME NEW e \in End, Accept(e) PROVE Goal
  <2>1. acceptCh[e] # <<>>
    BY <1>4 DEF Accept
  <2>2. PICK c \in Conns : pc' = Use(e, c, "up") /\ PcOK
    BY <1>4, <2>1, AcceptedConn DEF Accept, TypeInv
  <2>3. e # "client"
    BY <2>1 DEF ShakeInv, OneWay
  <2> QED
    BY <2>2, <2>3, UseFacts
<1>5. ASSUME NEW e \in End, NEW c \in Conns, StartRead(e, c) PROVE Goal
  BY <1>5 DEF StartRead
<1>6. ASSUME NEW e \in End, NEW c \in Conns, ReceiveOne(e, c) PROVE Goal
  BY <1>6 DEF ReceiveOne
<1>7. ASSUME NEW e \in End, NEW c \in Conns, FinishRead(e, c) PROVE Goal
  BY <1>7 DEF FinishRead
<1>8. ASSUME NEW e \in End, NEW c \in Conns, ReadEof(e, c) PROVE Goal
  BY <1>8 DEF ReadEof
<1>9. ASSUME NEW e \in End, NEW c \in Conns, StartWrite(e, c) PROVE Goal
  BY <1>9 DEF StartWrite
<1>10. ASSUME NEW e \in End, NEW c \in Conns, WriteFrame(e, c) PROVE Goal
  BY <1>10 DEF WriteFrame
<1>11. ASSUME NEW e \in End, NEW c \in Conns, AppClose(e, c) PROVE Goal
  BY <1>11 DEF AppClose, Swap
<1>12. ASSUME NEW e \in End, StartShutdown(e) PROVE Goal
  BY <1>12 DEF StartShutdown
<1>13. ASSUME NEW e \in End, RangeNext(e) PROVE Goal
  BY <1>13 DEF RangeNext, Swap
<1>14. ASSUME NEW e \in End, CloseAcceptCh(e) PROVE Goal
  BY <1>14 DEF CloseAcceptCh
<1>15. ASSUME NEW e \in End,
              TestCh(Main(e), e, target[e]["main"], "testCh", "closeCh", "sendFin")
       PROVE  Goal
  BY <1>15 DEF TestCh
<1>16. ASSUME NEW e \in End, CloseCh(Main(e), e, target[e]["main"], "closeCh", "sendFin")
       PROVE  Goal
  BY <1>16 DEF CloseCh
<1>17. ASSUME NEW e \in End, SendFin(Main(e), e, target[e]["main"]) PROVE Goal
  BY <1>17 DEF SendFin
<1>18. ASSUME NEW e \in End, RemoveConnection(Main(e), e, target[e]["main"], "range")
       PROVE  Goal
  BY <1>18 DEF RemoveConnection
<1>19. ASSUME NEW e \in End, NEW c \in Conns,
              TestCh(Closer(e, c), e, c, "testCh", "closeCh", "sendFin")
       PROVE  Goal
  BY <1>19 DEF TestCh
<1>20. ASSUME NEW e \in End, NEW c \in Conns,
              CloseCh(Closer(e, c), e, c, "closeCh", "sendFin")
       PROVE  Goal
  BY <1>20 DEF CloseCh
<1>21. ASSUME NEW e \in End, NEW c \in Conns, SendFin(Closer(e, c), e, c) PROVE Goal
  BY <1>21 DEF SendFin
<1>22. ASSUME NEW e \in End, NEW c \in Conns, RemoveConnection(Closer(e, c), e, c, "done")
       PROVE  Goal
  BY <1>22 DEF RemoveConnection
<1>23. ASSUME NEW e \in End, SendSynAck(e) PROVE Goal
  BY <1>23 DEF SendSynAck
<1>24. ASSUME NEW e \in End, Queue(e) PROVE Goal
  BY <1>24 DEF Queue
<1>25. ASSUME NEW e \in End,
              TestCh(Recv(e), e, target[e]["recv"], "finTest", "finClose", "finAck")
       PROVE  Goal
  BY <1>25 DEF TestCh
<1>26. ASSUME NEW e \in End, CloseCh(Recv(e), e, target[e]["recv"], "finClose", "finAck")
       PROVE  Goal
  BY <1>26 DEF CloseCh
<1>27. ASSUME NEW e \in End, FinAck(e) PROVE Goal
  BY <1>27 DEF FinAck
<1>28. ASSUME NEW e \in End, NEW c \in Conns, NEW w \in net[e], HandleSyn(e, c, w) PROVE Goal
  BY <1>28 DEF HandleSyn
<1>29. ASSUME NEW e \in End, NEW c \in Conns, NEW w \in net[e], HandleSynAck(e, c, w) PROVE Goal
  BY <1>29 DEF HandleSynAck
<1>30. ASSUME NEW e \in End, NEW c \in Conns, NEW w \in net[e], HandleData(e, c, w) PROVE Goal
  BY <1>30 DEF HandleData
<1>31. ASSUME NEW e \in End, NEW c \in Conns, NEW w \in net[e], HandleFin(e, c, w) PROVE Goal
  BY <1>31 DEF HandleFin, Swap
<1>32. ASSUME NEW e \in End, NEW c \in Conns, NEW w \in net[e], HandleFinAck(e, c, w) PROVE Goal
  BY <1>32 DEF HandleFinAck
<1>33. CASE UNCHANGED vars
  BY <1>33 DEF vars
<1> QED
  BY NextCases, <1>1, <1>2, <1>3, <1>4, <1>5, <1>6, <1>7, <1>8, <1>9, <1>10, <1>11, <1>12,
     <1>13, <1>14, <1>15, <1>16, <1>17, <1>18, <1>19, <1>20, <1>21, <1>22, <1>23, <1>24,
     <1>25, <1>26, <1>27, <1>28, <1>29, <1>30, <1>31, <1>32, <1>33

\* Dial sends the only SYN for its number.
LEMMA DialShakes ==
    ASSUME TypeInv, ShakeInv, \A e \in End, b \in Conns : BornOK(e, b),
           NEW c \in Conns, Dial(c), [Next]_vars
    PROVE  ShakeInv'
<1>1. SendsTo("server", FrameSyn, c)
  BY DialNet DEF TypeInv
<1>2. \A b \in Conns : /\ conn'["server"][b] = conn["server"][b]
                        /\ conn'["client"][b].established = conn["client"][b].established
  BY DialFields, EndFacts DEF TypeInv, OnlyConn
<1>3. /\ pc[Dialer(c)] = "idle" /\ pc'[Dialer(c)] \in {"wait", "failed"}
      /\ \A b \in Conns : b # c => pc'[Dialer(b)] = pc[Dialer(b)]
  BY ProcNames, NamesDiffer DEF Dial, At, Goto, TypeInv, PcOK
<1>4. net'["client"] = net["client"]
  BY <1>1, EndFacts DEF SendsTo, Grows
<1>5. PICK v : /\ v[1] = FrameSyn /\ v[2] = c
               /\ \A w \in net'["server"] : w \in net["server"] \/ w = v
  <2>1. CASE net' = net
    <3>1. PICK v : v = <<FrameSyn, c>>
      OBVIOUS
    <3> QED
      BY <2>1, <3>1
  <2>2. CASE \E v \in Seq(Nat) : Grows("server", v) /\ v[1] = FrameSyn /\ v[2] = c
    BY <2>2 DEF Grows
  <2> QED
    BY <1>1, <2>1, <2>2 DEF SendsTo
<1>6. ~conn["server"][c].born /\ \A w \in net["server"] : ~(w[1] = FrameSyn /\ w[2] = c)
  BY <1>3 DEF ShakeInv, SynOK
<1>7. OneWay'
  BY <1>4, <1>5, ClientStep, TypeNumbers DEF ShakeInv, OneWay
<1>8. ASSUME NEW b \in Conns PROVE SynOK(b)'
  <2>1. CASE b = c
    <3>1. \A w \in net'["server"] : w[1] = FrameSyn /\ w[2] = c => w = v
      BY <1>5, <1>6
    <3> QED
      BY <1>2, <1>3, <1>6, <2>1, <3>1 DEF SynOK
  <2>2. CASE b # c
    <3>1. \A w \in net'["server"] : w[1] = FrameSyn /\ w[2] = b => w \in net["server"]
      BY <1>5, <2>2
    <3>2. SynOK(b) /\ pc'[Dialer(b)] = pc[Dialer(b)] /\ conn'["server"][b] = conn["server"][b]
      BY <1>2, <1>3, <2>2 DEF ShakeInv
    <3> QED
      BY <3>1, <3>2 DEF SynOK
  <2> QED
    BY <2>1, <2>2
<1>9. ASSUME NEW b \in Conns PROVE SynAckOK(b)'
  <2>1. SynAckOK(b) /\ (pc'[Dialer(b)] = "up" => pc[Dialer(b)] = "up")
    BY <1>3 DEF ShakeInv
  <2> QED
    BY <1>2, <1>4, <2>1 DEF SynAckOK
<1> QED
  BY <1>7, <1>8, <1>9 DEF ShakeInv

\* The server answers for a Connection that it has.
LEMMA SynAckShakes ==
    ASSUME TypeInv, ShakeInv, \A e \in End, b \in Conns : BornOK(e, b),
           NEW e \in End, SendSynAck(e), [Next]_vars
    PROVE  ShakeInv'
<1>0. e = "server"
  BY EndFacts DEF SendSynAck, At, ShakeInv, OneWay
<1>1. PICK c \in Conns : /\ c = target["server"]["recv"] /\ SendsTo("client", FrameSynAck, c)
                         /\ conn["server"][c].born
  <2>1. target["server"]["recv"] \in Conns
        /\ SendsTo("client", FrameSynAck, target["server"]["recv"])
    BY <1>0, SynAckNet, EndFacts DEF TypeInv
  <2>2. pc[Recv("server")] # "idle"
    BY <1>0 DEF SendSynAck, At
  <2> QED
    BY <1>0, <2>1, <2>2, EndFacts DEF BornOK
<1>2. conn' = conn /\ \A b \in Conns : pc'[Dialer(b)] = pc[Dialer(b)]
  BY ProcNames, KindsDiffer DEF SendSynAck, At, Goto, TypeInv, PcOK
<1>3. net'["server"] = net["server"]
  BY <1>1, EndFacts DEF SendsTo, Grows
<1>4. ASSUME NEW w \in net'["client"]
      PROVE  w \in net["client"] \/ (w[1] = FrameSynAck /\ w[2] = c)
  BY <1>1 DEF SendsTo, Grows
<1>5. OneWay'
  BY <1>3, <1>4, ClientStep, TypeNumbers DEF ShakeInv, OneWay
<1>6. ASSUME NEW b \in Conns PROVE SynOK(b)'
  BY <1>2, <1>3 DEF ShakeInv, SynOK
<1>7. ASSUME NEW b \in Conns PROVE SynAckOK(b)'
  BY <1>1, <1>2, <1>4 DEF ShakeInv, SynAckOK
<1> QED
  BY <1>5, <1>6, <1>7 DEF ShakeInv

\* The server has no second SYN for the number.
LEMMA SynShakes ==
    ASSUME TypeInv, ShakeInv, \A e \in End, b \in Conns : BornOK(e, b),
           NEW e \in End, NEW c \in Conns, NEW w \in net[e], HandleSyn(e, c, w), [Next]_vars
    PROVE  ShakeInv'
<1>0. e = "server" /\ ~conn["server"][c].born
  BY SynIsNew
<1>1. /\ Shrinks("server") /\ w \in net["server"] /\ w[1] = FrameSyn /\ w[2] = c
      /\ w \notin net'["server"]
  BY <1>0, ArrivesFacts DEF HandleSyn, TypeInv
<1>2. /\ conn'["server"][c].born /\ conn'["client"] = conn["client"]
      /\ \A b \in Conns : b # c => conn'["server"][b] = conn["server"][b]
  <2>1. conn'["server"][c].born /\ OnlyConn("server", c)
    BY <1>0, SynFields DEF TypeInv
  <2>2. conn'["client"] = conn["client"]
    BY <1>0, EndFacts DEF HandleSyn, TypeInv, ConnOK
  <2> QED
    BY <2>1, <2>2, EndFacts DEF OnlyConn
<1>3. \A b \in Conns : pc'[Dialer(b)] = pc[Dialer(b)]
  BY ProcNames, KindsDiffer DEF HandleSyn, Goto, TypeInv, PcOK
<1>4. net'["client"] = net["client"] /\ net'["server"] \subseteq net["server"]
  BY <1>1, EndFacts DEF Shrinks
<1>5. pc[Dialer(c)] # "idle" /\ \A v \in net'["server"] : ~(v[1] = FrameSyn /\ v[2] = c)
  BY <1>1, <1>4 DEF ShakeInv, SynOK
<1>6. OneWay'
  BY <1>4, ClientStep DEF ShakeInv, OneWay
<1>7. ASSUME NEW b \in Conns PROVE SynOK(b)'
  <2>1. CASE b = c
    BY <1>3, <1>5, <2>1 DEF SynOK
  <2>2. CASE b # c
    BY <1>2, <1>3, <1>4, <2>2 DEF ShakeInv, SynOK
  <2> QED
    BY <2>1, <2>2
<1>8. ASSUME NEW b \in Conns PROVE SynAckOK(b)'
  <2>1. SynAckOK(b) /\ (conn["server"][b].born => conn'["server"][b].born)
    BY <1>2 DEF ShakeInv
  <2> QED
    BY <1>2, <1>3, <1>4, <2>1 DEF SynAckOK
<1> QED
  BY <1>6, <1>7, <1>8 DEF ShakeInv

\* The handshake, in every step.
LEMMA ShakeStep ==
    ASSUME TypeInv, ShakeInv, \A e \in End, b \in Conns : BornOK(e, b), [Next]_vars
    PROVE  ShakeInv'
<1>1. CASE \E c \in Conns : Dial(c)
  BY <1>1, DialShakes
<1>2. CASE \E e \in End : SendSynAck(e)
  BY <1>2, SynAckShakes
<1>3. CASE \E e \in End, c \in Conns : \E w \in net[e] : HandleSyn(e, c, w)
  BY <1>3, SynShakes
<1>4. CASE /\ \A c \in Conns : ~Dial(c)
           /\ \A e \in End : ~SendSynAck(e)
           /\ \A e \in End, c \in Conns : \A w \in net[e] : ~HandleSyn(e, c, w)
  <2>1. Quiet({FrameSyn, FrameSynAck})
    <3>1. CASE Quiet(Opening)
      BY <3>1 DEF Quiet, Opening
    <3>2. ASSUME NEW e \in End, NEW c \in Conns, WriteFrame(e, c)
          PROVE  Quiet({FrameSyn, FrameSynAck})
      BY <3>2, WriteNet, EndFacts, TypeNumbers DEF Quiet, TypeInv
    <3> QED
      BY <1>4, <3>1, <3>2, SendingStep DEF Sending
  <2>2. ASSUME NEW b \in Conns
        PROVE  /\ conn'["server"][b].born = conn["server"][b].born
               /\ conn'["client"][b].established => conn["server"][b].born
    <3>0. conn["client"][b].established => conn["server"][b].born
      BY DEF ShakeInv, SynAckOK
    <3>1. CASE LifeSame
      BY <3>0, <3>1, EndFacts DEF LifeSame, SameLife
    <3>2. ASSUME NEW e \in End, NEW c \in Conns, NEW w \in net[e], HandleSynAck(e, c, w)
          PROVE  /\ conn'["server"][b].born = conn["server"][b].born
                 /\ conn'["client"][b].established => conn["server"][b].born
      <4>1. OnlyConn(e, c) /\ conn'[e][c].born = conn[e][c].born
        BY <3>2, SynAckFields DEF TypeInv
      <4>2. conn'["server"][b].born = conn["server"][b].born
        BY <4>1, EndFacts DEF OnlyConn
      <4>3. CASE e = "client" /\ b = c
        <5>1. w \in net["client"] /\ w[1] = FrameSynAck /\ w[2] = b
          BY <3>2, <4>3, ArrivesFacts DEF HandleSynAck, TypeInv
        <5>2. conn["server"][b].born
          BY <5>1 DEF ShakeInv, SynAckOK
        <5> QED
          BY <4>2, <5>2
      <4>4. CASE e # "client" \/ b # c
        BY <3>0, <4>1, <4>2, <4>4, EndFacts DEF OnlyConn
      <4> QED
        BY <4>3, <4>4
    <3> QED
      BY <1>4, <3>1, <3>2, LifeStep DEF LifeStarts
  <2>3. ASSUME NEW b \in Conns
        PROVE  /\ pc'[Dialer(b)] = "idle" <=> pc[Dialer(b)] = "idle"
               /\ pc'[Dialer(b)] = "up" => conn["server"][b].born
    <3>0. /\ conn["client"][b].established => conn["server"][b].born
          /\ pc[Dialer(b)] = "up" => conn["server"][b].born
      BY DEF ShakeInv, SynAckOK
    <3>1. CASE DialReturns(b)
      <4>1. /\ pc' = Use("client", b, "up") /\ pc[Dialer(b)] = "wait" /\ PcOK
            /\ conn["client"][b].established
        BY <3>1 DEF DialReturns, At, TypeInv
      <4>2. pc'[Dialer(b)] = "up"
        BY <4>1, UseFacts, EndFacts
      <4> QED
        BY <3>0, <4>1, <4>2
    <3> QED
      BY <1>4, <3>0, <3>1, DialerStep
  <2>4. Calm
    BY <2>1, <2>2, <2>3, ClientStep DEF Calm
  <2> QED
    BY <2>4, ShakeKept DEF TypeInv
<1> QED
  BY <1>1, <1>2, <1>3, <1>4

-----------------------------------------------------------------------------
(***************************************************************************)
(* The order of the bytes.                                                 *)
(***************************************************************************)
BytesSame ==
    \A d \in End, b \in Conns :
        /\ Handled(conn'[d][b]) = Handled(conn[d][b])
        /\ conn'[d][b].readCh = conn[d][b].readCh /\ conn'[d][b].fed = conn[d][b].fed
BytesMove ==
    \E e \in End, c \in Conns : ReceiveOne(e, c) \/ \E w \in net[e] : HandleData(e, c, w)

\* Bytes move when a frame is delivered or taken from readCh.
LEMMA BytesStep ==
    ASSUME TypeInv, ShakeInv, \A e \in End, c \in Conns : BornOK(e, c), [Next]_vars
    PROVE  BytesSame \/ BytesMove
<1> USE DEF TypeInv, BytesMove
<1>1. ASSUME NEW c \in Conns, Dial(c) PROVE BytesSame \/ BytesMove
  <2>1. /\ OnlyConn("client", c) /\ SameBytes(conn["client"][c], conn'["client"][c])
    BY <1>1, DialFields
  <2> QED
    BY <2>1 DEF BytesSame, OnlyConn, SameBytes, Handled
<1>2. ASSUME NEW c \in Conns, DialReturns(c) PROVE BytesSame \/ BytesMove
  BY <1>2 DEF DialReturns, BytesSame
<1>3. ASSUME NEW c \in Conns, DialFails(c) PROVE BytesSame \/ BytesMove
  BY <1>3 DEF DialFails, BytesSame
<1>4. ASSUME NEW e \in End, Accept(e) PROVE BytesSame \/ BytesMove
  BY <1>4 DEF Accept, BytesSame
<1>5. ASSUME NEW e \in End, NEW c \in Conns, StartRead(e, c) PROVE BytesSame \/ BytesMove
  <2>1. CASE conn' = [conn EXCEPT ![e][c] = HandOut(conn[e][c], conn[e][c].readBuf)]
    <3>1. /\ OnlyConn(e, c) /\ Handled(conn'[e][c]) = Handled(conn[e][c])
          /\ conn'[e][c].readCh = conn[e][c].readCh /\ conn'[e][c].fed = conn[e][c].fed
      BY <2>1, HandsOut
    <3> QED
      BY <3>1 DEF BytesSame, OnlyConn
  <2>2. CASE UNCHANGED conn
    BY <2>2 DEF BytesSame
  <2> QED
    BY <1>5, <2>1, <2>2 DEF StartRead
<1>6. ASSUME NEW e \in End, NEW c \in Conns, ReceiveOne(e, c) PROVE BytesSame \/ BytesMove
  BY <1>6
<1>7. ASSUME NEW e \in End, NEW c \in Conns, FinishRead(e, c) PROVE BytesSame \/ BytesMove
  <2>1. /\ OnlyConn(e, c) /\ Handled(conn'[e][c]) = Handled(conn[e][c])
        /\ conn'[e][c].readCh = conn[e][c].readCh /\ conn'[e][c].fed = conn[e][c].fed
    BY <1>7, HandsOut DEF FinishRead
  <2> QED
    BY <2>1 DEF BytesSame, OnlyConn
<1>8. ASSUME NEW e \in End, NEW c \in Conns, ReadEof(e, c) PROVE BytesSame \/ BytesMove
  BY <1>8 DEF ReadEof, BytesSame
<1>9. ASSUME NEW e \in End, NEW c \in Conns, StartWrite(e, c) PROVE BytesSame \/ BytesMove
  BY <1>9 DEF StartWrite, BytesSame
<1>10. ASSUME NEW e \in End, NEW c \in Conns, WriteFrame(e, c) PROVE BytesSame \/ BytesMove
  <2>1. OnlyConn(e, c) /\ SameBytes(conn[e][c], conn'[e][c])
    BY <1>10, WriteFields
  <2> QED
    BY <2>1 DEF BytesSame, OnlyConn, SameBytes, Handled
<1>11. ASSUME NEW e \in End, NEW c \in Conns, AppClose(e, c) PROVE BytesSame \/ BytesMove
  <2>1. /\ OnlyConn(e, c) /\ SameBytes(conn[e][c], conn'[e][c])
    BY <1>11, SwapFields DEF AppClose
  <2> QED
    BY <2>1 DEF BytesSame, OnlyConn, SameBytes, Handled
<1>12. ASSUME NEW e \in End, StartShutdown(e) PROVE BytesSame \/ BytesMove
  BY <1>12 DEF StartShutdown, BytesSame
<1>13. ASSUME NEW e \in End, RangeNext(e) PROVE BytesSame \/ BytesMove
  <2>1. PICK c \in Conns : Swap(Main(e), e, c, "testCh", "range")
    BY <1>13 DEF RangeNext, MapsOK
  <2>2. /\ OnlyConn(e, c) /\ SameBytes(conn[e][c], conn'[e][c])
    BY <2>1, SwapFields
  <2> QED
    BY <2>2 DEF BytesSame, OnlyConn, SameBytes, Handled
<1>14. ASSUME NEW e \in End, CloseAcceptCh(e) PROVE BytesSame \/ BytesMove
  BY <1>14 DEF CloseAcceptCh, BytesSame
<1>15. ASSUME NEW e \in End,
              TestCh(Main(e), e, target[e]["main"], "testCh", "closeCh", "sendFin")
       PROVE  BytesSame \/ BytesMove
  BY <1>15 DEF TestCh, BytesSame
<1>16. ASSUME NEW e \in End, CloseCh(Main(e), e, target[e]["main"], "closeCh", "sendFin")
       PROVE  BytesSame \/ BytesMove
  <2>1. target[e]["main"] \in Conns
    BY <1>16 DEF CloseCh, At, TargetOK, MainWorks, Claimed
  <2>2. PICK c \in Conns : c = target[e]["main"]
    BY <2>1
  <2>3. /\ OnlyConn(e, c) /\ SameBytes(conn[e][c], conn'[e][c])
    BY <1>16, <2>2, CloseChFields
  <2> QED
    BY <2>3 DEF BytesSame, OnlyConn, SameBytes, Handled
<1>17. ASSUME NEW e \in End, SendFin(Main(e), e, target[e]["main"])
       PROVE  BytesSame \/ BytesMove
  BY <1>17 DEF SendFin, BytesSame
<1>18. ASSUME NEW e \in End, RemoveConnection(Main(e), e, target[e]["main"], "range")
       PROVE  BytesSame \/ BytesMove
  BY <1>18 DEF RemoveConnection, BytesSame
<1>19. ASSUME NEW e \in End, NEW c \in Conns,
              TestCh(Closer(e, c), e, c, "testCh", "closeCh", "sendFin")
       PROVE  BytesSame \/ BytesMove
  BY <1>19 DEF TestCh, BytesSame
<1>20. ASSUME NEW e \in End, NEW c \in Conns,
              CloseCh(Closer(e, c), e, c, "closeCh", "sendFin")
       PROVE  BytesSame \/ BytesMove
  <2>1. /\ OnlyConn(e, c) /\ SameBytes(conn[e][c], conn'[e][c])
    BY <1>20, CloseChFields
  <2> QED
    BY <2>1 DEF BytesSame, OnlyConn, SameBytes, Handled
<1>21. ASSUME NEW e \in End, NEW c \in Conns, SendFin(Closer(e, c), e, c)
       PROVE  BytesSame \/ BytesMove
  BY <1>21 DEF SendFin, BytesSame
<1>22. ASSUME NEW e \in End, NEW c \in Conns, RemoveConnection(Closer(e, c), e, c, "done")
       PROVE  BytesSame \/ BytesMove
  BY <1>22 DEF RemoveConnection, BytesSame
<1>23. ASSUME NEW e \in End, SendSynAck(e) PROVE BytesSame \/ BytesMove
  BY <1>23 DEF SendSynAck, BytesSame
<1>24. ASSUME NEW e \in End, Queue(e) PROVE BytesSame \/ BytesMove
  BY <1>24 DEF Queue, BytesSame
<1>25. ASSUME NEW e \in End,
              TestCh(Recv(e), e, target[e]["recv"], "finTest", "finClose", "finAck")
       PROVE  BytesSame \/ BytesMove
  BY <1>25 DEF TestCh, BytesSame
<1>26. ASSUME NEW e \in End, CloseCh(Recv(e), e, target[e]["recv"], "finClose", "finAck")
       PROVE  BytesSame \/ BytesMove
  <2>1. target[e]["recv"] \in Conns
    BY <1>26 DEF CloseCh, At, TargetOK
  <2>2. PICK c \in Conns : c = target[e]["recv"]
    BY <2>1
  <2>3. /\ OnlyConn(e, c) /\ SameBytes(conn[e][c], conn'[e][c])
    BY <1>26, <2>2, CloseChFields
  <2> QED
    BY <2>3 DEF BytesSame, OnlyConn, SameBytes, Handled
<1>27. ASSUME NEW e \in End, FinAck(e) PROVE BytesSame \/ BytesMove
  BY <1>27 DEF FinAck, BytesSame
<1>28. ASSUME NEW e \in End, NEW c \in Conns, NEW w \in net[e], HandleSyn(e, c, w) PROVE BytesSame \/ BytesMove
  <2>1. conn[e][c] = Unborn
    BY <1>28, SynIsNew
  <2>2. /\ OnlyConn(e, c) /\ SameBytes(Unborn, conn'[e][c])
    BY <1>28, SynFields
  <2> QED
    BY <2>1, <2>2, UnbornFacts DEF BytesSame, OnlyConn, SameBytes, Handled
<1>29. ASSUME NEW e \in End, NEW c \in Conns, NEW w \in net[e], HandleSynAck(e, c, w)
       PROVE  BytesSame \/ BytesMove
  <2>1. /\ OnlyConn(e, c) /\ SameBytes(conn[e][c], conn'[e][c])
    BY <1>29, SynAckFields
  <2> QED
    BY <2>1 DEF BytesSame, OnlyConn, SameBytes, Handled
<1>30. ASSUME NEW e \in End, NEW c \in Conns, NEW w \in net[e], HandleData(e, c, w) PROVE BytesSame \/ BytesMove
  BY <1>30
<1>31. ASSUME NEW e \in End, NEW c \in Conns, NEW w \in net[e], HandleFin(e, c, w) PROVE BytesSame \/ BytesMove
  <2>1. CASE Swap(Recv(e), e, c, "finTest", "idle")
    <3>1. /\ OnlyConn(e, c) /\ SameBytes(conn[e][c], conn'[e][c])
      BY <2>1, SwapFields
    <3> QED
      BY <3>1 DEF BytesSame, OnlyConn, SameBytes, Handled
  <2>2. CASE UNCHANGED conn
    BY <2>2 DEF BytesSame
  <2> QED
    BY <1>31, <2>1, <2>2 DEF HandleFin
<1>32. ASSUME NEW e \in End, NEW c \in Conns, NEW w \in net[e], HandleFinAck(e, c, w)
       PROVE  BytesSame \/ BytesMove
  BY <1>32 DEF HandleFinAck, BytesSame
<1>33. CASE UNCHANGED vars
  BY <1>33 DEF vars, BytesSame
<1> QED
  BY NextCases, <1>1, <1>2, <1>3, <1>4, <1>5, <1>6, <1>7, <1>8, <1>9, <1>10, <1>11, <1>12,
     <1>13, <1>14, <1>15, <1>16, <1>17, <1>18, <1>19, <1>20, <1>21, <1>22, <1>23, <1>24,
     <1>25, <1>26, <1>27, <1>28, <1>29, <1>30, <1>31, <1>32, <1>33

\* What a Connection holds are numbers.
LEMMA HeldTypes ==
    ASSUME NEW x \in Connection
    PROVE  /\ Handled(x) \in Seq(Nat) /\ Len(Handled(x)) \in Nat
           /\ x.readCh \in Seq(Seq(Nat)) /\ Len(x.readCh) \in Nat /\ x.fed \in Seq(Nat)
<1>1. x.readCh \in Seq(Seq(Nat)) /\ x.readBuf \in Seq(Nat) /\ x.got \in Seq(Nat)
      /\ x.fed \in Seq(Nat)
  BY Fields
<1>2. PICK h : h = Handled(x)
  OBVIOUS
<1>3. h \in Seq(Nat) /\ Len(h) \in Nat
  BY <1>1, <1>2, TwoParts DEF Handled
<1> QED
  BY <1>1, <1>2, <1>3

\* Arithmetic for the places of bytes: l handled, m frames of two in readCh.
LEMMA Places ==
    /\ \A l, m \in Nat : m >= 1 => (l + 2) + 2 * (m - 1) = l + 2 * m
    /\ \A l, k \in Nat : /\ (l + 2) + 2 * k - 1 = l + 2 * (k + 1) - 1
                         /\ (l + 2) + 2 * k = l + 2 * (k + 1)
    /\ \A l, m \in Nat : (l + 2 * m) + 2 = l + 2 * (m + 1)
    /\ \A l, m \in Nat : \A i \in 1 .. l : i \in 1 .. l + 2 * m
    /\ \A l, m \in Nat : \A k \in 1 .. m :
         l + 2 * k - 1 \in 1 .. l + 2 * m /\ l + 2 * k \in 1 .. l + 2 * m
    /\ \A l, m \in Nat : /\ l + 2 * (m + 1) - 1 = (l + 2 * m) + 1
                         /\ l + 2 * (m + 1) = (l + 2 * m) + 2
    /\ \A l \in Nat : /\ l + 2 * 1 - 1 = l + 1 /\ l + 2 * 1 = l + 2
                      /\ \A i \in 1 .. l + 2 : i \in 1 .. l \/ i = l + 1 \/ i = l + 2
    /\ \A l \in Nat : \A i \in 1 .. l + 1 : i \in 1 .. l \/ i = l + 1
OBVIOUS

\* Read takes the frame that is next.
LEMMA ReceiveHeld ==
    ASSUME NEW x \in Connection, NEW y \in Connection, HeldOK(x), x.readCh # <<>>,
           y.readCh = Tail(x.readCh), Handled(y) = Handled(x) \o Head(x.readCh), y.fed = x.fed
    PROVE  HeldOK(y)
<1>1. PICK r \in Seq(Seq(Nat)) : r = x.readCh
  BY HeldTypes
<1>2. /\ Len(r) \in Nat /\ Len(r) >= 1 /\ 1 \in 1 .. Len(r) /\ Head(r) = r[1]
      /\ Len(Tail(r)) = Len(r) - 1
      /\ \A k \in 1 .. Len(Tail(r)) : k \in Nat /\ k + 1 \in 1 .. Len(r) /\ Tail(r)[k] = r[k + 1]
  BY <1>1
<1>3. PICK h \in Seq(Nat) : h = r[1]
  BY <1>2, ElementOfSeq
<1>4. PICK s \in Seq(Nat), f \in Seq(Nat) : s = Handled(x) /\ f = x.fed
  BY HeldTypes
<1>5. PICK g : g = Handled(y)
  OBVIOUS
<1>6. PICK l \in Nat, m \in Nat : l = Len(s) /\ m = Len(r) /\ m >= 1
  BY <1>2
<1>7. /\ Len(f) = l + 2 * m
      /\ \A i \in 1 .. l : f[i] = s[i]
      /\ \A k \in 1 .. m : /\ Len(r[k]) = 2
                           /\ f[l + 2 * k - 1] = r[k][1] /\ f[l + 2 * k] = r[k][2]
  BY <1>1, <1>4, <1>6 DEF HeldOK
<1>8. Len(h) = 2 /\ f[l + 1] = h[1] /\ f[l + 2] = h[2]
  <2>1. 1 \in 1 .. m /\ l + 2 * 1 - 1 = l + 1 /\ l + 2 * 1 = l + 2
    BY <1>2, <1>6, Places
  <2> QED
    BY <1>3, <1>7, <2>1
<1>9. g = s \o h
  BY <1>1, <1>2, <1>3, <1>4, <1>5
<1>10. /\ Len(g) = l + 2 /\ \A i \in 1 .. l : g[i] = s[i]
       /\ g[l + 1] = h[1] /\ g[l + 2] = h[2]
  <2>1. /\ Len(g) = Len(s) + Len(h)
        /\ \A i \in 1 .. Len(s) : g[i] = s[i]
        /\ \A i \in 1 .. Len(h) : g[Len(s) + i] = h[i]
    BY <1>9, TwoParts
  <2> QED
    BY <1>6, <1>8, <2>1
<1>11. ASSUME NEW i \in 1 .. Len(g) PROVE f[i] = g[i]
  <2>1. i \in 1 .. l \/ i = l + 1 \/ i = l + 2
    BY <1>10, Places
  <2> QED
    BY <1>7, <1>8, <1>10, <2>1
<1>12. Len(f) = Len(g) + 2 * Len(Tail(r))
  <2>1. (l + 2) + 2 * (m - 1) = l + 2 * m
    BY <1>6, Places
  <2> QED
    BY <1>2, <1>6, <1>7, <1>10, <2>1
<1>13. ASSUME NEW k \in 1 .. Len(Tail(r))
       PROVE  /\ Len(Tail(r)[k]) = 2
              /\ f[Len(g) + 2 * k - 1] = Tail(r)[k][1] /\ f[Len(g) + 2 * k] = Tail(r)[k][2]
  <2>1. k \in Nat /\ k + 1 \in 1 .. m /\ Tail(r)[k] = r[k + 1]
    BY <1>2, <1>6
  <2>2. /\ (l + 2) + 2 * k - 1 = l + 2 * (k + 1) - 1 /\ (l + 2) + 2 * k = l + 2 * (k + 1)
    BY <2>1, Places
  <2>3. /\ Len(r[k + 1]) = 2
        /\ f[l + 2 * (k + 1) - 1] = r[k + 1][1] /\ f[l + 2 * (k + 1)] = r[k + 1][2]
    BY <1>7, <2>1
  <2> QED
    BY <1>10, <2>1, <2>2, <2>3
<1> QED
  BY <1>1, <1>4, <1>5, <1>11, <1>12, <1>13 DEF HeldOK

\* Two bytes behind a sequence.
LEMMA PairBehind ==
    ASSUME NEW f \in Seq(Nat), NEW p \in Seq(Nat)
    PROVE  \A n \in Nat : Len(f) = n /\ Len(p) = 2 =>
               /\ Len(f \o p) = n + 2
               /\ (f \o p)[n + 1] = p[1] /\ (f \o p)[n + 2] = p[2]
               /\ \A i \in 1 .. n : (f \o p)[i] = f[i]
<1>1. PICK g : g = f \o p
  OBVIOUS
<1>2. /\ Len(g) = Len(f) + Len(p)
      /\ \A i \in 1 .. Len(f) : g[i] = f[i]
      /\ \A i \in 1 .. Len(p) : g[Len(f) + i] = p[i]
  BY <1>1, TwoParts
<1>3. 1 \in 1 .. 2 /\ 2 \in 1 .. 2
  OBVIOUS
<1> QED
  BY <1>1, <1>2, <1>3

\* A data frame goes behind what is held.
LEMMA DataHeld ==
    ASSUME NEW x \in Connection, NEW y \in Connection, HeldOK(x),
           NEW p \in Seq(Nat), Len(p) = 2, Handled(y) = Handled(x),
           y.readCh = Append(x.readCh, p), y.fed = x.fed \o p
    PROVE  HeldOK(y)
<1>1. PICK r \in Seq(Seq(Nat)) : r = x.readCh
  BY HeldTypes
<1>2. PICK s \in Seq(Nat), f \in Seq(Nat) : s = Handled(x) /\ f = x.fed
  BY HeldTypes
<1>3. PICK l \in Nat, m \in Nat : l = Len(s) /\ m = Len(r)
  OBVIOUS
<1>4. PICK q : q = Append(r, p)
  OBVIOUS
<1>5. Len(q) = m + 1 /\ q[m + 1] = p /\ \A k \in 1 .. m : q[k] = r[k]
  BY <1>3, <1>4
<1>6. /\ Len(f) = l + 2 * m
      /\ \A i \in 1 .. l : f[i] = s[i]
      /\ \A k \in 1 .. m : /\ Len(r[k]) = 2
                           /\ f[l + 2 * k - 1] = r[k][1] /\ f[l + 2 * k] = r[k][2]
  BY <1>1, <1>2, <1>3 DEF HeldOK
<1>7. PICK g : g = f \o p
  OBVIOUS
<1>8. PICK n \in Nat : n = l + 2 * m
  OBVIOUS
<1>9. /\ Len(g) = n + 2 /\ g[n + 1] = p[1] /\ g[n + 2] = p[2]
      /\ \A i \in 1 .. n : g[i] = f[i]
  BY <1>6, <1>7, <1>8, PairBehind
<1>10. Len(g) = l + 2 * (m + 1)
  BY <1>8, <1>9, Places
<1>11. ASSUME NEW i \in 1 .. l PROVE g[i] = s[i]
  <2>1. i \in 1 .. n
    BY <1>8, Places
  <2> QED
    BY <1>6, <1>9, <2>1
<1>12. ASSUME NEW k \in 1 .. m + 1
       PROVE  /\ Len(q[k]) = 2
              /\ g[l + 2 * k - 1] = q[k][1] /\ g[l + 2 * k] = q[k][2]
  <2>1. CASE k \in 1 .. m
    <3>1. l + 2 * k - 1 \in 1 .. n /\ l + 2 * k \in 1 .. n
      BY <1>8, <2>1, Places
    <3> QED
      BY <1>5, <1>6, <1>9, <2>1, <3>1
  <2>2. CASE k = m + 1
    <3>1. l + 2 * (m + 1) - 1 = n + 1 /\ l + 2 * (m + 1) = n + 2
      BY <1>8, Places
    <3> QED
      BY <1>5, <1>9, <2>2, <3>1
  <2>3. k \in 1 .. m \/ k = m + 1
    BY Places
  <2> QED
    BY <2>1, <2>2, <2>3
<1>13. y.readCh = q /\ Handled(y) = s /\ y.fed = g
  BY <1>1, <1>2, <1>4, <1>7
<1> QED
  BY <1>3, <1>5, <1>10, <1>11, <1>12, <1>13 DEF HeldOK

\* What is held, in every step.
LEMMA HeldStep ==
    ASSUME TypeInv, ShakeInv, ConnOK', NEW d \in End, NEW b \in Conns, HeldOK(conn[d][b]),
           \A e \in End, c \in Conns : BornOK(e, c), [Next]_vars
    PROVE  HeldOK(conn'[d][b])
<1>0. conn[d][b] \in Connection /\ conn'[d][b] \in Connection
  BY DEF TypeInv, ConnOK
<1>1. ASSUME NEW e \in End, NEW c \in Conns, ReceiveOne(e, c) PROVE HeldOK(conn'[d][b])
  <2>1. /\ OnlyConn(e, c) /\ conn[e][c].readCh # <<>>
        /\ conn'[e][c].readCh = Tail(conn[e][c].readCh) /\ conn'[e][c].fed = conn[e][c].fed
        /\ Handled(conn'[e][c]) = Handled(conn[e][c]) \o Head(conn[e][c].readCh)
    BY <1>1, ReceiveFields DEF TypeInv
  <2>2. CASE d = e /\ b = c
    BY <1>0, <2>1, <2>2, ReceiveHeld
  <2>3. CASE d # e \/ b # c
    BY <2>1, <2>3 DEF OnlyConn
  <2> QED
    BY <2>2, <2>3
<1>2. ASSUME NEW e \in End, NEW c \in Conns, NEW w \in net[e], HandleData(e, c, w)
      PROVE  HeldOK(conn'[d][b])
  <2>1. /\ OnlyConn(e, c) /\ PayloadOf(w) \in Seq(Nat) /\ Len(PayloadOf(w)) = 2
        /\ conn'[e][c].got = conn[e][c].got /\ conn'[e][c].readBuf = conn[e][c].readBuf
        /\ \/ conn'[e][c] = conn[e][c]
           \/ /\ conn'[e][c].readCh = Append(conn[e][c].readCh, PayloadOf(w))
              /\ conn'[e][c].fed = conn[e][c].fed \o PayloadOf(w)
    BY <1>2, DataFields DEF TypeInv
  <2>2. CASE d = e /\ b = c
    <3>1. Handled(conn'[d][b]) = Handled(conn[d][b])
      BY <2>1, <2>2 DEF Handled
    <3> QED
      BY <1>0, <2>1, <2>2, <3>1, DataHeld
  <2>3. CASE d # e \/ b # c
    BY <2>1, <2>3 DEF OnlyConn
  <2> QED
    BY <2>2, <2>3
<1>3. CASE BytesSame
  BY <1>3 DEF BytesSame, HeldOK
<1> QED
  BY <1>1, <1>2, <1>3, BytesStep DEF BytesMove

-----------------------------------------------------------------------------
(***************************************************************************)
(* The invariant.                                                          *)
(***************************************************************************)

\* It holds in the first state.
LEMMA InitInv ==
    ASSUME Init PROVE Inv
<1> USE ProcNames, EndFacts DEF Init
<1>1. \A d \in End, b \in Conns : conn[d][b] = Unborn
  OBVIOUS
<1>2. /\ \A b \in Conns : pc[Dialer(b)] = "idle"
      /\ \A d \in End : pc[Recv(d)] = "idle" /\ pc[Main(d)] = "idle"
      /\ \A d \in End, b \in Conns :
           pc[Reader(d, b)] = "off" /\ pc[Writer(d, b)] = "off" /\ pc[Closer(d, b)] = "off"
  BY DEF Dialer, Recv, Main, Reader, Writer, Closer
<1>3. /\ \A d \in End : net[d] = {} /\ acceptCh[d] = <<>> /\ connections[d] = {}
      /\ Len(<<>>) = 0 /\ <<>> \in Seq(Conns) /\ <<>> \in Seq(Seq(Nat)) /\ 1 .. 0 = {}
  OBVIOUS
<1>4. PcOK
  <2>1. pc \in [Proc -> Label]
    BY DEF Label, DialLabel, ReaderLabel
  <2> QED
    BY <1>2, <2>1 DEF PcOK, DialLabel, ReaderLabel, WriterLabel, CloserLabel, MainLabel, RecvLabel
<1>5. TargetOK
  BY <1>2 DEF TargetOK, MainWorks, Claimed
<1>6. NetOK
  BY <1>3 DEF NetOK
<1>7. ReadCap \in Nat /\ AcceptCap \in Nat /\ MaxFaults \in Nat
  BY MuxAssumption
<1>8. ConnOK
  BY <1>1, <1>3, <1>7, UnbornFacts DEF ConnOK
<1>9. MapsOK
  BY <1>3, <1>7 DEF MapsOK
<1>10. ShakeInv
  BY <1>1, <1>2, <1>3, UnbornFacts DEF ShakeInv, OneWay, SynOK, SynAckOK
<1>11. ASSUME NEW d \in End, NEW b \in Conns PROVE BornOK(d, b)
  BY <1>1, <1>2, <1>3 DEF BornOK, MainWorks, Claimed
<1>12. ASSUME NEW d \in End, NEW b \in Conns PROVE ClaimOK(d, b)
  BY <1>1, <1>2, UnbornFacts
     DEF ClaimOK, CloserClaims, MainClaims, RecvClaims, Claimed, FinClaimed
<1>13. ASSUME NEW d \in End, NEW b \in Conns PROVE HeldOK(conn[d][b])
  <2>1. Len(Handled(Unborn)) = 0 /\ Len(Unborn.readCh) = 0 /\ Len(Unborn.fed) = 0
    <3>1. <<>> \o <<>> = <<>>
      OBVIOUS
    <3> QED
      BY <1>3, <3>1, UnbornFacts DEF Handled
  <2>2. HeldOK(Unborn)
    BY <1>3, <2>1 DEF HeldOK
  <2> QED
    BY <1>1, <2>2
<1> QED
  BY <1>4, <1>5, <1>6, <1>8, <1>9, <1>10, <1>11, <1>12, <1>13 DEF Inv, TypeInv

\* Every step keeps it.
LEMMA NextInv ==
    ASSUME Inv, [Next]_vars PROVE Inv'
<1>0. /\ TypeInv /\ ShakeInv
      /\ \A e \in End, c \in Conns : BornOK(e, c) /\ ClaimOK(e, c) /\ HeldOK(conn[e][c])
  BY DEF Inv
<1>1. PcOK'
  BY <1>0, PcStep DEF TypeInv
<1>2. TargetOK'
  BY <1>0, TargetStep DEF TypeInv
<1>3. NetOK' /\ ConnOK'
  BY <1>0, NetStep, ConnStep
<1>4. MapsOK'
  BY <1>0, MapsStep
<1>5. ShakeInv'
  BY <1>0, ShakeStep
<1>6. ASSUME NEW e \in End, NEW c \in Conns
      PROVE  BornOK(e, c)' /\ ClaimOK(e, c)' /\ HeldOK(conn[e][c])'
  <2>1. BornOK(e, c)'
    <3>1. CASE conn[e][c].born
      BY <1>0, <3>1, BornStays DEF BornOK
    <3>2. CASE ~conn[e][c].born
      BY <1>0, <3>2, UnbornStep
    <3> QED
      BY <3>1, <3>2
  <2>2. ClaimOK(e, c)'
    BY <1>0, ClaimStep
  <2>3. HeldOK(conn[e][c])'
    BY <1>0, <1>3, HeldStep
  <2> QED
    BY <2>1, <2>2, <2>3
<1> QED
  BY <1>1, <1>2, <1>3, <1>4, <1>5, <1>6 DEF Inv, TypeInv

\* It holds always.
LEMMA SpecInv == Spec => []Inv
BY InitInv, NextInv, PTL DEF Spec

\* Every variable has its type, and neither readCh nor acceptCh ever holds more
\* than its capacity.
THEOREM TypeCorrect == Spec => []TypeOK
<1>1. Inv => TypeOK
  BY DEF Inv, TypeInv, TypeOK, PcOK, NetOK, ConnOK, MapsOK
<1> QED
  BY <1>1, SpecInv, PTL

\* The application's Close, Manager.Close and an arriving FIN never close closeCh
\* twice: the swap of closed leaves one of them at the test and the close.
THEOREM OnceClosed == Spec => []ClosedOnce
<1>1. Inv => ClosedOnce
  BY DEF Inv, TypeInv, MapsOK, ClosedOnce
<1> QED
  BY <1>1, SpecInv, PTL

\* Read returns the bytes that deliver queued, in the order their frames came, with
\* none lost, repeated or mixed up between readCh and the application, for any
\* network.  Frames that came out of order are read out of order.
THEOREM ReadsAsDelivered == Spec => []ReadAsDelivered
<1>1. Inv => ReadAsDelivered
  <2> SUFFICES ASSUME Inv, NEW e \in End, NEW c \in Conns
               PROVE  /\ Len(conn[e][c].got) <= Len(conn[e][c].fed)
                      /\ \A i \in 1 .. Len(conn[e][c].got) :
                            conn[e][c].got[i] = conn[e][c].fed[i]
    BY DEF ReadAsDelivered
  <2>1. conn[e][c] \in Connection /\ HeldOK(conn[e][c])
    BY DEF Inv, TypeInv, ConnOK
  <2>2. PICK g \in Seq(Nat), r \in Seq(Nat), f \in Seq(Nat) :
           g = conn[e][c].got /\ r = conn[e][c].readBuf /\ f = conn[e][c].fed
    BY <2>1, Fields
  <2>3. PICK h : h = g \o r
    OBVIOUS
  <2>4. /\ Len(g) \in Nat /\ Len(r) \in Nat /\ Len(h) = Len(g) + Len(r)
        /\ \A j \in 1 .. Len(g) : h[j] = g[j]
    BY <2>3, TwoParts
  <2>5. PICK l \in Nat : Len(f) = Len(h) + 2 * l
    <3>1. Len(conn[e][c].readCh) \in Nat
      BY <2>1, HeldTypes
    <3> QED
      BY <2>1, <2>2, <2>3, <3>1 DEF HeldOK, Handled
  <2>6. \A j \in 1 .. Len(h) : f[j] = h[j]
    BY <2>1, <2>2, <2>3 DEF HeldOK, Handled
  <2>7. Len(g) <= Len(f) /\ \A j \in 1 .. Len(g) : j \in 1 .. Len(h)
    BY <2>4, <2>5
  <2> QED
    BY <2>2, <2>4, <2>6, <2>7
<1> QED
  BY <1>1, SpecInv, PTL

\* A Dial that returned a Connection has one at the server: the SYN-ACK that it
\* waits for is sent only by an end that has stored its own.
THEOREM DialReached == Spec => []DialReachesPeer
<1>1. Inv => DialReachesPeer
  BY DEF Inv, ShakeInv, SynAckOK, DialReachesPeer
<1> QED
  BY <1>1, SpecInv, PTL
=============================================================================
