---------------------------- MODULE StreamTable ----------------------------
(***************************************************************************)
(* ReliableManager (pkg/tunnel/reliable.go): the map of streams at both    *)
(* ends, for one stream number.  The number may have several               *)
(* ReliableStream objects one after the other, and two goroutines of an    *)
(* end work on the map at the same time:                                   *)
(*                                                                         *)
(*   Recv(e)     the receive loop, in Receive                              *)
(*   Handler(e)  the connection's goroutine: Send, SendClose, RemoveStream *)
(*   Main(e)     Close at the end of the program                           *)
(*                                                                         *)
(* The objects are those of ReliableStream without window, SACK and        *)
(* delayed ACKs.  The network keeps the order, and may lose packets.       *)
(***************************************************************************)
EXTENDS Integers, Sequences

CONSTANTS
    Writes,     \* bound: chunks the application of each end sends
    MaxObjects, \* bound: objects per end
    MaxFaults,  \* bound: losses plus retransmissions
    Removers,   \* ends whose handler removes the stream in the end
    Stops       \* ends whose program is shut down

End == {"client", "server"}
Peer(e) == IF e = "client" THEN "server" ELSE "client"

ASSUME TableAssumption ==
    /\ Writes \in [End -> Nat] /\ MaxObjects \in Nat \ {0} /\ MaxFaults \in Nat
    /\ Removers \subseteq End /\ Stops \subseteq End

None == 0
Objects == 1 .. MaxObjects
Recv(e) == <<"recv", e>>
Handler(e) == <<"handler", e>>
Main(e) == <<"main", e>>
Proc == {"recv", "handler", "main"} \X End

\* chunk names the payload: the k-th chunk an application sends is k.
Packet == [kind : {"data", "ack", "close"}, seq : Nat, ack : Nat, chunk : Nat]

Object == [state : {"unborn", "open", "closed"}, sendSeq : Nat, sendBase : Nat,
           unacked : SUBSET Packet, recvNext : Nat,
           outOfOrder : SUBSET [seq : Nat, chunk : Nat]]

VARIABLES
    obj,      \* the objects of each end
    streams,  \* the object in the manager's map, or None
    pc,       \* where each goroutine is
    held,     \* the object it works on
    packet,   \* the packet the receive loop works on
    net,      \* packets on their way to each end
    sent,     \* chunks each application has passed to Send
    got,      \* history: chunks handed to onData, in order
    ended,    \* history: the application has sent its CLOSE
    removed,  \* history: RemoveStream or Close has met an object of e
    faults

vars == <<obj, streams, pc, held, packet, net, sent, got, ended, removed, faults>>

Unborn == [state |-> "unborn", sendSeq |-> 0, sendBase |-> 0, unacked |-> {},
           recvNext |-> 0, outOfOrder |-> {}]
NoPacket == [kind |-> "ack", seq |-> 0, ack |-> 0, chunk |-> 0]

Init ==
    /\ obj = [e \in End |-> [o \in Objects |-> Unborn]]
    /\ streams = [e \in End |-> None]
    /\ pc = [p \in Proc |-> "idle"] /\ held = [p \in Proc |-> None]
    /\ packet = [e \in End |-> NoPacket] /\ net = [e \in End |-> <<>>]
    /\ sent = [e \in End |-> 0] /\ got = [e \in End |-> <<>>]
    /\ ended = [e \in End |-> FALSE] /\ removed = [e \in End |-> FALSE]
    /\ faults = 0

Goto(p, l) == pc' = [pc EXCEPT ![p] = l]

-----------------------------------------------------------------------------
(***************************************************************************)
(* GetOrCreateStream of goroutine p, which goes on at "use" with the       *)
(* object in held[p].                                                      *)
(***************************************************************************)
Fresh(e, o) ==
    /\ obj[e][o].state = "unborn"
    /\ \A i \in 1 .. (o - 1) : obj[e][i].state # "unborn"

\* Load, and NewReliableStream when there is none.
Load(p) ==
    LET e == p[2]
    IN  \/ /\ streams[e] # None
           /\ held' = [held EXCEPT ![p] = streams[e]]
           /\ Goto(p, "use") /\ UNCHANGED obj
        \/ \E o \in Objects :
             /\ streams[e] = None /\ Fresh(e, o)
             /\ obj' = [obj EXCEPT ![e][o].state = "open"]
             /\ held' = [held EXCEPT ![p] = o]
             /\ Goto(p, "store")

\* Mutant: the loser does not close its own object.
BugLoserCloses(p) ==
    LET e == p[2]
    IN  /\ pc[p] = "store"
        /\ \/ /\ streams[e] = None
              /\ streams' = [streams EXCEPT ![e] = held[p]] /\ UNCHANGED held
           \/ /\ streams[e] # None
              /\ held' = [held EXCEPT ![p] = streams[e]] /\ UNCHANGED streams
        /\ Goto(p, "use")
        /\ UNCHANGED <<obj, packet, net, sent, got, ended, removed, faults>>

\* LoadOrStore: whoever comes second closes its own object and takes the
\* other.
LoadOrStore(p) ==
    LET e == p[2]
    IN  /\ pc[p] = "store"
        /\ \/ /\ streams[e] = None
              /\ streams' = [streams EXCEPT ![e] = held[p]]
              /\ UNCHANGED <<obj, held>>
           \/ /\ streams[e] # None
              /\ obj' = [obj EXCEPT ![e][held[p]].state = "closed"]
              /\ held' = [held EXCEPT ![p] = streams[e]]
              /\ UNCHANGED streams
        /\ Goto(p, "use")
        /\ UNCHANGED <<packet, net, sent, got, ended, removed, faults>>

\* Mutant: the object is closed before it leaves the map.
BugRemoveStream(p, next) ==
    LET e == p[2]
    IN  /\ \/ /\ pc[p] = "remove" /\ streams[e] # None
              /\ obj' = [obj EXCEPT ![e][streams[e]].state = "closed"]
              /\ removed' = [removed EXCEPT ![e] = TRUE]
              /\ Goto(p, "removed") /\ UNCHANGED <<streams, held>>
           \/ /\ pc[p] = "remove" /\ streams[e] = None
              /\ Goto(p, next) /\ UNCHANGED <<streams, obj, held, removed>>
           \/ /\ pc[p] = "removed"
              /\ streams' = [streams EXCEPT ![e] = None]
              /\ Goto(p, next) /\ UNCHANGED <<obj, held, removed>>
        /\ UNCHANGED <<packet, net, sent, got, ended, faults>>

\* RemoveStream: LoadAndDelete, then Close of what was there; p goes on at
\* label "next".
RemoveStream(p, next) ==
    LET e == p[2]
    IN  /\ \/ /\ pc[p] = "remove"
              /\ held' = [held EXCEPT ![p] = streams[e]]
              /\ streams' = [streams EXCEPT ![e] = None]
              /\ removed' = [removed EXCEPT ![e] = @ \/ streams[e] # None]
              /\ Goto(p, IF streams[e] = None THEN next ELSE "removed")
              /\ UNCHANGED obj
           \/ /\ pc[p] = "removed"
              /\ obj' = [obj EXCEPT ![e][held[p]].state = "closed"]
              /\ Goto(p, next) /\ UNCHANGED <<streams, held, removed>>
        /\ UNCHANGED <<packet, net, sent, got, ended, faults>>

-----------------------------------------------------------------------------
(***************************************************************************)
(* Receive.                                                                *)
(***************************************************************************)
Arrive(e) ==
    /\ pc[Recv(e)] = "idle" /\ net[e] # <<>>
    /\ packet' = [packet EXCEPT ![e] = Head(net[e])]
    /\ net' = [net EXCEPT ![e] = Tail(@)]
    /\ Load(Recv(e))
    /\ UNCHANGED <<streams, sent, got, ended, removed, faults>>

\* Mutant: takes the ACK number for the last number received.
BugAcked(r, a) ==
    [r EXCEPT !.unacked = {u \in @ : u.seq > a}, !.sendBase = a - 1]

\* What the cumulative scan of processAck deletes: from sendBase up to the ACK
\* number, and everything from there on when the ACK is older than sendBase.
Covered(r, a) ==
    {u \in r.unacked : u.seq >= r.sendBase /\ (u.seq < a \/ a < r.sendBase)}

\* processAck of the packet's ACK number.
Acked(r, a) ==
    [r EXCEPT !.unacked = @ \ Covered(r, a), !.sendBase = IF a > @ THEN a ELSE @]

\* processData: how many chunks of the buffer follow number n, what is handed
\* over for packet p and the object after it.
RunLength(r, n) ==
    CHOOSE k \in 0 .. sent["client"] + sent["server"] :
        /\ \A i \in 0 .. (k - 1) : \E b \in r.outOfOrder : b.seq = n + i
        /\ ~ \E b \in r.outOfOrder : b.seq = n + k

\* Mutant: a duplicate is handed over again.
BugHandOver(r, p) == IF p.seq > r.recvNext THEN <<>> ELSE <<p.chunk>>

HandOver(r, p) ==
    IF p.seq # r.recvNext THEN <<>>
    ELSE <<p.chunk>> \o
         [i \in 1 .. RunLength(r, p.seq + 1) |->
             (CHOOSE b \in r.outOfOrder : b.seq = p.seq + i).chunk]

Processed(r, p) ==
    IF p.seq = r.recvNext
    THEN LET next == p.seq + 1 + RunLength(r, p.seq + 1)
         IN  [r EXCEPT !.recvNext = next,
                       !.outOfOrder = {b \in @ : b.seq > next}]
    ELSE IF p.seq > r.recvNext /\ \A b \in r.outOfOrder : b.seq # p.seq
    THEN [r EXCEPT !.outOfOrder = @ \cup {[seq |-> p.seq, chunk |-> p.chunk]}]
    ELSE r

AckOf(r) == [kind |-> "ack", seq |-> 0, ack |-> r.recvNext, chunk |-> 0]

\* rs.Receive, on the object that GetOrCreateStream returned, closed or not.
\* (FlagAck is absent from a data packet here, see the header.)
Receive(e) ==
    LET p == packet[e]
        o == held[Recv(e)]
        r == obj[e][o]
    IN  /\ pc[Recv(e)] = "use"
        /\ \/ /\ p.kind = "data"
              /\ obj' = [obj EXCEPT ![e][o] = Processed(r, p)]
              /\ got' = [got EXCEPT ![e] = @ \o HandOver(r, p)]
              /\ net' = [net EXCEPT ![Peer(e)] =
                            Append(@, AckOf(Processed(r, p)))]
              /\ Goto(Recv(e), "idle")
           \/ /\ p.kind = "ack"
              /\ obj' = [obj EXCEPT ![e][o] = Acked(r, p.ack)]
              /\ Goto(Recv(e), "idle") /\ UNCHANGED <<got, net>>
           \/ /\ p.kind = "close"
              /\ obj' = [obj EXCEPT ![e][o] = Acked(r, p.ack)]
              /\ Goto(Recv(e), "remove") /\ UNCHANGED <<got, net>>
        /\ packet' = [packet EXCEPT ![e] = NoPacket]
        /\ UNCHANGED <<streams, held, sent, ended, removed, faults>>

\* The packets of an open object that are not acknowledged are sent again.
Retransmit(e, o, p) ==
    /\ faults < MaxFaults /\ obj[e][o].state = "open"
    /\ net' = [net EXCEPT ![Peer(e)] = Append(@, p)]
    /\ faults' = faults + 1
    /\ UNCHANGED <<obj, streams, pc, held, packet, sent, got, ended, removed>>

Lose(e) ==
    /\ faults < MaxFaults /\ net[e] # <<>>
    /\ net' = [net EXCEPT ![e] = Tail(@)]
    /\ faults' = faults + 1
    /\ UNCHANGED <<obj, streams, pc, held, packet, sent, got, ended, removed>>

-----------------------------------------------------------------------------
(***************************************************************************)
(* The application: Send, SendClose and RemoveStream in this order.  The   *)
(* server's application begins with the first chunk it was handed.         *)
(***************************************************************************)
Active(e) == pc[Handler(e)] = "idle" /\ (e = "server" => got[e] # <<>>)

StartSend(e) ==
    /\ Active(e) /\ ~ended[e] /\ sent[e] < Writes[e]
    /\ Load(Handler(e))
    /\ UNCHANGED <<streams, packet, net, sent, got, ended, removed, faults>>

\* rs stores p for retransmission and sends it.
Stored(r, p) ==
    [r EXCEPT !.sendSeq = @ + 1, !.unacked = @ \cup {p}]

\* rs.Send, or its ErrStreamClosed.
Send(e) ==
    LET o == held[Handler(e)]
        r == obj[e][o]
        p == [kind |-> "data", seq |-> r.sendSeq, ack |-> 0, chunk |-> sent[e] + 1]
    IN  /\ pc[Handler(e)] = "use"
        /\ \/ /\ r.state = "closed"
              /\ Goto(Handler(e), "done") /\ UNCHANGED <<obj, net, sent>>
           \/ /\ r.state = "open"
              /\ obj' = [obj EXCEPT ![e][o] = Stored(r, p)]
              /\ net' = [net EXCEPT ![Peer(e)] = Append(@, p)]
              /\ sent' = [sent EXCEPT ![e] = @ + 1]
              /\ Goto(Handler(e), "idle")
        /\ UNCHANGED <<streams, held, packet, got, ended, removed, faults>>

\* SendClose: GetStream, and nothing happens when the map has no stream ...
StartClose(e) ==
    /\ Active(e) /\ ~ended[e]
    /\ ended' = [ended EXCEPT ![e] = TRUE]
    /\ held' = [held EXCEPT ![Handler(e)] = streams[e]]
    /\ Goto(Handler(e), IF streams[e] = None THEN "idle" ELSE "close")
    /\ UNCHANGED <<obj, streams, packet, net, sent, got, removed, faults>>

\* ... then rs.SendClose, which does nothing on a closed one.
SendClose(e) ==
    LET o == held[Handler(e)]
        r == obj[e][o]
        p == [kind |-> "close", seq |-> r.sendSeq, ack |-> r.recvNext, chunk |-> 0]
    IN  /\ pc[Handler(e)] = "close"
        /\ \/ r.state = "closed" /\ UNCHANGED <<obj, net>>
           \/ /\ r.state = "open"
              /\ obj' = [obj EXCEPT ![e][o] = Stored(r, p)]
              /\ net' = [net EXCEPT ![Peer(e)] = Append(@, p)]
        /\ Goto(Handler(e), "idle")
        /\ UNCHANGED <<streams, held, packet, sent, got, ended, removed, faults>>

Finish(e) ==
    /\ e \in Removers /\ Active(e)
    /\ sent[e] > 0 \/ ended[e]
    /\ Goto(Handler(e), "remove")
    /\ UNCHANGED <<obj, streams, held, packet, net, sent, got, ended, removed, faults>>

\* Close of the manager: the stream in the map is closed and stays there.
Shutdown(e) ==
    /\ e \in Stops /\ pc[Main(e)] = "idle"
    /\ Goto(Main(e), "done")
    /\ IF streams[e] = None THEN UNCHANGED <<obj, removed>>
       ELSE /\ obj' = [obj EXCEPT ![e][streams[e]].state = "closed"]
            /\ removed' = [removed EXCEPT ![e] = TRUE]
    /\ UNCHANGED <<streams, held, packet, net, sent, got, ended, faults>>

Next ==
    \E e \in End :
        \/ Arrive(e) \/ Receive(e) \/ RemoveStream(Recv(e), "idle")
        \/ StartSend(e) \/ Send(e) \/ StartClose(e) \/ SendClose(e)
        \/ Finish(e) \/ RemoveStream(Handler(e), "done") \/ Shutdown(e)
        \/ Lose(e)
        \/ \E p \in {Recv(e), Handler(e)} : LoadOrStore(p)
        \/ \E o \in Objects : \E p \in obj[e][o].unacked : Retransmit(e, o, p)

Spec == Init /\ [][Next]_vars

-----------------------------------------------------------------------------
\* Every variable has its type.
TypeOK ==
    /\ obj \in [End -> [Objects -> Object]]
    /\ streams \in [End -> Objects \cup {None}]
    /\ DOMAIN pc = Proc /\ held \in [Proc -> Objects \cup {None}]
    /\ packet \in [End -> Packet] /\ net \in [End -> Seq(Packet)]
    /\ sent \in [End -> Nat] /\ got \in [End -> Seq(Nat)]
    /\ ended \in [End -> BOOLEAN] /\ removed \in [End -> BOOLEAN]
    /\ faults \in 0 .. MaxFaults
    /\ \A e \in End : streams[e] # None => obj[e][streams[e]].state # "unborn"

\* An object that still runs (it has a retransmission goroutine that only
\* Close ends) is in the map, or in the hands of the goroutine that is about
\* to store it or to close it: none is left behind by the race of two
\* GetOrCreateStream or by RemoveStream.
NoOrphan ==
    \A e \in End, o \in Objects :
        obj[e][o].state = "open" =>
            \/ streams[e] = o
            \/ \E p \in Proc : p[2] = e /\ held[p] = o
                               /\ pc[p] \in {"store", "removed"}

\* Until the program shuts down, the map never offers a stream that is closed:
\* RemoveStream deletes the entry before it closes the object, and a
\* GetOrCreateStream that comes in between makes a new one.  (A Send that has
\* its stream already can still meet the Close.)
MapHoldsOpen ==
    \A e \in End :
        streams[e] # None /\ pc[Main(e)] = "idle" =>
            obj[e][streams[e]].state = "open"

\* An end that has not removed its stream is handed no chunk twice, even when
\* the peer removed its own in between and goes on with a fresh object, whose
\* numbers begin again.
HandedOnce ==
    \A e \in End :
        removed[e] \/ \A i, j \in 1 .. Len(got[e]) : got[e][i] = got[e][j] => i = j

\* The client's close ends only its own direction, which "allows backend to
\* finish sending response": what the server sends and the client acknowledges
\* is handed to the client's application.
ResponseArrives ==
    \A k \in 1 .. sent["server"] :
        \/ \E i \in 1 .. Len(got["client"]) : got["client"][i] = k
        \/ \E o \in Objects : \E u \in obj["server"][o].unacked : u.chunk = k
=============================================================================
