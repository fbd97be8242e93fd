----------------------------- MODULE GreTunnel -----------------------------
(***************************************************************************)
(* The way of a reliable packet between the programs: RawTransport at each *)
(* client and ServerTransport at the server (pkg/transport), the two       *)
(* codecs, and the start and the end of the programs (pkg/shadowgre) as    *)
(* far as the transports are concerned.                                    *)
(*                                                                         *)
(* The raw sockets see all GRE traffic that reaches their host.  The       *)
(* network may lose, duplicate, delay and reorder datagrams: net only      *)
(* grows, and a datagram in it is read any number of times.                *)
(***************************************************************************)
EXTENDS ReliableCodec, FiniteSets

CONSTANTS
    Clients,    \* addresses of the clients
    Server,     \* address of the server
    Key,        \* passwordToKey of the shared password
    Packets,    \* what the ReliableManagers of each host send
    Noise,      \* other GRE datagrams: [src, dst, wire]
    MaxNet,     \* bound: datagrams
    Stops       \* hosts whose program is shut down, or cannot listen

Host == Clients \cup {Server}

\* A payload that is long enough has a byte where Flags is.
FlagsFit(w) ==
    IsGre(w) /\ Len(PayloadOf(w)) >= ReliableHeaderSize => PayloadOf(w)[2] < ByteSpace

ASSUME TunnelAssumption ==
    /\ Server \notin Clients /\ Key \in Nat /\ MaxNet \in Nat
    /\ Packets \in [Host -> SUBSET ReliablePacket] /\ Stops \subseteq Host
    /\ \A h \in Host : \A p \in Packets[h] : Built(p)
    /\ \A n \in Noise : n.dst \in Host /\ n.wire \in Seq(Nat) /\ FlagsFit(n.wire)

Address == Host \cup {n.src : n \in Noise}

\* carries holds the packet a ReliableManager sent in it, with the peer it was
\* sent to; noise has none.
Datagram == [src : Address, dst : Host, wire : Seq(Nat),
             carries : SUBSET [to : Host, pkt : ReliablePacket]]

VARIABLES
    prog,     \* the goroutine in main: Start, and later Close
    conn,     \* the raw socket
    closed,   \* the transport's closed flag
    handler,  \* has SetReceiveHandler been called?
    loop,     \* the goroutine in receiveLoop
    buf,      \* the datagram it has read
    peers,    \* the peers each program has a ReliableManager for; at the
              \* server the keys of the clients map
    registered, \* the keys of ServerTransport.clients
    accepted, \* history: packets each ReliableManager.Receive has parsed
    net

vars == <<prog, conn, closed, handler, loop, buf, peers, registered, accepted, net>>

NoDatagram == [src |-> Server, dst |-> Server, wire |-> <<>>, carries |-> {}]

Init ==
    /\ prog = [h \in Host |-> "down"] /\ conn = [h \in Host |-> "none"]
    /\ closed = [h \in Host |-> FALSE] /\ handler = [h \in Host |-> FALSE]
    /\ loop = [h \in Host |-> "off"] /\ buf = [h \in Host |-> NoDatagram]
    /\ peers = [h \in Host |-> {}] /\ registered = {}
    /\ accepted = [h \in Host |-> [a \in Address |-> {}]]
    /\ net = {}

-----------------------------------------------------------------------------
(***************************************************************************)
(* Client.Start and Server.Start.                                          *)
(***************************************************************************)
\* NewRawTransport or NewServerTransport; the client's ReliableManager.
Open(h) ==
    /\ prog[h] = "down"
    /\ conn' = [conn EXCEPT ![h] = "open"]
    /\ peers' = [peers EXCEPT ![h] = IF h = Server THEN {} ELSE {Server}]
    /\ prog' = [prog EXCEPT ![h] = "opened"]
    /\ UNCHANGED <<closed, handler, loop, buf, registered, accepted, net>>

SetReceiveHandler(h) ==
    /\ prog[h] = "opened"
    /\ handler' = [handler EXCEPT ![h] = TRUE]
    /\ prog' = [prog EXCEPT ![h] = "set"]
    /\ UNCHANGED <<conn, closed, loop, buf, peers, registered, accepted, net>>

\* Mutant: the receive loop starts before it has a handler.
BugStartLoop(h) ==
    /\ loop[h] = "off" /\ prog[h] \in {"opened", "set"}
    /\ loop' = [loop EXCEPT ![h] = "check"]
    /\ prog' = [prog EXCEPT ![h] = IF @ = "set" THEN "up" ELSE @]
    /\ UNCHANGED <<conn, closed, handler, buf, peers, registered, accepted, net>>

\* transport.Start.
StartLoop(h) ==
    /\ prog[h] = "set"
    /\ loop' = [loop EXCEPT ![h] = "check"]
    /\ prog' = [prog EXCEPT ![h] = "up"]
    /\ UNCHANGED <<conn, closed, handler, buf, peers, registered, accepted, net>>

-----------------------------------------------------------------------------
(***************************************************************************)
(* Sending.  The ReliableManager that h has for a passes its packet p to   *)
(* transport.Send.                                                         *)
(***************************************************************************)
\* SendZeroCopy: the header is written over the front of the buffer.  No
\* caller in the repository; the payload begins at headerOffset.
ZeroCopied(b, headerOffset, payloadSize) ==
    <<FlagKey, EtherTypeTransparentEthernet, Key>>
    \o SubSeq(b, 4, headerOffset + payloadSize)

\* Send, or SendZeroCopy of a buffer with room for the header.
Wires(payload) ==
    {MarshalGre(NewPacket(Key, payload)),
     ZeroCopied(<<0, 0, 0>> \o payload, 3, Len(payload))}

\* Mutant: the managers share one sendFunc, for the client seen last.
BugSend(h, a, p) ==
    /\ ~closed[h] /\ conn[h] = "open" /\ a \in peers[h]
    /\ \E wire \in Wires(MarshalReliable(p)), b \in peers[h] \cap Host :
          net' = net \cup {[src |-> h, dst |-> b, wire |-> wire,
                             carries |-> {[to |-> a, pkt |-> p]}]}
    /\ UNCHANGED <<prog, conn, closed, handler, loop, buf, peers, registered, accepted>>

Send(h, a, p) ==
    /\ ~closed[h] /\ conn[h] = "open" /\ a \in peers[h] \cap Host
    /\ \E wire \in Wires(MarshalReliable(p)) :
          net' = net \cup {[src |-> h, dst |-> a, wire |-> wire,
                             carries |-> {[to |-> a, pkt |-> p]}]}
    /\ UNCHANGED <<prog, conn, closed, handler, loop, buf, peers, registered, accepted>>

\* Traffic of other programs.
Stray(n) ==
    /\ net' = net \cup {[src |-> n.src, dst |-> n.dst, wire |-> n.wire, carries |-> {}]}
    /\ UNCHANGED <<prog, conn, closed, handler, loop, buf, peers, registered, accepted>>

-----------------------------------------------------------------------------
(***************************************************************************)
(* receiveLoop.                                                            *)
(***************************************************************************)
CheckClosed(h) ==
    /\ loop[h] = "check"
    /\ loop' = [loop EXCEPT ![h] = IF closed[h] THEN "done" ELSE "read"]
    /\ UNCHANGED <<prog, conn, closed, handler, buf, peers, registered, accepted, net>>

Read(h, d) ==
    /\ loop[h] = "read" /\ conn[h] = "open" /\ d.dst = h
    /\ buf' = [buf EXCEPT ![h] = d]
    /\ loop' = [loop EXCEPT ![h] = "handle"]
    /\ UNCHANGED <<prog, conn, closed, handler, peers, registered, accepted, net>>

\* ReadFromIP fails, in the end because the socket was closed.
ReadFails(h) ==
    /\ loop[h] = "read" /\ conn[h] = "closed"
    /\ loop' = [loop EXCEPT ![h] = IF closed[h] THEN "done" ELSE "check"]
    /\ UNCHANGED <<prog, conn, closed, handler, buf, peers, registered, accepted, net>>

\* The filters: the client's peer address, UnmarshalPacket and the key.
Passes(h, d) ==
    /\ h = Server \/ d.src = Server
    /\ IsGre(d.wire) /\ KeyOf(d.wire) = Key

\* There is a handler and something to hand over.
Handed(h, d) == Passes(h, d) /\ handler[h] /\ PayloadOf(d.wire) # <<>>

\* The packets the handler's ReliableManager.Receive gets from payload w.
Received(w) == IF IsReliable(w) THEN {UnmarshalReliable(w)} ELSE {}

\* The filters and handleGREPacket.  The server's transport registers the
\* sender, and getOrCreateClient makes a ReliableManager for a new one.
Handle(h) ==
    LET d == buf[h]
    IN  /\ loop[h] = "handle"
        /\ registered' = IF h = Server /\ Passes(h, d)
                         THEN registered \cup {d.src} ELSE registered
        /\ peers' = IF h = Server /\ Handed(h, d)
                    THEN [peers EXCEPT ![h] = @ \cup {d.src}] ELSE peers
        /\ accepted' = IF Handed(h, d)
                       THEN [accepted EXCEPT ![h][d.src] =
                                @ \cup Received(PayloadOf(d.wire))]
                       ELSE accepted
        /\ loop' = [loop EXCEPT ![h] = "check"]
        /\ buf' = [buf EXCEPT ![h] = NoDatagram]
        /\ UNCHANGED <<prog, conn, closed, handler, net>>

-----------------------------------------------------------------------------
(***************************************************************************)
(* transport.Close.                                                        *)
(***************************************************************************)
\* Client.Close or Server.Close, which have closed the streams and the
\* ReliableManagers first, or a client that cannot listen.
Shutdown(h) ==
    /\ prog[h] = "up" /\ h \in Stops
    /\ prog' = [prog EXCEPT ![h] = "close"]
    /\ UNCHANGED <<conn, closed, handler, loop, buf, peers, registered, accepted, net>>

SwapClosed(h) ==
    /\ prog[h] = "close"
    /\ closed' = [closed EXCEPT ![h] = TRUE]
    /\ prog' = [prog EXCEPT ![h] = "conn"]
    /\ UNCHANGED <<conn, handler, loop, buf, peers, registered, accepted, net>>

\* Mutant: the socket is left open, the flag alone stops the loop.
BugCloseConn(h) ==
    /\ prog[h] = "conn"
    /\ prog' = [prog EXCEPT ![h] = "wait"]
    /\ UNCHANGED <<conn, closed, handler, loop, buf, peers, registered, accepted, net>>

CloseConn(h) ==
    /\ prog[h] = "conn"
    /\ conn' = [conn EXCEPT ![h] = "closed"]
    /\ prog' = [prog EXCEPT ![h] = "wait"]
    /\ UNCHANGED <<closed, handler, loop, buf, peers, registered, accepted, net>>

WaitLoop(h) ==
    /\ prog[h] = "wait" /\ loop[h] = "done"
    /\ prog' = [prog EXCEPT ![h] = "stopped"]
    /\ UNCHANGED <<conn, closed, handler, loop, buf, peers, registered, accepted, net>>

Closing(h) == SwapClosed(h) \/ CloseConn(h) \/ WaitLoop(h)

Looping(h) == CheckClosed(h) \/ ReadFails(h) \/ Handle(h)

Next ==
    \/ \E h \in Host :
          \/ Open(h) \/ SetReceiveHandler(h) \/ StartLoop(h)
          \/ Looping(h) \/ Shutdown(h) \/ Closing(h)
          \/ \E d \in net : Read(h, d)
    \/ /\ Cardinality(net) < MaxNet
       /\ \/ \E h \in Host, a \in Host : \E p \in Packets[h] : Send(h, a, p)
          \/ \E n \in Noise : Stray(n)

Spec == Init /\ [][Next]_vars

\* The goroutines run.  A datagram need never arrive.
FairSpec ==
    Spec /\ \A h \in Host : WF_vars(Looping(h)) /\ WF_vars(Closing(h))

-----------------------------------------------------------------------------
\* Every variable has its type; what Receive parsed has flags of a byte and no
\* more SACK blocks than the program handles.
TypeOK ==
    /\ \A h \in Host : conn[h] = "none" <=> prog[h] = "down"
    /\ closed \in [Host -> BOOLEAN] /\ handler \in [Host -> BOOLEAN]
    /\ \A h \in Host : loop[h] \in {"off", "check", "read", "handle", "done"}
    /\ buf \in [Host -> Datagram] /\ net \subseteq Datagram
    /\ peers \in [Host -> SUBSET Address] /\ registered \subseteq Address
    /\ peers[Server] \subseteq registered
    /\ \A h \in Host, a \in Address : \A p \in accepted[h][a] :
          p \in ReliablePacket /\ Len(p.sack) <= MaxSackBlocks

\* A ReliableManager only gets packets that the manager at its peer sent to it,
\* field by field, though GRE traffic without the key, with another one, of
\* another version or too short reaches the host, and a client hears from
\* strangers too.  It supposes a key other than the 0 that a packet without one
\* is taken to have, and that no stranger sends the server, which looks at no
\* address, a valid packet with the key.
Genuine ==
    Key # 0 =>
    \A h \in Host, a \in Address : \A p \in accepted[h][a] :
        \E d \in net : d.src = a /\ [to |-> h, pkt |-> p] \in d.carries

\* A packet of the peer that the receive loop has read is not lost on the way
\* to the ReliableManager, from the first one on.
Faithful ==
    [][\A h \in Host :
          loop[h] = "handle" /\ loop'[h] # "handle" =>
              \A c \in buf[h].carries : c.pkt \in accepted'[h][buf[h].src]]_vars

\* Close returns: a receive loop that waits for a packet that never comes is
\* released.
CloseReturns == \A h \in Stops : prog[h] = "close" ~> prog[h] = "stopped"
=============================================================================
