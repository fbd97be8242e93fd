-------------------------- MODULE GreTunnelProofs --------------------------
(***************************************************************************)
(* Proofs about the two codecs and GreTunnel, for any clients, packets and *)
(* foreign traffic.                                                        *)
(***************************************************************************)
EXTENDS GreTunnel, SequenceTheorems, TLAPS

(***************************************************************************)
(* The inductive invariant.                                                *)
(***************************************************************************)
Stage == {"down", "opened", "set", "up", "close", "conn", "wait", "stopped"}
LoopLabel == {"off", "check", "read", "handle", "done"}

Typed ==
    /\ prog \in [Host -> Stage] /\ conn \in [Host -> {"none", "open", "closed"}]
    /\ closed \in [Host -> BOOLEAN] /\ handler \in [Host -> BOOLEAN]
    /\ loop \in [Host -> LoopLabel] /\ buf \in [Host -> Datagram]
    /\ peers \in [Host -> SUBSET Address] /\ registered \subseteq Address
    /\ accepted \in [Host -> [Address -> SUBSET ReliablePacket]]
    /\ net \subseteq Datagram

\* The receive loop runs once the handler is set, and no longer than the
\* program; it works on a datagram of the network that was sent to its host.
LoopOK ==
    \A h \in Host :
        /\ loop[h] = "off" <=> prog[h] \in {"down", "opened", "set"}
        /\ prog[h] \in {"set", "up", "close", "conn", "wait", "stopped"} => handler[h]
        /\ prog[h] = "stopped" => loop[h] = "done"
        /\ conn[h] = "none" <=> prog[h] = "down"
        /\ loop[h] = "handle" => buf[h] \in net /\ buf[h].dst = h

\* A client's program knows no peer but the server, and the server's knows
\* those its transport has registered.
PeersOK ==
    /\ \A h \in Host : h # Server => peers[h] \subseteq {Server}
    /\ peers[Server] \subseteq registered

\* A datagram comes from a ReliableManager, on the way between a client and
\* the server, or it is noise.
Sent(d) ==
    /\ d.src \in Host /\ Server \in {d.src, d.dst}
    /\ \E p \in Packets[d.src] : /\ d.carries = {[to |-> d.dst, pkt |-> p]}
                                 /\ d.wire \in Wires(MarshalReliable(p))
Foreign(d) ==
    /\ \E n \in Noise : d.src = n.src /\ d.dst = n.dst /\ d.wire = n.wire
    /\ d.carries = {}
NetOK == \A d \in net : Sent(d) \/ Foreign(d)

SacksOK ==
    \A h \in Host, a \in Address : \A p \in accepted[h][a] : Len(p.sack) <= MaxSackBlocks

Inv == Typed /\ LoopOK /\ PeersOK /\ NetOK /\ SacksOK

\* No other GRE traffic that reaches a program of the tunnel, and that the
\* client's filter lets through, has the tunnel's key and a reliable packet.
Unforged ==
    \A n \in Noise :
        /\ IsGre(n.wire) /\ Has(n.wire[1], FlagKey) /\ KeyOf(n.wire) = Key
        /\ n.dst = Server \/ n.src = Server
        => ~IsReliable(PayloadOf(n.wire))
-----------------------------------------------------------------------------
(***************************************************************************)
(* What the parser of the reliable layer makes of any payload.             *)
(***************************************************************************)

\* The flags that are tested are among those the sender of GRE sets.
LEMMA FlagFacts ==
    /\ Has(FlagKey, FlagKey) /\ ~Has(FlagKey, FlagChecksum) /\ ~Has(FlagKey, FlagSequence)
    /\ FlagKey % 8 = 0 /\ FlagKey \in Nat
BY DEF Has, FlagKey, FlagChecksum, FlagSequence

\* The count of SACK blocks and the positions after it are within the payload
\* when UnmarshalReliable returns no error.
LEMMA PositionFacts ==
    ASSUME NEW w \in Seq(Nat), IsReliable(w)
    PROVE  /\ Len(w) \in Nat /\ Len(w) >= 3 /\ CountAt(w) \in {4, 5}
           /\ Has(w[2], FlagAck) => CountAt(w) = 5 /\ Len(w) >= 4
           /\ ~Has(w[2], FlagAck) => CountAt(w) = 4
           /\ Has(w[2], FlagSack) =>
                /\ Count(w) \in 0 .. MaxSackBlocks
                /\ CountAt(w) + 2 * Count(w) <= Len(w)
                /\ DataAt(w) = CountAt(w) + 1 + 2 * Count(w)
           /\ ~Has(w[2], FlagSack) => DataAt(w) = CountAt(w)
           /\ DataAt(w) \in Nat /\ DataAt(w) >= 4 /\ DataAt(w) <= Len(w) + 1
<1>1. Len(w) \in Nat /\ Len(w) >= 3 /\ MaxSackBlocks \in Nat
  BY CodecAssumption DEF IsReliable, ReliableHeaderSize
<1>2. /\ CountAt(w) \in {4, 5} /\ (Has(w[2], FlagAck) => CountAt(w) = 5)
      /\ ~Has(w[2], FlagAck) => CountAt(w) = 4
  BY DEF CountAt, ReliableHeaderSize
<1>3. Len(w) >= CountAt(w) - 1 /\ Len(w) >= DataAt(w) - 1
  BY DEF IsReliable
<1>4. CASE Has(w[2], FlagSack)
  <2>1. CountAt(w) \in 1 .. Len(w)
    BY <1>1, <1>2, <1>4 DEF IsReliable
  <2>2. w[CountAt(w)] \in Nat
    BY <2>1
  <2>3. Count(w) \in 0 .. MaxSackBlocks
    BY <1>1, <2>2 DEF Count
  <2>4. DataAt(w) = CountAt(w) + (1 + 2 * Count(w))
    BY <1>4 DEF DataAt
  <2>5. /\ CountAt(w) + 2 * Count(w) <= Len(w)
        /\ DataAt(w) = CountAt(w) + 1 + 2 * Count(w)
        /\ DataAt(w) \in Nat /\ DataAt(w) >= 4 /\ DataAt(w) <= Len(w) + 1
    <3> DEFINE n == Count(w)
               c == CountAt(w)
               d == DataAt(w)
               k == Len(w)
    <3>1. n \in Nat /\ c \in {4, 5} /\ k \in Nat /\ d = c + (1 + 2 * n) /\ k >= d - 1
      BY <1>1, <1>2, <1>3, <2>3, <2>4
    <3> HIDE DEF n, c, d, k
    <3>2. /\ c + 2 * n <= k /\ d = c + 1 + 2 * n
          /\ d \in Nat /\ d >= 4 /\ d <= k + 1
      BY <3>1
    <3> QED
      BY <3>2 DEF n, c, d, k
  <2> QED
    BY <1>1, <1>2, <1>4, <2>3, <2>5
<1>5. CASE ~Has(w[2], FlagSack)
  <2>1. DataAt(w) = CountAt(w)
    BY <1>2, <1>5 DEF DataAt
  <2> QED
    BY <1>1, <1>2, <1>3, <1>5, <2>1
<1> QED
  BY <1>4, <1>5

\* UnmarshalReliable never reads past the end: what it returns without an error
\* is a packet, with no more blocks than the program handles.
LEMMA UnmarshalType ==
    ASSUME NEW w \in Seq(Nat), IsReliable(w), w[2] < ByteSpace
    PROVE  /\ UnmarshalReliable(w) \in ReliablePacket
           /\ Len(UnmarshalReliable(w).sack) <= MaxSackBlocks
<1>1. /\ Len(w) \in Nat /\ Len(w) >= 3 /\ CountAt(w) \in {4, 5}
      /\ DataAt(w) \in Nat /\ DataAt(w) >= 4 /\ DataAt(w) <= Len(w) + 1
  BY PositionFacts
<1>0. MaxSackBlocks \in Nat
  BY CodecAssumption
<1>2. w[1] \in Nat /\ w[2] \in 0 .. (ByteSpace - 1) /\ w[3] \in Nat
  <2>1. w[1] \in Nat /\ w[2] \in Nat /\ w[3] \in Nat
    BY <1>1
  <2>2. \A x \in Nat : x < ByteSpace => x \in 0 .. (ByteSpace - 1)
    BY DEF ByteSpace
  <2> QED
    BY <2>1, <2>2
<1>3. (IF Has(w[2], FlagAck) THEN w[ReliableHeaderSize + 1] ELSE 0) \in Nat
  <2>1. CASE Has(w[2], FlagAck)
    <3>1. ReliableHeaderSize + 1 \in 1 .. Len(w)
      BY <1>1, <2>1, PositionFacts DEF ReliableHeaderSize
    <3> QED
      BY <2>1, <3>1
  <2>2. CASE ~Has(w[2], FlagAck)
    BY <2>2
  <2> QED
    BY <2>1, <2>2
<1>4. BlocksOf(w) \in Seq(Block) /\ Len(BlocksOf(w)) <= MaxSackBlocks
  <2>1. CASE ~Has(w[2], FlagSack)
    BY <1>0, <2>1 DEF BlocksOf
  <2>2. CASE Has(w[2], FlagSack)
    <3> DEFINE n == Count(w)
               c == CountAt(w)
               bs == [i \in 1 .. n |-> [left |-> w[c + 2 * i - 1], right |-> w[c + 2 * i]]]
    <3>0. n \in 0 .. MaxSackBlocks /\ c \in {4, 5} /\ c + 2 * n <= Len(w)
      BY <2>2, PositionFacts
    <3>2. BlocksOf(w) = bs
      BY <2>2 DEF BlocksOf
    <3> HIDE DEF n, c
    <3>1. n \in Nat /\ n <= MaxSackBlocks /\ c \in Nat /\ c + 2 * n <= Len(w)
      BY <1>0, <3>0
    <3>3. ASSUME NEW i \in 1 .. n
          PROVE  [left |-> w[c + 2 * i - 1], right |-> w[c + 2 * i]] \in Block
      <4>1. c + 2 * i - 1 \in 1 .. Len(w) /\ c + 2 * i \in 1 .. Len(w)
        BY <1>1, <3>1
      <4> QED
        BY <4>1 DEF Block
    <3>4. bs \in [1 .. n -> Block]
      BY <3>3
    <3> HIDE DEF bs
    <3>5. bs \in Seq(Block)
      BY <3>1, <3>4, SeqDef
    <3>6. Len(bs) = n
      BY <3>1, <3>4, <3>5, LenProperties
    <3> QED
      BY <3>1, <3>2, <3>5, <3>6
  <2> QED
    BY <2>1, <2>2
<1>5. SubSeq(w, DataAt(w), Len(w)) \in Seq(Nat)
  <2>1. ASSUME NEW i \in DataAt(w) .. Len(w) PROVE w[i] \in Nat
    BY <1>1
  <2> QED
    BY <1>1, <2>1, SubSeqProperties
<1> QED
  BY <1>2, <1>3, <1>4, <1>5 DEF UnmarshalReliable, ReliablePacket

(***************************************************************************)
(* Round trips.                                                            *)
(***************************************************************************)

\* The fields of a record's blocks, one behind the other.
LEMMA BlockFieldsFacts ==
    ASSUME NEW bs \in Seq(Block)
    PROVE  /\ BlockFields(bs) \in Seq(Nat) /\ Len(BlockFields(bs)) = 2 * Len(bs)
           /\ \A i \in 1 .. Len(bs) : /\ BlockFields(bs)[2 * i - 1] = bs[i].left
                                      /\ BlockFields(bs)[2 * i] = bs[i].right
<1> DEFINE n == Len(bs)
           Of(i) == IF i % 2 = 1 THEN bs[(i + 1) \div 2].left ELSE bs[(i + 1) \div 2].right
<1>1. n \in Nat /\ 2 * n \in Nat
  OBVIOUS
<1>2. BlockFields(bs) = [i \in 1 .. 2 * n |-> Of(i)]
  BY DEF BlockFields
<1>3. ASSUME NEW i \in 1 .. n PROVE bs[i].left \in Nat /\ bs[i].right \in Nat
  <2>1. bs[i] \in Block
    BY ElementOfSeq
  <2> QED
    BY <2>1 DEF Block
<1> HIDE DEF n
<1>4. ASSUME NEW i \in 1 .. 2 * n PROVE Of(i) \in Nat
  <2>1. (i + 1) \div 2 \in 1 .. n
    BY <1>1
  <2> QED
    BY <1>3, <2>1
<1>5. ASSUME NEW i \in 1 .. n
      PROVE  /\ 2 * i - 1 \in 1 .. 2 * n /\ 2 * i \in 1 .. 2 * n
             /\ Of(2 * i - 1) = bs[i].left /\ Of(2 * i) = bs[i].right
  <2>1. 2 * i - 1 \in 1 .. 2 * n /\ 2 * i \in 1 .. 2 * n
    BY <1>1
  <2>2. /\ (2 * i - 1) % 2 = 1 /\ ((2 * i - 1) + 1) \div 2 = i
        /\ (2 * i) % 2 = 0 /\ ((2 * i) + 1) \div 2 = i
    BY <1>1
  <2> QED
    BY <2>1, <2>2
<1> HIDE DEF Of
<1>6. BlockFields(bs) \in [1 .. 2 * n -> Nat]
  BY <1>2, <1>4
<1>7. BlockFields(bs) \in Seq(Nat)
  BY <1>1, <1>6, SeqDef
<1>8. Len(BlockFields(bs)) = 2 * n
  BY <1>1, <1>6, <1>7, LenProperties
<1>9. \A i \in 1 .. n : /\ BlockFields(bs)[2 * i - 1] = bs[i].left
                        /\ BlockFields(bs)[2 * i] = bs[i].right
  BY <1>2, <1>5
<1> QED
  BY <1>7, <1>8, <1>9 DEF n

\* Two sequences, one behind the other.
LEMMA TwoParts ==
    ASSUME NEW u \in Seq(Nat), NEW d \in Seq(Nat), NEW w, w = u \o d
    PROVE  /\ w \in Seq(Nat) /\ Len(w) = Len(u) + Len(d)
           /\ \A i \in 1 .. Len(u) : w[i] = u[i]
           /\ \A i \in 1 .. Len(d) : w[Len(u) + i] = d[i]
           /\ SubSeq(w, Len(u) + 1, Len(w)) = d
<1>0. Len(u) \in Nat /\ Len(d) \in Nat
  OBVIOUS
<1>1. /\ w \in Seq(Nat) /\ Len(w) = Len(u) + Len(d)
      /\ \A i \in 1 .. Len(u) + Len(d) :
           w[i] = IF i <= Len(u) THEN u[i] ELSE d[i - Len(u)]
  BY ConcatProperties
<1>2. ASSUME NEW i \in 1 .. Len(u) PROVE w[i] = u[i]
  BY <1>0, <1>1
<1>3. ASSUME NEW i \in 1 .. Len(d) PROVE w[Len(u) + i] = d[i]
  <2>1. /\ Len(u) + i \in 1 .. Len(u) + Len(d) /\ ~(Len(u) + i <= Len(u))
        /\ (Len(u) + i) - Len(u) = i
    BY <1>0
  <2> QED
    BY <1>1, <2>1
<1>4. SubSeq(w, Len(u) + 1, Len(w)) = d
  <2> DEFINE t == SubSeq(w, Len(u) + 1, Len(w))
  <2>1. ASSUME NEW i \in (Len(u) + 1) .. Len(w) PROVE w[i] \in Nat
    <3>1. w \in Seq(Nat) /\ i \in 1 .. Len(w)
      BY <1>0, <1>1
    <3> QED
      BY <3>1, ElementOfSeq
  <2>2. Len(u) + 1 \in Int /\ Len(w) \in Int
    BY <1>0, <1>1
  <2>3. /\ t \in Seq(Nat)
        /\ Len(t) = IF Len(u) + 1 <= Len(w) THEN Len(w) - (Len(u) + 1) + 1 ELSE 0
        /\ \A i \in 1 .. (Len(w) - (Len(u) + 1) + 1) : t[i] = w[(Len(u) + 1) + i - 1]
    BY <2>1, <2>2, SubSeqProperties
  <2> HIDE DEF t
  <2>4. Len(t) = Len(d)
    BY <1>0, <1>1, <2>3
  <2>5. ASSUME NEW i \in 1 .. Len(d) PROVE t[i] = d[i]
    <3>1. i \in 1 .. (Len(w) - (Len(u) + 1) + 1) /\ (Len(u) + 1) + i - 1 = Len(u) + i
      BY <1>0, <1>1
    <3> QED
      BY <1>3, <2>3, <3>1
  <2>6. t = d
    BY <2>3, <2>4, <2>5, SeqEqual
  <2> QED
    BY <2>6 DEF t
<1> QED
  BY <1>1, <1>2, <1>3, <1>4

\* Four sequences, one behind the other.
LEMMA FourParts ==
    ASSUME NEW h \in Seq(Nat), NEW a \in Seq(Nat), NEW s \in Seq(Nat), NEW d \in Seq(Nat),
           NEW w, w = h \o a \o s \o d
    PROVE  /\ w \in Seq(Nat) /\ Len(w) = Len(h) + Len(a) + Len(s) + Len(d)
           /\ \A i \in 1 .. Len(h) : w[i] = h[i]
           /\ \A i \in 1 .. Len(a) : w[Len(h) + i] = a[i]
           /\ \A i \in 1 .. Len(s) : w[Len(h) + Len(a) + i] = s[i]
           /\ SubSeq(w, Len(h) + Len(a) + Len(s) + 1, Len(w)) = d
<1> DEFINE u == h \o a
           v == u \o s
<1>0. Len(h) \in Nat /\ Len(a) \in Nat /\ Len(s) \in Nat /\ Len(d) \in Nat
  OBVIOUS
<1>1. /\ u \in Seq(Nat) /\ Len(u) = Len(h) + Len(a)
      /\ \A i \in 1 .. Len(h) : u[i] = h[i]
      /\ \A i \in 1 .. Len(a) : u[Len(h) + i] = a[i]
  <2>1. u = h \o a
    OBVIOUS
  <2> HIDE DEF u
  <2> QED
    BY <2>1, TwoParts
<1> HIDE DEF u
<1>2. /\ v \in Seq(Nat) /\ Len(v) = Len(u) + Len(s)
      /\ \A i \in 1 .. Len(u) : v[i] = u[i]
      /\ \A i \in 1 .. Len(s) : v[Len(u) + i] = s[i]
  <2>1. v = u \o s /\ u \in Seq(Nat)
    BY <1>1
  <2> HIDE DEF v
  <2> QED
    BY <2>1, TwoParts
<1> HIDE DEF v
<1>3. /\ w \in Seq(Nat) /\ Len(w) = Len(v) + Len(d)
      /\ \A i \in 1 .. Len(v) : w[i] = v[i]
      /\ SubSeq(w, Len(v) + 1, Len(w)) = d
  <2>1. w = v \o d /\ v \in Seq(Nat)
    BY <1>2 DEF u, v
  <2> QED
    BY <2>1, TwoParts
<1>4. Len(v) = Len(h) + Len(a) + Len(s) /\ Len(w) = Len(h) + Len(a) + Len(s) + Len(d)
  BY <1>0, <1>1, <1>2, <1>3
<1>5. ASSUME NEW i \in 1 .. Len(h) PROVE w[i] = h[i]
  <2>1. i \in 1 .. Len(u) /\ i \in 1 .. Len(v)
    BY <1>0, <1>1, <1>4
  <2> QED
    BY <1>1, <1>2, <1>3, <2>1
<1>6. ASSUME NEW i \in 1 .. Len(a) PROVE w[Len(h) + i] = a[i]
  <2>1. Len(h) + i \in 1 .. Len(u) /\ Len(h) + i \in 1 .. Len(v)
    BY SMTT(30), <1>0, <1>1, <1>4
  <2> QED
    BY <1>1, <1>2, <1>3, <2>1
<1>7. ASSUME NEW i \in 1 .. Len(s) PROVE w[Len(h) + Len(a) + i] = s[i]
  <2>1. Len(u) + i \in 1 .. Len(v) /\ Len(u) + i = Len(h) + Len(a) + i
    BY <1>0, <1>1, <1>4
  <2> QED
    BY <1>2, <1>3, <2>1
<1> QED
  BY <1>3, <1>4, <1>5, <1>6, <1>7

\* What the receiver parses is what the sender marshalled, field by field: the
\* reliable packet format loses nothing that the program puts into a packet.
THEOREM ReliableRoundTrip ==
    ASSUME NEW p \in ReliablePacket, Built(p)
    PROVE  /\ MarshalReliable(p) \in Seq(Nat) /\ IsReliable(MarshalReliable(p))
           /\ MarshalReliable(p) # <<>>
           /\ UnmarshalReliable(MarshalReliable(p)) = p
<1> DEFINE h == <<p.streamID, p.flags, p.seq>>
           a == Field(Has(p.flags, FlagAck), <<p.ack>>)
           bf == BlockFields(p.sack)
           s == Field(Has(p.flags, FlagSack), <<Len(p.sack) % ByteSpace>> \o bf)
           d == p.data
           n == Len(p.sack)
           w == MarshalReliable(p)
<1>1. /\ p.streamID \in Nat /\ p.flags \in 0 .. (ByteSpace - 1) /\ p.seq \in Nat
      /\ p.ack \in Nat /\ p.sack \in Seq(Block) /\ d \in Seq(Nat)
      /\ p = [streamID |-> p.streamID, flags |-> p.flags, seq |-> p.seq,
              ack |-> p.ack, sack |-> p.sack, data |-> p.data]
  BY DEF ReliablePacket
<1>2. p.flags \in Nat
  <2>1. \A x \in 0 .. (ByteSpace - 1) : x \in Nat
    BY DEF ByteSpace
  <2> QED
    BY <1>1, <2>1
<1>3. /\ n \in Nat /\ n <= MaxSackBlocks /\ n % ByteSpace = n /\ MaxSackBlocks \in Nat
  <2>1. n \in Nat
    BY <1>1
  <2>2. n <= MaxSackBlocks /\ MaxSackBlocks \in Nat /\ MaxSackBlocks < ByteSpace
    BY CodecAssumption DEF Built
  <2> HIDE DEF n
  <2> QED
    BY <2>1, <2>2 DEF ByteSpace
<1>4. /\ h \in Seq(Nat) /\ Len(h) = 3 /\ h[1] = p.streamID /\ h[2] = p.flags /\ h[3] = p.seq
  BY <1>1, <1>2
<1>5. /\ bf \in Seq(Nat) /\ Len(bf) = 2 * n
      /\ \A i \in 1 .. n : bf[2 * i - 1] = p.sack[i].left /\ bf[2 * i] = p.sack[i].right
  BY <1>1, BlockFieldsFacts
<1> HIDE DEF bf, n
<1>6. /\ a \in Seq(Nat)
      /\ Has(p.flags, FlagAck) => Len(a) = 1 /\ a[1] = p.ack
      /\ ~Has(p.flags, FlagAck) => Len(a) = 0
  BY <1>1 DEF Field
<1>7. /\ s \in Seq(Nat)
      /\ Has(p.flags, FlagSack) =>
            /\ Len(s) = 1 + 2 * n /\ s[1] = n
            /\ \A i \in 1 .. 2 * n : s[i + 1] = bf[i]
      /\ ~Has(p.flags, FlagSack) => Len(s) = 0
  <2>1. CASE Has(p.flags, FlagSack)
    <3> DEFINE c == <<n>>
    <3>1. c \in Seq(Nat) /\ Len(c) = 1 /\ c[1] = n
      BY <1>3
    <3>2. s = c \o bf
      BY <1>3, <2>1 DEF Field, n
    <3> HIDE DEF c, s
    <3>3. /\ c \o bf \in Seq(Nat) /\ Len(c \o bf) = Len(c) + Len(bf)
          /\ \A i \in 1 .. Len(c) + Len(bf) :
               (c \o bf)[i] = IF i <= Len(c) THEN c[i] ELSE bf[i - Len(c)]
      <4>1. bf \in Seq(Nat) /\ c \in Seq(Nat)
        BY <1>5, <3>1
      <4> QED
        BY <4>1, ConcatProperties, Zenon
    <3>4. /\ s \in Seq(Nat) /\ Len(s) = 1 + 2 * n
          /\ \A i \in 1 .. (1 + 2 * n) : s[i] = IF i <= 1 THEN c[i] ELSE bf[i - 1]
      BY <1>5, <3>1, <3>2, <3>3
    <3>5. s[1] = n
      BY <1>3, <3>1, <3>4
    <3>6. ASSUME NEW i \in 1 .. 2 * n PROVE s[i + 1] = bf[i]
      <4>1. i + 1 \in 1 .. (1 + 2 * n) /\ ~(i + 1 <= 1) /\ (i + 1) - 1 = i
        BY <1>3
      <4> QED
        BY <3>4, <4>1
    <3> QED
      BY <2>1, <3>4, <3>5, <3>6
  <2>2. CASE ~Has(p.flags, FlagSack)
    BY <2>2 DEF Field
  <2> QED
    BY <2>1, <2>2
<1>8. w = h \o a \o s \o d
  BY DEF MarshalReliable, n, bf
<1> HIDE DEF h, a, s, d, w
<1>9. /\ w \in Seq(Nat) /\ Len(w) = 3 + Len(a) + Len(s) + Len(d)
      /\ w[1] = p.streamID /\ w[2] = p.flags /\ w[3] = p.seq
      /\ \A i \in 1 .. Len(a) : w[3 + i] = a[i]
      /\ \A i \in 1 .. Len(s) : w[3 + Len(a) + i] = s[i]
      /\ SubSeq(w, 3 + Len(a) + Len(s) + 1, Len(w)) = d
  <2>1. h \in Seq(Nat) /\ a \in Seq(Nat) /\ s \in Seq(Nat) /\ d \in Seq(Nat)
    BY <1>1, <1>4, <1>6, <1>7
  <2>2. /\ w \in Seq(Nat) /\ Len(w) = Len(h) + Len(a) + Len(s) + Len(d)
        /\ \A i \in 1 .. Len(h) : w[i] = h[i]
        /\ \A i \in 1 .. Len(a) : w[Len(h) + i] = a[i]
        /\ \A i \in 1 .. Len(s) : w[Len(h) + Len(a) + i] = s[i]
        /\ SubSeq(w, Len(h) + Len(a) + Len(s) + 1, Len(w)) = d
    BY SMTT(30), <1>8, <2>1, FourParts
  <2> QED
    BY <1>4, <2>2
<1>10. /\ Len(a) \in Nat /\ Len(s) \in Nat /\ Len(d) \in Nat /\ Len(w) \in Nat
       /\ Len(w) = 3 + Len(a) + Len(s) + Len(d) /\ w[2] = p.flags
  <2>1. a \in Seq(Nat) /\ s \in Seq(Nat) /\ d \in Seq(Nat) /\ w \in Seq(Nat)
    BY <1>1, <1>6, <1>7, <1>9
  <2> QED
    BY <1>9, <2>1, LenProperties
<1>11. CountAt(w) = 4 + Len(a) /\ CountAt(w) - 1 <= Len(w)
  <2>1. CASE Has(p.flags, FlagAck)
    <3>1. Len(a) = 1
      BY <1>6, <2>1
    <3>2. Has(w[2], FlagAck)
      BY <1>10, <2>1
    <3>3. CountAt(w) = 5
      BY <3>2 DEF CountAt, ReliableHeaderSize
    <3> QED
      BY <1>10, <3>1, <3>3
  <2>2. CASE ~Has(p.flags, FlagAck)
    <3>1. Len(a) = 0
      BY <1>6, <2>2
    <3>2. ~Has(w[2], FlagAck)
      BY <1>10, <2>2
    <3>3. CountAt(w) = 4
      BY <3>2 DEF CountAt, ReliableHeaderSize
    <3> QED
      BY <1>10, <3>1, <3>3
  <2> QED
    BY <2>1, <2>2
<1>12. CASE Has(p.flags, FlagSack)
  <2>1. Len(s) = 1 + 2 * n /\ s[1] = n /\ \A i \in 1 .. 2 * n : s[i + 1] = bf[i]
    BY <1>7, <1>12
  <2>2. w[CountAt(w)] = n /\ CountAt(w) <= Len(w)
    <3>1. 1 \in 1 .. Len(s) /\ CountAt(w) = 3 + Len(a) + 1
      BY <1>3, <1>10, <1>11, <2>1
    <3>2. w[3 + Len(a) + 1] = n
      BY <1>9, <2>1, <3>1
    <3> QED
      BY <1>3, <1>9, <1>10, <1>11, <2>1, <3>1, <3>2
  <2>3. Count(w) = n
    BY <1>3, <2>2 DEF Count
  <2>4. DataAt(w) = 3 + Len(a) + Len(s) + 1
    <3>1. DataAt(w) = CountAt(w) + (1 + 2 * n)
      BY <1>9, <1>12, <2>3 DEF DataAt
    <3> QED
      BY <1>3, <1>10, <1>11, <2>1, <3>1
  <2>5. BlocksOf(w) = p.sack
    <3> DEFINE c == CountAt(w)
               bs == [i \in 1 .. n |-> [left |-> w[c + 2 * i - 1], right |-> w[c + 2 * i]]]
    <3>1. BlocksOf(w) = bs
      BY <1>9, <1>12, <2>3 DEF BlocksOf
    <3>2. ASSUME NEW i \in 1 .. n
          PROVE  [left |-> w[c + 2 * i - 1], right |-> w[c + 2 * i]] = p.sack[i]
      <4>0. /\ i \in Nat /\ 1 <= i /\ i <= n /\ n \in Nat /\ Len(a) \in Nat
            /\ Len(s) = 1 + 2 * n /\ c = 3 + Len(a) + 1
        <5>1. i \in Nat /\ 1 <= i /\ i <= n /\ n \in Nat /\ Len(a) \in Nat
          BY <1>3, <1>10, <1>11
        <5> QED
          BY <1>3, <1>10, <1>11, <2>1, <5>1
      <4>1. /\ 2 * i \in 1 .. Len(s) /\ 2 * i + 1 \in 1 .. Len(s)
            /\ 2 * i - 1 \in 1 .. 2 * n /\ 2 * i \in 1 .. 2 * n
            /\ (2 * i - 1) + 1 = 2 * i
            /\ c + 2 * i - 1 = 3 + Len(a) + 2 * i
            /\ c + 2 * i = 3 + Len(a) + (2 * i + 1)
        BY <4>0
      <4>2. /\ w[c + 2 * i - 1] = s[2 * i]
            /\ w[c + 2 * i] = s[2 * i + 1]
        BY <1>9, <4>1
      <4>3. s[2 * i] = bf[2 * i - 1] /\ s[2 * i + 1] = bf[2 * i]
        <5>1. s[(2 * i - 1) + 1] = bf[2 * i - 1]
          BY <2>1, <4>1
        <5> QED
          BY <2>1, <4>1, <5>1
      <4>4. bf[2 * i - 1] = p.sack[i].left /\ bf[2 * i] = p.sack[i].right
        BY <1>5
      <4>5. p.sack[i] \in Block
        BY <1>1, ElementOfSeq DEF n
      <4>6. p.sack[i] = [left |-> p.sack[i].left, right |-> p.sack[i].right]
        BY <4>5 DEF Block
      <4> QED
        BY <4>2, <4>3, <4>4, <4>6
    <3> HIDE DEF c
    <3>3. p.sack = [i \in 1 .. n |-> p.sack[i]]
      BY <1>1, LenProperties DEF n
    <3> QED
      BY <3>1, <3>2, <3>3
  <2>6. IsReliable(w)
    <3>1. Len(w) >= 3 /\ Len(w) >= CountAt(w) - 1 /\ Len(w) >= DataAt(w) - 1
      BY <1>9, <1>10, <1>11, <2>4
    <3> QED
      BY <1>9, <1>10, <1>11, <2>2, <3>1 DEF IsReliable, ReliableHeaderSize
  <2>7. SubSeq(w, DataAt(w), Len(w)) = p.data
    BY <1>9, <2>4 DEF d
  <2>8. (IF Has(w[2], FlagAck) THEN w[ReliableHeaderSize + 1] ELSE 0) = p.ack
    <3>1. CASE Has(p.flags, FlagAck)
      <4>1. 1 \in 1 .. Len(a) /\ a[1] = p.ack /\ ReliableHeaderSize + 1 = 3 + 1
        BY <1>6, <3>1 DEF ReliableHeaderSize
      <4> QED
        BY <1>9, <3>1, <4>1
    <3>2. CASE ~Has(p.flags, FlagAck)
      BY <1>9, <3>2 DEF Built
    <3> QED
      BY <3>1, <3>2
  <2>9. UnmarshalReliable(w) = p
    BY <1>1, <1>9, <2>5, <2>7, <2>8 DEF UnmarshalReliable
  <2> QED
    BY <1>9, <1>10, <2>6, <2>9 DEF w
<1>13. CASE ~Has(p.flags, FlagSack)
  <2>1. Len(s) = 0 /\ p.sack = <<>>
    BY <1>7, <1>13 DEF Built
  <2>2. DataAt(w) = 3 + Len(a) + Len(s) + 1
    BY <1>9, <1>10, <1>11, <1>13, <2>1 DEF DataAt
  <2>3. BlocksOf(w) = p.sack
    BY <1>9, <1>13, <2>1 DEF BlocksOf
  <2>4. IsReliable(w)
    <3>1. Len(w) >= 3 /\ Len(w) >= CountAt(w) - 1 /\ Len(w) >= DataAt(w) - 1
      BY <1>9, <1>10, <1>11, <2>2
    <3> QED
      BY <1>9, <1>13, <3>1 DEF IsReliable, ReliableHeaderSize
  <2>5. SubSeq(w, DataAt(w), Len(w)) = p.data
    BY <1>9, <2>2 DEF d
  <2>6. (IF Has(w[2], FlagAck) THEN w[ReliableHeaderSize + 1] ELSE 0) = p.ack
    <3>1. CASE Has(p.flags, FlagAck)
      <4>1. 1 \in 1 .. Len(a) /\ a[1] = p.ack /\ ReliableHeaderSize + 1 = 3 + 1
        BY <1>6, <3>1 DEF ReliableHeaderSize
      <4> QED
        BY <1>9, <3>1, <4>1
    <3>2. CASE ~Has(p.flags, FlagAck)
      BY <1>9, <3>2 DEF Built
    <3> QED
      BY <3>1, <3>2
  <2>7. UnmarshalReliable(w) = p
    BY <1>1, <1>9, <2>3, <2>5, <2>6 DEF UnmarshalReliable
  <2> QED
    BY <1>9, <1>10, <2>4, <2>7 DEF w
<1> QED
  BY <1>12, <1>13

\* What either way of sending puts on the wire passes the receiver's GRE
\* parser and its key check, with the payload as it was.
THEOREM GreRoundTrip ==
    ASSUME NEW payload \in Seq(Nat), NEW w \in Wires(payload)
    PROVE  /\ w \in Seq(Nat) /\ IsGre(w) /\ KeyOf(w) = Key /\ PayloadOf(w) = payload
<1> DEFINE h == <<FlagKey, EtherTypeTransparentEthernet, Key>>
<1>1. /\ h \in Seq(Nat) /\ Len(h) = 3 /\ h[1] = FlagKey /\ h[3] = Key
  BY TunnelAssumption DEF FlagKey, EtherTypeTransparentEthernet
<1>2. Len(payload) \in Nat
  OBVIOUS
<1>3. w = h \o payload
  <2>1. CASE w = MarshalGre(NewPacket(Key, payload))
    <3>1. NewPacket(Key, payload).header =
            [flags |-> FlagKey, protocol |-> EtherTypeTransparentEthernet,
             checksum |-> 0, reserved |-> 0, key |-> Key, sequence |-> 0]
      BY DEF NewPacket
    <3>2. NewPacket(Key, payload).payload = payload
      BY DEF NewPacket
    <3>3. HeaderFields(NewPacket(Key, payload).header) =
            <<FlagKey, EtherTypeTransparentEthernet>> \o <<>> \o <<Key>> \o <<>>
      BY <3>1, FlagFacts DEF HeaderFields, Field
    <3>4. <<FlagKey, EtherTypeTransparentEthernet>> \o <<>> \o <<Key>> \o <<>> = h
      <4> DEFINE b == <<FlagKey, EtherTypeTransparentEthernet>>
      <4>1. b \in Seq(Nat) /\ <<Key>> \in Seq(Nat)
        BY TunnelAssumption DEF FlagKey, EtherTypeTransparentEthernet
      <4>2. b \o <<Key>> = h
        <5> DEFINE t == b \o <<Key>>
                   k == <<Key>>
        <5>1. Len(b) = 2 /\ Len(k) = 1 /\ b[1] = h[1] /\ b[2] = h[2] /\ k[1] = h[3]
          OBVIOUS
        <5>2. t = b \o k
          OBVIOUS
        <5> HIDE DEF b, k, t, h
        <5>3. b \in Seq(Nat) /\ k \in Seq(Nat)
          BY <4>1 DEF k
        <5>4. /\ t \in Seq(Nat) /\ Len(t) = Len(b) + Len(k)
              /\ \A i \in 1 .. Len(b) : t[i] = b[i]
              /\ \A i \in 1 .. Len(k) : t[Len(b) + i] = k[i]
          BY <5>2, <5>3, TwoParts
        <5>5. Len(t) = 3 /\ t[1] = h[1] /\ t[2] = h[2]
          BY <5>1, <5>4
        <5>6. t[3] = h[3]
          <6>1. 1 \in 1 .. Len(k) /\ Len(b) + 1 = 3
            BY <5>1
          <6> QED
            BY <5>1, <5>4, <6>1
        <5>7. t = h
          <6>1. t \in Seq(Nat) /\ h \in Seq(Nat) /\ Len(t) = Len(h)
            BY <1>1, <5>4, <5>5 DEF h
          <6>2. \A i \in 1 .. Len(t) : t[i] = h[i]
            BY <5>5, <5>6
          <6> QED
            BY <6>1, <6>2, SeqEqual
        <5> QED
          BY <5>7 DEF t
      <4> HIDE DEF b
      <4>3. b \o <<>> = b /\ h \o <<>> = h
        BY <1>1, <4>1, ConcatEmptySeq
      <4> QED
        BY <4>2, <4>3 DEF b
    <3> QED
      BY <2>1, <3>2, <3>3, <3>4 DEF MarshalGre
  <2>2. CASE w = ZeroCopied(<<0, 0, 0>> \o payload, 3, Len(payload))
    <3> DEFINE z == <<0, 0, 0>>
               b == z \o payload
               t == SubSeq(b, 4, 3 + Len(payload))
    <3>1. z \in Seq(Nat) /\ Len(z) = 3
      OBVIOUS
    <3> HIDE DEF z
    <3>2. /\ b \in Seq(Nat) /\ Len(b) = Len(z) + Len(payload)
          /\ \A i \in 1 .. Len(z) + Len(payload) :
               b[i] = IF i <= Len(z) THEN z[i] ELSE payload[i - Len(z)]
      BY <3>1, ConcatProperties, Zenon
    <3> HIDE DEF b
    <3>3. ASSUME NEW i \in 4 .. (3 + Len(payload)) PROVE b[i] \in Nat
      BY <1>2, <3>1, <3>2
    <3>4. /\ t \in Seq(Nat)
          /\ Len(t) = IF 4 <= 3 + Len(payload) THEN (3 + Len(payload)) - 4 + 1 ELSE 0
          /\ \A i \in 1 .. ((3 + Len(payload)) - 4 + 1) : t[i] = b[4 + i - 1]
      <4>1. 4 \in Int /\ 3 + Len(payload) \in Int
        BY <1>2
      <4> QED
        BY <3>3, <4>1, SubSeqProperties
    <3> HIDE DEF t
    <3>5. Len(t) = Len(payload)
      BY <1>2, <3>4
    <3>6. ASSUME NEW i \in 1 .. Len(payload) PROVE t[i] = payload[i]
      <4>1. /\ i \in 1 .. ((3 + Len(payload)) - 4 + 1) /\ 4 + i - 1 = 3 + i
            /\ 3 + i \in 1 .. Len(z) + Len(payload) /\ ~(3 + i <= Len(z))
            /\ (3 + i) - Len(z) = i
        BY <1>2, <3>1
      <4> QED
        BY <3>2, <3>4, <4>1
    <3>7. t = payload
      BY <3>4, <3>5, <3>6, SeqEqual
    <3>8. w = h \o t
      BY <2>2 DEF ZeroCopied, t, b, z
    <3> QED
      BY <3>7, <3>8
  <2> QED
    BY <2>1, <2>2 DEF Wires
<1> HIDE DEF h
<1>4. /\ w \in Seq(Nat) /\ Len(w) = 3 + Len(payload) /\ w[1] = FlagKey /\ w[3] = Key
      /\ SubSeq(w, 4, Len(w)) = payload
  <2>0. h \in Seq(Nat)
    BY <1>1
  <2>1. /\ w \in Seq(Nat) /\ Len(w) = Len(h) + Len(payload)
        /\ \A i \in 1 .. Len(h) : w[i] = h[i]
        /\ SubSeq(w, Len(h) + 1, Len(w)) = payload
    BY <1>3, <2>0, TwoParts
  <2>2. Len(h) = 3 /\ 1 \in 1 .. Len(h) /\ 3 \in 1 .. Len(h) /\ Len(h) + 1 = 4
    BY <1>1
  <2>3. w[1] = FlagKey /\ w[3] = Key
    BY <1>1, <2>1, <2>2
  <2> QED
    BY <2>1, <2>2, <2>3
<1>5. KeyAt(w) = 3 /\ PayloadAt(w) = 4
  BY <1>4, FlagFacts DEF KeyAt, SequenceAt, PayloadAt, MinHeaderSize
<1> QED
  BY <1>2, <1>4, <1>5, FlagFacts DEF IsGre, KeyOf, PayloadOf, MinHeaderSize

(***************************************************************************)
(* What a receive loop makes of a datagram.                                *)
(***************************************************************************)

\* The payload of a GRE packet is a sequence, too.
LEMMA PayloadType ==
    ASSUME NEW w \in Seq(Nat), IsGre(w)
    PROVE  PayloadOf(w) \in Seq(Nat)
<1> DEFINE k == PayloadAt(w)
<1>1. KeyAt(w) \in {3, 5}
  BY DEF KeyAt, MinHeaderSize
<1>2. SequenceAt(w) \in {3, 4, 5, 6}
  BY <1>1 DEF SequenceAt
<1>3. k \in {3, 4, 5, 6, 7}
  BY <1>2 DEF PayloadAt
<1> HIDE DEF k
<1>4. k \in Nat /\ k >= 1
  BY <1>3
<1>5. ASSUME NEW i \in k .. Len(w) PROVE w[i] \in Nat
  <2>1. i \in 1 .. Len(w)
    BY <1>4
  <2> QED
    BY <2>1
<1>6. SubSeq(w, k, Len(w)) \in Seq(Nat)
  BY <1>4, <1>5, SubSeqProperties
<1> QED
  BY <1>6 DEF PayloadOf, k

\* A datagram a ReliableManager sent passes the parsers and the key check, and
\* the receiver gets the very packet.
LEMMA SentFacts ==
    ASSUME NEW d \in Datagram, Sent(d)
    PROVE  /\ IsGre(d.wire) /\ KeyOf(d.wire) = Key /\ PayloadOf(d.wire) # <<>>
           /\ \E p \in ReliablePacket :
                /\ Len(p.sack) <= MaxSackBlocks
                /\ d.carries = {[to |-> d.dst, pkt |-> p]}
                /\ Received(PayloadOf(d.wire)) = {p}
<1>1. PICK p \in Packets[d.src] : /\ d.carries = {[to |-> d.dst, pkt |-> p]}
                                  /\ d.wire \in Wires(MarshalReliable(p))
  BY DEF Sent
<1>2. p \in ReliablePacket /\ Built(p)
  BY <1>1, TunnelAssumption DEF Sent
<1>3. /\ MarshalReliable(p) \in Seq(Nat) /\ IsReliable(MarshalReliable(p))
      /\ MarshalReliable(p) # <<>> /\ UnmarshalReliable(MarshalReliable(p)) = p
  BY <1>2, ReliableRoundTrip
<1>4. /\ IsGre(d.wire) /\ KeyOf(d.wire) = Key /\ PayloadOf(d.wire) = MarshalReliable(p)
  BY <1>1, <1>3, GreRoundTrip
<1>5. Received(PayloadOf(d.wire)) = {p}
  BY <1>3, <1>4 DEF Received
<1> QED
  BY <1>1, <1>2, <1>3, <1>4, <1>5 DEF Built

\* Whatever datagram it is, what comes out is a packet with few enough blocks.
LEMMA ReceivedType ==
    ASSUME NEW d \in Datagram, Sent(d) \/ Foreign(d), IsGre(d.wire)
    PROVE  \A p \in Received(PayloadOf(d.wire)) :
              p \in ReliablePacket /\ Len(p.sack) <= MaxSackBlocks
<1>1. CASE Sent(d)
  BY <1>1, SentFacts
<1>2. CASE Foreign(d)
  <2>1. d.wire \in Seq(Nat) /\ FlagsFit(d.wire)
    BY <1>2, TunnelAssumption DEF Foreign
  <2> DEFINE w == PayloadOf(d.wire)
  <2>2. w \in Seq(Nat)
    BY <2>1, PayloadType
  <2>3. CASE IsReliable(w)
    <3>1. Len(w) >= ReliableHeaderSize
      BY <2>3 DEF IsReliable
    <3>2. w[2] < ByteSpace
      BY <2>1, <3>1 DEF FlagsFit
    <3> HIDE DEF w
    <3>3. UnmarshalReliable(w) \in ReliablePacket /\ Len(UnmarshalReliable(w).sack) <= MaxSackBlocks
      BY <2>2, <2>3, <3>2, UnmarshalType
    <3> QED
      BY <2>3, <3>3 DEF Received, w
  <2>4. CASE ~IsReliable(w)
    BY <2>4 DEF Received
  <2> QED
    BY <2>3, <2>4
<1> QED
  BY <1>1, <1>2
-----------------------------------------------------------------------------
(***************************************************************************)
(* The steps.                                                              *)
(***************************************************************************)

\* The server is a host, and every host has an address.
LEMMA HostFacts == Server \in Host /\ Host \subseteq Address /\ NoDatagram \in Datagram
BY DEF Host, Address, Datagram, NoDatagram

\* Client.Start, Server.Start and Close change neither the network nor what was
\* received.
LEMMA ProgramStep ==
    ASSUME Inv, NEW h \in Host,
           \/ Open(h) \/ SetReceiveHandler(h) \/ StartLoop(h)
           \/ Shutdown(h) \/ Closing(h)
    PROVE  Inv'
<1>0. Typed /\ LoopOK /\ PeersOK /\ NetOK /\ SacksOK
  BY DEF Inv
<1>1. UNCHANGED <<buf, registered, accepted, net>>
  BY DEF Open, SetReceiveHandler, StartLoop, Shutdown, Closing, SwapClosed, CloseConn, WaitLoop
<1>2. NetOK' /\ SacksOK'
  BY <1>0, <1>1 DEF NetOK, SacksOK, Sent, Foreign
<1>3. /\ prog' \in [Host -> Stage] /\ conn' \in [Host -> {"none", "open", "closed"}]
      /\ closed' \in [Host -> BOOLEAN] /\ handler' \in [Host -> BOOLEAN]
      /\ loop' \in [Host -> LoopLabel]
  BY <1>0 DEF Typed, Stage, LoopLabel, Open, SetReceiveHandler, StartLoop, Shutdown, Closing,
     SwapClosed, CloseConn, WaitLoop
<1>4. peers' \in [Host -> SUBSET Address] /\ PeersOK'
  <2>1. CASE Open(h)
    <3>1. peers' = [peers EXCEPT ![h] = IF h = Server THEN {} ELSE {Server}]
      BY <2>1 DEF Open
    <3> QED
      BY <1>0, <1>1, <3>1, HostFacts DEF Typed, PeersOK
  <2>2. CASE ~Open(h)
    <3>1. UNCHANGED peers
      BY <2>2 DEF SetReceiveHandler, StartLoop, Shutdown, Closing, SwapClosed, CloseConn, WaitLoop
    <3> QED
      BY <1>0, <1>1, <3>1 DEF Typed, PeersOK
  <2> QED
    BY <2>1, <2>2
<1>5. LoopOK'
  <2>1. CASE Open(h)
    BY <1>0, <2>1 DEF LoopOK, Typed, Stage, LoopLabel, Open
  <2>2. CASE SetReceiveHandler(h)
    BY <1>0, <2>2 DEF LoopOK, Typed, Stage, LoopLabel, SetReceiveHandler
  <2>3. CASE StartLoop(h)
    BY <1>0, <2>3 DEF LoopOK, Typed, Stage, LoopLabel, StartLoop
  <2>4. CASE Shutdown(h)
    BY <1>0, <2>4 DEF LoopOK, Typed, Stage, LoopLabel, Shutdown
  <2>5. CASE SwapClosed(h)
    BY <1>0, <2>5 DEF LoopOK, Typed, Stage, LoopLabel, SwapClosed
  <2>6. CASE CloseConn(h)
    BY <1>0, <2>6 DEF LoopOK, Typed, Stage, LoopLabel, CloseConn
  <2>7. CASE WaitLoop(h)
    BY <1>0, <2>7 DEF LoopOK, Typed, Stage, LoopLabel, WaitLoop
  <2> QED
    BY <2>1, <2>2, <2>3, <2>4, <2>5, <2>6, <2>7 DEF Closing
<1>6. Typed'
  BY <1>0, <1>1, <1>3, <1>4 DEF Typed
<1> QED
  BY <1>2, <1>4, <1>5, <1>6 DEF Inv

\* The receive loop between two datagrams.
LEMMA LoopStep ==
    ASSUME Inv, NEW h \in Host,
           CheckClosed(h) \/ ReadFails(h) \/ \E d \in net : Read(h, d)
    PROVE  Inv'
<1>0. Typed /\ LoopOK /\ PeersOK /\ NetOK /\ SacksOK
  BY DEF Inv
<1>1. UNCHANGED <<prog, conn, closed, handler, peers, registered, accepted, net>>
  BY DEF CheckClosed, ReadFails, Read
<1>2. NetOK' /\ SacksOK' /\ PeersOK'
  BY <1>0, <1>1 DEF NetOK, SacksOK, PeersOK
<1>3. loop' \in [Host -> LoopLabel] /\ buf' \in [Host -> Datagram]
  <2>1. CASE CheckClosed(h)
    BY <1>0, <2>1 DEF Typed, LoopLabel, CheckClosed
  <2>2. CASE ReadFails(h)
    BY <1>0, <2>2 DEF Typed, LoopLabel, ReadFails
  <2>3. ASSUME NEW d \in net, Read(h, d)
        PROVE  loop' \in [Host -> LoopLabel] /\ buf' \in [Host -> Datagram]
    BY <1>0, <2>3 DEF Typed, LoopLabel, Read
  <2> QED
    BY <2>1, <2>2, <2>3
<1>4. Typed'
  BY <1>0, <1>1, <1>3 DEF Typed
<1>5. LoopOK'
  <2>1. CASE CheckClosed(h)
    BY <1>0, <1>1, <2>1 DEF LoopOK, Typed, LoopLabel, CheckClosed
  <2>2. CASE ReadFails(h)
    BY <1>0, <1>1, <2>2 DEF LoopOK, Typed, LoopLabel, ReadFails
  <2>3. ASSUME NEW d \in net, Read(h, d) PROVE LoopOK'
    BY <1>0, <1>1, <2>3 DEF LoopOK, Typed, LoopLabel, Read
  <2> QED
    BY <2>1, <2>2, <2>3
<1> QED
  BY <1>2, <1>4, <1>5 DEF Inv

\* The network gets a datagram more.
LEMMA NetStep ==
    ASSUME Inv,
           \/ \E h \in Host, a \in Host : \E p \in Packets[h] : Send(h, a, p)
           \/ \E n \in Noise : Stray(n)
    PROVE  Inv'
<1>0. Typed /\ LoopOK /\ PeersOK /\ NetOK /\ SacksOK
  BY DEF Inv
<1>1. UNCHANGED <<prog, conn, closed, handler, loop, buf, peers, registered, accepted>>
  BY DEF Send, Stray
<1>2. PICK d \in Datagram : net' = net \cup {d} /\ (Sent(d) \/ Foreign(d))
  <2>1. ASSUME NEW h \in Host, NEW a \in Host, NEW p \in Packets[h], Send(h, a, p)
        PROVE  \E d \in Datagram : net' = net \cup {d} /\ Sent(d)
    <3>1. PICK wire \in Wires(MarshalReliable(p)) :
            net' = net \cup {[src |-> h, dst |-> a, wire |-> wire,
                              carries |-> {[to |-> a, pkt |-> p]}]}
      BY <2>1 DEF Send
    <3>2. a \in peers[h]
      BY <2>1 DEF Send
    <3>3. p \in ReliablePacket /\ Built(p)
      BY TunnelAssumption
    <3>4. MarshalReliable(p) \in Seq(Nat)
      BY <3>3, ReliableRoundTrip
    <3>5. wire \in Seq(Nat)
      BY <3>4, GreRoundTrip
    <3>6. h = Server \/ a = Server
      BY <1>0, <3>2 DEF PeersOK
    <3> DEFINE d == [src |-> h, dst |-> a, wire |-> wire, carries |-> {[to |-> a, pkt |-> p]}]
    <3>7. d \in Datagram
      BY <3>3, <3>5, HostFacts DEF Datagram
    <3>8. Sent(d)
      BY <3>6 DEF Sent
    <3> QED
      BY <3>1, <3>7, <3>8
  <2>2. ASSUME NEW n \in Noise, Stray(n)
        PROVE  \E d \in Datagram : net' = net \cup {d} /\ Foreign(d)
    <3> DEFINE d == [src |-> n.src, dst |-> n.dst, wire |-> n.wire, carries |-> {}]
    <3>1. d \in Datagram
      BY TunnelAssumption DEF Datagram, Address
    <3>2. Foreign(d)
      BY DEF Foreign
    <3> QED
      BY <2>2, <3>1, <3>2 DEF Stray
  <2> QED
    BY <2>1, <2>2
<1>3. NetOK'
  BY <1>0, <1>2 DEF NetOK
<1>4. SacksOK' /\ PeersOK'
  BY <1>0, <1>1 DEF SacksOK, PeersOK
<1>5. LoopOK'
  BY <1>0, <1>1, <1>2 DEF LoopOK
<1>6. Typed'
  BY <1>0, <1>1, <1>2 DEF Typed
<1> QED
  BY <1>3, <1>4, <1>5, <1>6 DEF Inv

\* A datagram is handled: nothing but the packets it holds is added to what
\* came from its sender.
LEMMA HandleEffect ==
    ASSUME Inv, NEW h \in Host, Handle(h)
    PROVE  /\ buf[h] \in Datagram /\ buf[h] \in net /\ buf[h].dst = h /\ handler[h]
           /\ Sent(buf[h]) \/ Foreign(buf[h])
           /\ accepted' \in [Host -> [Address -> SUBSET ReliablePacket]]
           /\ \A g \in Host, a \in Address : accepted[g][a] \subseteq accepted'[g][a]
           /\ \A g \in Host, a \in Address : \A p \in accepted'[g][a] :
                \/ p \in accepted[g][a]
                \/ /\ Handed(h, buf[h]) /\ g = h /\ a = buf[h].src
                   /\ p \in Received(PayloadOf(buf[h].wire))
           /\ Handed(h, buf[h]) =>
                Received(PayloadOf(buf[h].wire)) \subseteq accepted'[h][buf[h].src]
<1>0. Typed /\ LoopOK /\ NetOK
  BY DEF Inv
<1> DEFINE d == buf[h]
<1>1. d \in Datagram /\ d \in net /\ d.dst = h /\ d.src \in Address /\ handler[h]
  BY ZenonT(30), <1>0 DEF Typed, LoopOK, Handle, Datagram, Stage
<1>2. Sent(d) \/ Foreign(d)
  BY <1>0, <1>1 DEF NetOK
<1>3. accepted' = IF Handed(h, d)
                  THEN [accepted EXCEPT ![h][d.src] = @ \cup Received(PayloadOf(d.wire))]
                  ELSE accepted
  BY DEF Handle
<1>4. CASE Handed(h, d)
  <2> DEFINE x == d.src
             new == accepted[h][x] \cup Received(PayloadOf(d.wire))
  <2>1. Received(PayloadOf(d.wire)) \subseteq ReliablePacket
    BY <1>1, <1>2, <1>4, ReceivedType DEF Handed, Passes
  <2>2. accepted' = [accepted EXCEPT ![h][x] = new]
    BY <1>3, <1>4
  <2>3. new \in SUBSET ReliablePacket /\ x \in Address
    BY <1>0, <1>1, <2>1 DEF Typed
  <2> HIDE DEF new, x
  <2>4. /\ accepted' \in [Host -> [Address -> SUBSET ReliablePacket]]
        /\ \A g \in Host, a \in Address :
             accepted'[g][a] = IF g = h /\ a = x THEN new ELSE accepted[g][a]
    BY <1>0, <2>2, <2>3 DEF Typed
  <2>5. /\ accepted[h][x] \subseteq new /\ Received(PayloadOf(d.wire)) \subseteq new
        /\ \A p \in new : p \in accepted[h][x] \/ p \in Received(PayloadOf(d.wire))
    BY DEF new
  <2>6. \A g \in Host, a \in Address : accepted[g][a] \subseteq accepted'[g][a]
    BY <2>4, <2>5
  <2>7. \A g \in Host, a \in Address : \A p \in accepted'[g][a] :
          p \in accepted[g][a] \/ (g = h /\ a = x /\ p \in Received(PayloadOf(d.wire)))
    BY <2>4, <2>5
  <2>8. Received(PayloadOf(d.wire)) \subseteq accepted'[h][x]
    BY <2>3, <2>4, <2>5
  <2>9. accepted' \in [Host -> [Address -> SUBSET ReliablePacket]]
    BY <2>4
  <2> QED
    BY <1>1, <1>2, <1>4, <2>6, <2>7, <2>8, <2>9, Zenon DEF x
<1>5. CASE ~Handed(h, d)
  BY <1>0, <1>1, <1>2, <1>3, <1>5 DEF Typed
<1> QED
  BY <1>4, <1>5

\* The filters and handleGREPacket.
LEMMA HandleStep ==
    ASSUME Inv, NEW h \in Host, Handle(h)
    PROVE  Inv'
<1>0. Typed /\ LoopOK /\ PeersOK /\ NetOK /\ SacksOK
  BY DEF Inv
<1> DEFINE d == buf[h]
<1>1. d \in Datagram /\ (Sent(d) \/ Foreign(d)) /\ d.src \in Address
  BY HandleEffect DEF Datagram
<1>2. /\ UNCHANGED <<prog, conn, closed, handler, net>> /\ loop[h] = "handle"
      /\ loop' = [loop EXCEPT ![h] = "check"] /\ buf' = [buf EXCEPT ![h] = NoDatagram]
      /\ registered' = IF h = Server /\ Passes(h, d) THEN registered \cup {d.src} ELSE registered
      /\ peers' = IF h = Server /\ Handed(h, d)
                  THEN [peers EXCEPT ![h] = @ \cup {d.src}] ELSE peers
  BY DEF Handle
<1>3. Handed(h, d) => Passes(h, d)
  BY DEF Handed
<1>4. NetOK'
  BY <1>0, <1>2 DEF NetOK
<1>5. /\ peers' \in [Host -> SUBSET Address] /\ registered' \subseteq Address /\ PeersOK'
  <2>1. registered \subseteq registered' /\ registered' \subseteq Address
    BY <1>0, <1>1, <1>2 DEF Typed
  <2>2. CASE h = Server /\ Handed(h, d)
    BY <1>0, <1>1, <1>2, <1>3, <2>1, <2>2 DEF Typed, PeersOK
  <2>3. CASE ~(h = Server /\ Handed(h, d))
    BY <1>0, <1>2, <2>1, <2>3 DEF Typed, PeersOK
  <2> QED
    BY <2>1, <2>2, <2>3
<1>6. SacksOK'
  <2>1. ASSUME NEW g \in Host, NEW a \in Address, NEW p \in accepted'[g][a]
        PROVE  Len(p.sack) <= MaxSackBlocks
    <3>1. CASE p \in accepted[g][a]
      BY <1>0, <3>1 DEF SacksOK
    <3>2. CASE p \notin accepted[g][a]
      <4>1. Handed(h, d) /\ p \in Received(PayloadOf(d.wire))
        BY <2>1, <3>2, HandleEffect
      <4> QED
        BY <1>1, <4>1, ReceivedType DEF Handed, Passes
    <3> QED
      BY <3>1, <3>2
  <2> QED
    BY <2>1 DEF SacksOK
<1>7. loop' \in [Host -> LoopLabel] /\ buf' \in [Host -> Datagram]
  BY <1>0, <1>2, HostFacts DEF Typed, LoopLabel
<1>8. accepted' \in [Host -> [Address -> SUBSET ReliablePacket]]
  BY HandleEffect
<1>9. Typed'
  BY <1>0, <1>2, <1>5, <1>7, <1>8 DEF Typed
<1>10. LoopOK'
  <2>1. loop'[h] = "check" /\ \A g \in Host : g # h => loop'[g] = loop[g] /\ buf'[g] = buf[g]
    BY <1>0, <1>2 DEF Typed
  <2> QED
    BY <1>0, <1>2, <2>1 DEF LoopOK
<1> QED
  BY <1>4, <1>5, <1>6, <1>9, <1>10 DEF Inv

\* The invariant holds at the start.
LEMMA InitInv == Init => Inv
<1> SUFFICES ASSUME Init PROVE Inv
  OBVIOUS
<1>1. Typed
  BY HostFacts DEF Init, Typed, Stage, LoopLabel
<1>2. LoopOK
  BY DEF Init, LoopOK
<1>3. PeersOK
  BY HostFacts DEF Init, PeersOK
<1>4. NetOK /\ SacksOK
  BY DEF Init, NetOK, SacksOK
<1> QED
  BY <1>1, <1>2, <1>3, <1>4 DEF Inv

\* Every step keeps the invariant.
LEMMA NextInv == Inv /\ [Next]_vars => Inv'
<1> SUFFICES ASSUME Inv, [Next]_vars PROVE Inv'
  OBVIOUS
<1>1. CASE UNCHANGED vars
  BY <1>1 DEF vars, Inv, Typed, LoopOK, PeersOK, NetOK, SacksOK
<1>2. ASSUME NEW h \in Host,
             \/ Open(h) \/ SetReceiveHandler(h) \/ StartLoop(h)
             \/ Looping(h) \/ Shutdown(h) \/ Closing(h)
             \/ \E d \in net : Read(h, d)
      PROVE  Inv'
  <2>1. CASE Looping(h)
    BY <2>1, LoopStep, HandleStep DEF Looping
  <2>2. CASE ~Looping(h)
    BY <1>2, <2>2, ProgramStep, LoopStep
  <2> QED
    BY <2>1, <2>2
<1> QED
  BY <1>1, <1>2, NetStep DEF Next

\* The invariant holds always.
LEMMA SpecInv == Spec => []Inv
BY InitInv, NextInv, PTL DEF Spec
-----------------------------------------------------------------------------
(***************************************************************************)
(* The theorems about the transports.                                      *)
(***************************************************************************)

\* Whatever GRE traffic reaches the hosts, the variables of the transports keep
\* their types: what a ReliableManager parses is a packet with flags of a byte
\* and no more SACK blocks than the program handles, and the server has no
\* ReliableManager for a sender that its transport has not registered.
THEOREM TypeCorrect == Spec => []TypeOK
<1>1. Inv => TypeOK
  BY DEF Inv, Typed, LoopOK, PeersOK, SacksOK, LoopLabel, TypeOK
<1> QED
  BY SpecInv, <1>1, PTL

\* Unless somebody else sends reliable packets with the tunnel's key, a
\* ReliableManager gets nothing but the packets its peer's manager sent to it,
\* field by field, through both codecs, their filters, and a network that loses,
\* repeats and reorders.
THEOREM OnlyGenuine == ASSUME Unforged PROVE Spec => []Genuine
<1>1. Init => Genuine
  BY DEF Init, Genuine
<1>2. Inv /\ Genuine /\ [Next]_vars => Genuine'
  <2> SUFFICES ASSUME Inv, Genuine, [Next]_vars, Key # 0,
                      NEW h \in Host, NEW a \in Address, NEW p \in accepted'[h][a]
               PROVE  \E d \in net' : d.src = a /\ [to |-> h, pkt |-> p] \in d.carries
    BY DEF Genuine
  <2>1. net \subseteq net'
    BY DEF Next, vars, Open, SetReceiveHandler, StartLoop, Looping, CheckClosed, ReadFails,
       Handle, Shutdown, Closing, SwapClosed, CloseConn, WaitLoop, Read, Send, Stray
  <2>2. CASE p \in accepted[h][a]
    BY <2>1, <2>2 DEF Genuine
  <2>3. CASE p \notin accepted[h][a]
    <3>1. PICK g \in Host : Handle(g)
      BY <2>3 DEF Next, vars, Open, SetReceiveHandler, StartLoop, Looping, CheckClosed,
         ReadFails, Shutdown, Closing, SwapClosed, CloseConn, WaitLoop, Read, Send, Stray
    <3> DEFINE d == buf[g]
    <3>2. /\ Handed(g, d) /\ g = h /\ a = d.src /\ p \in Received(PayloadOf(d.wire))
          /\ d \in Datagram /\ d \in net /\ d.dst = h /\ (Sent(d) \/ Foreign(d))
      BY <2>3, <3>1, HandleEffect
    <3> HIDE DEF d
    <3>3. CASE Sent(d)
      <4>1. [to |-> h, pkt |-> p] \in d.carries
        BY <3>2, <3>3, SentFacts
      <4> QED
        BY <2>1, <3>2, <4>1
    <3>4. CASE Foreign(d)
      <4>1. PICK n \in Noise : d.src = n.src /\ d.dst = n.dst /\ d.wire = n.wire
        BY <3>4 DEF Foreign
      <4>2. IsGre(n.wire) /\ KeyOf(n.wire) = Key /\ (n.dst = Server \/ n.src = Server)
        BY <3>2, <4>1 DEF Handed, Passes
      <4>3. Has(n.wire[1], FlagKey)
        BY <4>2 DEF KeyOf
      <4>4. IsReliable(PayloadOf(n.wire))
        BY <3>2, <4>1 DEF Received
      <4> QED
        BY <4>2, <4>3, <4>4 DEF Unforged
    <3> QED
      BY <3>2, <3>3, <3>4
  <2> QED
    BY <2>2, <2>3
<1> QED
  BY <1>1, <1>2, SpecInv, PTL DEF Spec

\* No packet of the peer that a receive loop has read is lost between the
\* socket and the ReliableManager: it passes the address filter, the GRE
\* parser, the key check and the reliable parser, and there is a handler for it
\* from the first one on.
THEOREM NoneDropped == Spec => Faithful
<1>1. ASSUME Inv, [Next]_vars, NEW h \in Host, loop[h] = "handle", loop'[h] # "handle",
             NEW c \in buf[h].carries
      PROVE  c.pkt \in accepted'[h][buf[h].src]
  <2>0. Typed /\ LoopOK /\ NetOK
    BY <1>1 DEF Inv
  <2>1. Handle(h)
    <3>1. prog[h] # "set"
      BY <1>1, <2>0 DEF LoopOK
    <3>2. ASSUME NEW g \in Host, StartLoop(g) PROVE loop'[h] = "handle"
      <4>1. g # h
        BY <3>1, <3>2 DEF StartLoop
      <4> QED
        BY <1>1, <2>0, <3>2, <4>1 DEF StartLoop, Typed
    <3>3. ASSUME NEW g \in Host, CheckClosed(g) \/ ReadFails(g) \/ \E d \in net : Read(g, d)
          PROVE  loop'[h] = "handle"
      <4>1. g # h
        BY <1>1, <3>3 DEF CheckClosed, ReadFails, Read
      <4> QED
        BY <1>1, <2>0, <3>3, <4>1 DEF CheckClosed, ReadFails, Read, Typed
    <3>4. ASSUME NEW g \in Host, Handle(g) PROVE g = h
      BY <1>1, <2>0, <3>4 DEF Handle, Typed
    <3>5. ~UNCHANGED loop
      BY <1>1
    <3>6. PICK g \in Host : StartLoop(g) \/ CheckClosed(g) \/ ReadFails(g) \/ Handle(g)
                            \/ \E d \in net : Read(g, d)
      BY <1>1, <3>5 DEF Next, vars, Open, SetReceiveHandler, Looping, Shutdown, Closing,
         SwapClosed, CloseConn, WaitLoop, Send, Stray
    <3> QED
      BY <1>1, <3>2, <3>3, <3>4, <3>6
  <2> DEFINE d == buf[h]
  <2>2. d \in Datagram /\ d.dst = h /\ handler[h] /\ (Sent(d) \/ Foreign(d))
    BY <1>1, <2>1, HandleEffect
  <2>3. Sent(d)
    BY <1>1, <2>2 DEF Foreign
  <2>4. Received(PayloadOf(d.wire)) = {c.pkt}
    BY <1>1, <2>2, <2>3, SentFacts
  <2>5. Handed(h, d)
    <3>1. h = Server \/ d.src = Server
      BY <2>2, <2>3 DEF Sent
    <3> QED
      BY <2>2, <2>3, <3>1, SentFacts DEF Handed, Passes
  <2> QED
    BY <1>1, <2>1, <2>4, <2>5, HandleEffect
<1>2. Inv /\ [Next]_vars =>
        [\A h \in Host :
            loop[h] = "handle" /\ loop'[h] # "handle" =>
                \A c \in buf[h].carries : c.pkt \in accepted'[h][buf[h].src]]_vars
  BY <1>1
<1> QED
  BY <1>2, SpecInv, PTL DEF Spec, Faithful
=============================================================================
