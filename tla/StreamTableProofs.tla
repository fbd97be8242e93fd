------------------------- MODULE StreamTableProofs -------------------------
(***************************************************************************)
(* Proofs about StreamTable, for any number of chunks, objects and faults, *)
(* whichever ends remove their stream or shut down.                        *)
(***************************************************************************)
EXTENDS StreamTable, SequenceTheorems, WellFoundedInduction, TLAPS

(***************************************************************************)
(* Where the goroutines can be, and what they then hold.                   *)
(***************************************************************************)
Label == {"idle", "store", "use", "close", "remove", "removed", "done"}

ControlOK ==
    /\ pc \in [Proc -> Label]
    /\ \A e \in End :
         /\ pc[Main(e)] \in {"idle", "done"} /\ pc[Recv(e)] # "close"
         /\ \A p \in {Recv(e), Handler(e)} :
              pc[p] \in {"store", "use", "close", "removed"} =>
                  held[p] \in Objects /\ obj[e][held[p]].state # "unborn"

(***************************************************************************)
(* The life of the objects: the goroutines that are about to store or to   *)
(* close an object are the only ones to do so.                             *)
(***************************************************************************)
Owns(p) == pc[p] \in {"store", "removed"}

Owners ==
    \A e \in End :
        /\ \A p \in {Recv(e), Handler(e)} :
             /\ Owns(p) => held[p] # streams[e]
             /\ pc[p] = "store" => obj[e][held[p]].state = "open"
        /\ Owns(Recv(e)) /\ Owns(Handler(e)) => held[Recv(e)] # held[Handler(e)]

LifeInv == Owners /\ NoOrphan /\ MapHoldsOpen

(***************************************************************************)
(* The numbers of the chunks.  A data packet for end e is under way, waits *)
(* at the receive loop or at the peer for its ACK; a chunk for e is in     *)
(* such a packet, in a reorder buffer of e, or has been handed over.       *)
(***************************************************************************)
OnItsWay(e, x) ==
    \/ \E i \in 1 .. Len(net[e]) : net[e][i] = x
    \/ packet[e] = x
    \/ \E o \in Objects : x \in obj[Peer(e)][o].unacked

Numbered(e, s, c) ==
    \/ \E x \in Packet : OnItsWay(e, x) /\ x.kind = "data" /\ x.seq = s /\ x.chunk = c
    \/ \E o \in Objects : [seq |-> s, chunk |-> c] \in obj[e][o].outOfOrder
    \/ ~removed[e] /\ s + 1 \in 1 .. Len(got[e]) /\ got[e][s + 1] = c

\* No number or chunk is ahead of what the application has sent, since the
\* CLOSE, which has a number too, comes last.
SentFirst ==
    \A e \in End :
        /\ \A s, c \in Nat : Numbered(e, s, c) => s < sent[Peer(e)] /\ c <= sent[Peer(e)]
        /\ pc[Handler(e)] \in {"store", "use"} => ~ended[e]
        /\ pc[Handler(e)] = "close" => ended[e]
        /\ ~ended[e] => \A o \in Objects : obj[e][o].sendSeq <= sent[e]

\* The peer's objects, one after the other, never gave a chunk two numbers.
OneNumber ==
    \A e \in End : \A s, t, c \in Nat :
        Numbered(e, s, c) /\ Numbered(e, t, c) => s = t

\* An end that has not removed its stream has one object in use, and that
\* object has handed over everything that was.
OneObject ==
    \A e \in End :
        ~removed[e] =>
            /\ \A o \in Objects :
                 obj[e][o].recvNext = (IF o = streams[e] THEN Len(got[e]) ELSE 0)
            /\ streams[e] = None => got[e] = <<>>
            /\ pc[Recv(e)] = "use" => held[Recv(e)] = streams[e]
            /\ pc[Recv(e)] # "removed" /\ pc[Handler(e)] # "removed"

TypeInv == TypeOK /\ ControlOK /\ SentFirst
Inv == TypeInv /\ LifeInv /\ OneNumber /\ OneObject
-----------------------------------------------------------------------------
(***************************************************************************)
(* Ends, goroutines and the least element of a set of numbers.             *)
(***************************************************************************)

\* The two ends are each other's peer.
LEMMA EndFacts ==
    ASSUME NEW e \in End
    PROVE  /\ Peer(e) \in End /\ Peer(e) # e /\ Peer(Peer(e)) = e
           /\ \A f \in End : f = e \/ f = Peer(e)
BY DEF End, Peer

\* The goroutines of an end are three, and those of the other end are others.
LEMMA ProcFacts ==
    ASSUME NEW e \in End, NEW f \in End
    PROVE  /\ Recv(e) \in Proc /\ Handler(e) \in Proc /\ Main(e) \in Proc
           /\ Recv(e)[2] = e /\ Handler(e)[2] = e /\ Main(e)[2] = e
           /\ Recv(e) # Handler(f) /\ Recv(e) # Main(f) /\ Handler(e) # Main(f)
           /\ Recv(e) = Recv(f) <=> e = f
           /\ Handler(e) = Handler(f) <=> e = f
           /\ Main(e) = Main(f) <=> e = f
BY DEF Recv, Handler, Main, Proc

\* A goroutine is one of these.
LEMMA ProcCases ==
    ASSUME NEW p \in Proc
    PROVE  \E e \in End : p \in {Recv(e), Handler(e), Main(e)} /\ p[2] = e
BY DEF Recv, Handler, Main, Proc

\* A set of natural numbers that is not empty has a least element.
LEMMA LeastExists ==
    ASSUME NEW T \in SUBSET Nat, T # {}
    PROVE  \E x \in T : \A y \in T : x <= y
<1> DEFINE R == OpToRel(<, Nat)
<1>1. IsWellFoundedOn(R, Nat)
  BY NatLessThanWellFounded, Zenon
<1>2. \A x, y \in Nat : y < x => <<y, x>> \in R
  BY DEF OpToRel
<1> HIDE DEF R
<1>3. PICK x \in T : \A y \in T : ~ (<<y, x>> \in R)
  BY <1>1, WFMin
<1>4. ASSUME NEW y \in T PROVE x <= y
  <2>1. ~ (y < x)
    BY <1>2, <1>3
  <2> QED
    BY <2>1
<1> QED
  BY <1>4

(***************************************************************************)
(* What Receive and Send make of an object.                                *)
(***************************************************************************)

\* deliverOutOfOrder stops: the run that follows number n in a buffer whose
\* numbers are below m is as long as RunLength says.
LEMMA RunLengthFacts ==
    ASSUME NEW r \in Object, NEW n \in Nat, NEW m \in Nat,
           sent["client"] + sent["server"] \in Nat,
           m <= sent["client"] + sent["server"],
           \A b \in r.outOfOrder : b.seq < m
    PROVE  /\ RunLength(r, n) \in Nat
           /\ \A i \in 0 .. (RunLength(r, n) - 1) :
                 \E b \in r.outOfOrder : b.seq = n + i
           /\ ~ \E b \in r.outOfOrder : b.seq = n + RunLength(r, n)
<1> DEFINE T == {k \in Nat : ~ \E b \in r.outOfOrder : b.seq = n + k}
           All == sent["client"] + sent["server"]
           Run(k) == /\ \A i \in 0 .. (k - 1) : \E b \in r.outOfOrder : b.seq = n + i
                     /\ ~ \E b \in r.outOfOrder : b.seq = n + k
<1>1. m \in T
  BY DEF Object
<1>2. PICK k \in T : \A y \in T : k <= y
  <2> HIDE DEF T
  <2>1. T \subseteq Nat
    BY DEF T
  <2> QED
    BY <1>1, <2>1, LeastExists
<1>3. k \in 0 .. All /\ Run(k)
  <2>1. k \in 0 .. All
    BY <1>1, <1>2
  <2>2. ASSUME NEW i \in 0 .. (k - 1) PROVE \E b \in r.outOfOrder : b.seq = n + i
    <3>1. i \in Nat /\ i \notin T
      BY <1>2, <2>1
    <3> QED
      BY <3>1
  <2> QED
    BY <1>2, <2>1, <2>2
<1>4. RunLength(r, n) = CHOOSE j \in 0 .. All : Run(j)
  BY DEF RunLength
<1> HIDE DEF Run
<1>5. RunLength(r, n) \in 0 .. All /\ Run(RunLength(r, n))
  BY <1>3, <1>4
<1> QED
  BY <1>5 DEF Run

\* processData keeps an object an object, open or closed as it was, leaves
\* what waits for an ACK alone, and buffers nothing but the packet's chunk.
LEMMA ProcessedFacts ==
    ASSUME NEW r \in Object, NEW p \in Packet, NEW m \in Nat,
           sent["client"] + sent["server"] \in Nat,
           m <= sent["client"] + sent["server"],
           \A b \in r.outOfOrder : b.seq < m
    PROVE  /\ Processed(r, p) \in Object
           /\ Processed(r, p).state = r.state
           /\ Processed(r, p).sendSeq = r.sendSeq
           /\ Processed(r, p).unacked = r.unacked
           /\ \A b \in Processed(r, p).outOfOrder :
                 b \in r.outOfOrder \/ b = [seq |-> p.seq, chunk |-> p.chunk]
<1> DEFINE with(next, buf) == [r EXCEPT !.recvNext = next, !.outOfOrder = buf]
<1>0. /\ p.seq \in Nat /\ [seq |-> p.seq, chunk |-> p.chunk] \in [seq : Nat, chunk : Nat]
      /\ r.recvNext \in Nat /\ r.outOfOrder \subseteq [seq : Nat, chunk : Nat]
  BY DEF Object, Packet
<1>1. ASSUME NEW next \in Nat, NEW buf \in SUBSET [seq : Nat, chunk : Nat]
      PROVE  /\ with(next, buf) \in Object
             /\ with(next, buf).state = r.state /\ with(next, buf).sendSeq = r.sendSeq
             /\ with(next, buf).unacked = r.unacked /\ with(next, buf).outOfOrder = buf
  BY DEF Object
<1>2. CASE p.seq = r.recvNext
  <2> DEFINE next == p.seq + 1 + RunLength(r, p.seq + 1)
             buf == {b \in r.outOfOrder : b.seq > next}
  <2>1. p.seq + 1 \in Nat
    BY <1>0
  <2>2. RunLength(r, p.seq + 1) \in Nat
    BY <2>1, RunLengthFacts
  <2>3. Processed(r, p) = with(next, buf)
    BY <1>2 DEF Processed
  <2>4. next \in Nat /\ buf \in SUBSET [seq : Nat, chunk : Nat] /\ buf \subseteq r.outOfOrder
    BY <1>0, <2>1, <2>2
  <2> HIDE DEF next, buf, with
  <2> QED
    BY <1>1, <2>3, <2>4
<1>3. CASE p.seq > r.recvNext /\ \A b \in r.outOfOrder : b.seq # p.seq
  <2> DEFINE buf == r.outOfOrder \cup {[seq |-> p.seq, chunk |-> p.chunk]}
  <2>1. Processed(r, p) = [r EXCEPT !.outOfOrder = buf]
    BY <1>0, <1>3 DEF Processed
  <2>2. buf \in SUBSET [seq : Nat, chunk : Nat]
    BY <1>0
  <2> HIDE DEF buf
  <2>3. /\ Processed(r, p) \in Object
        /\ Processed(r, p).state = r.state /\ Processed(r, p).sendSeq = r.sendSeq
        /\ Processed(r, p).unacked = r.unacked /\ Processed(r, p).outOfOrder = buf
    BY <2>1, <2>2 DEF Object
  <2> QED
    BY <2>3 DEF buf
<1>4. CASE p.seq # r.recvNext /\ ~(p.seq > r.recvNext /\ \A b \in r.outOfOrder : b.seq # p.seq)
  BY <1>4 DEF Processed
<1> QED
  BY <1>2, <1>3, <1>4

\* processAck only takes packets out of unacked and moves sendBase.
LEMMA AckedFacts ==
    ASSUME NEW r \in Object, NEW a \in Nat
    PROVE  /\ Acked(r, a) \in Object
           /\ Acked(r, a).state = r.state
           /\ Acked(r, a).sendSeq = r.sendSeq
           /\ Acked(r, a).unacked \subseteq r.unacked
           /\ Acked(r, a).recvNext = r.recvNext
           /\ Acked(r, a).outOfOrder = r.outOfOrder
BY DEF Acked, Object

\* A packet sent takes the next number and waits for its ACK.
LEMMA StoredFacts ==
    ASSUME NEW r \in Object, NEW p \in Packet
    PROVE  /\ Stored(r, p) \in Object
           /\ Stored(r, p).state = r.state
           /\ Stored(r, p).sendSeq = r.sendSeq + 1
           /\ Stored(r, p).unacked = r.unacked \cup {p}
           /\ Stored(r, p).recvNext = r.recvNext
           /\ Stored(r, p).outOfOrder = r.outOfOrder
<1>1. r.sendSeq + 1 \in Nat /\ r.unacked \cup {p} \in SUBSET Packet
  BY DEF Object
<1> DEFINE n == r.sendSeq + 1
           un == r.unacked \cup {p}
<1>2. Stored(r, p) = [r EXCEPT !.sendSeq = n, !.unacked = un]
  BY DEF Stored
<1> HIDE DEF n, un
<1>3. n \in Nat /\ un \in SUBSET Packet
  BY <1>1 DEF n, un
<1>4. /\ Stored(r, p) \in Object
      /\ Stored(r, p).state = r.state
      /\ Stored(r, p).sendSeq = n
      /\ Stored(r, p).unacked = un
      /\ Stored(r, p).recvNext = r.recvNext
      /\ Stored(r, p).outOfOrder = r.outOfOrder
  BY <1>2, <1>3 DEF Object
<1> QED
  BY <1>4 DEF n, un

\* What processData hands over for packet p: its chunk and those of the run
\* behind it, the chunk handed over as the i-th being the one with number
\* p.seq + i - 1; and recvNext counts them.
LEMMA HandOverFacts ==
    ASSUME NEW r \in Object, NEW p \in Packet, NEW m \in Nat,
           sent["client"] + sent["server"] \in Nat,
           m <= sent["client"] + sent["server"],
           \A b \in r.outOfOrder : b.seq < m
    PROVE  /\ HandOver(r, p) \in Seq(Nat)
           /\ Processed(r, p).recvNext = r.recvNext + Len(HandOver(r, p))
           /\ \A i \in 1 .. Len(HandOver(r, p)) :
                 LET b == [seq |-> r.recvNext + i - 1, chunk |-> HandOver(r, p)[i]]
                 IN  b \in r.outOfOrder \/ b = [seq |-> p.seq, chunk |-> p.chunk]
<1>0. r.recvNext \in Nat /\ r.outOfOrder \subseteq [seq : Nat, chunk : Nat]
  BY DEF Object
<1>00. p.seq \in Nat /\ p.chunk \in Nat
  BY DEF Packet
<1>1. CASE p.seq # r.recvNext
  <2>1. HandOver(r, p) = <<>>
    BY <1>1 DEF HandOver
  <2>2. Processed(r, p).recvNext = r.recvNext
    BY <1>1 DEF Processed, Object
  <2> QED
    BY <1>0, <2>1, <2>2
<1>2. CASE p.seq = r.recvNext
  <2> DEFINE n == RunLength(r, p.seq + 1)
             Of(i) == CHOOSE b \in r.outOfOrder : b.seq = p.seq + i
             run == [i \in 1 .. n |-> Of(i).chunk]
  <2>1. /\ n \in Nat
        /\ \A i \in 0 .. (n - 1) : \E b \in r.outOfOrder : b.seq = (p.seq + 1) + i
    <3>1. p.seq + 1 \in Nat
      BY <1>00
    <3> QED
      BY <3>1, RunLengthFacts
  <2>2. HandOver(r, p) = <<p.chunk>> \o run
    BY <1>2 DEF HandOver
  <2>3. Processed(r, p).recvNext = p.seq + 1 + n
    BY <1>2 DEF Processed, Object
  <2> HIDE DEF n
  <2>4. ASSUME NEW i \in 1 .. n
        PROVE  Of(i) \in r.outOfOrder /\ Of(i).seq = p.seq + i
    <3>1. i - 1 \in 0 .. (n - 1) /\ (p.seq + 1) + (i - 1) = p.seq + i
      BY <1>00, <2>1
    <3>2. \E b \in r.outOfOrder : b.seq = p.seq + i
      BY <2>1, <3>1
    <3> QED
      BY <3>2
  <2> HIDE DEF Of
  <2>5. run \in Seq(Nat) /\ Len(run) = n /\ \A i \in 1 .. n : run[i] = Of(i).chunk
    <3>1. run \in [1 .. n -> Nat]
      BY <1>0, <2>4
    <3>2. run \in Seq(Nat)
      BY <2>1, <3>1, SeqDef
    <3> QED
      BY <2>1, <3>1, <3>2, LenProperties
  <2> HIDE DEF run
  <2>6. /\ HandOver(r, p) \in Seq(Nat) /\ Len(HandOver(r, p)) = n + 1
        /\ HandOver(r, p)[1] = p.chunk
        /\ \A i \in 1 .. n : HandOver(r, p)[i + 1] = run[i]
    BY <1>00, <2>1, <2>2, <2>5
  <2>7. ASSUME NEW i \in 1 .. Len(HandOver(r, p))
        PROVE  LET b == [seq |-> r.recvNext + i - 1, chunk |-> HandOver(r, p)[i]]
               IN  b \in r.outOfOrder \/ b = [seq |-> p.seq, chunk |-> p.chunk]
    <3>1. CASE i = 1
      BY <1>0, <1>2, <2>6, <3>1
    <3>2. CASE i # 1
      <4>1. i - 1 \in 1 .. n /\ r.recvNext + i - 1 = p.seq + (i - 1) /\ (i - 1) + 1 = i
        BY <1>0, <1>2, <2>1, <2>6, <3>2
      <4>2. HandOver(r, p)[i] = Of(i - 1).chunk
        BY <2>5, <2>6, <4>1
      <4>3. /\ Of(i - 1) \in r.outOfOrder /\ Of(i - 1) \in [seq : Nat, chunk : Nat]
            /\ Of(i - 1).seq = r.recvNext + i - 1
        BY <1>0, <2>4, <4>1
      <4> QED
        BY <4>2, <4>3
    <3> QED
      BY <3>1, <3>2
  <2> QED
    <3>1. Processed(r, p).recvNext = r.recvNext + Len(HandOver(r, p))
      BY <1>0, <1>2, <2>1, <2>3, <2>6
    <3> QED
      BY <2>6, <2>7, <3>1, Zenon
<1> QED
  BY <1>1, <1>2

(***************************************************************************)
(* An object is written: the others stay what they are.                    *)
(***************************************************************************)
Wrote(e, o, r) ==
    /\ obj' \in [End -> [Objects -> Object]] /\ obj'[e][o] = r
    /\ \A f \in End, q \in Objects : f # e \/ q # o => obj'[f][q] = obj[f][q]

\* An object replaced as a whole.
LEMMA WriteObject ==
    ASSUME obj \in [End -> [Objects -> Object]],
           NEW e \in End, NEW o \in Objects, NEW r \in Object,
           obj' = [obj EXCEPT ![e][o] = r]
    PROVE  Wrote(e, o, r)
BY DEF Wrote

(***************************************************************************)
(* What the steps of GetOrCreateStream do to the objects.  Both are taken  *)
(* by the receive loop and by the handler.                                 *)
(***************************************************************************)

\* The fields of an object that opening and closing it leave alone.
SameContent(f, q) ==
    /\ obj'[f][q].sendSeq = obj[f][q].sendSeq
    /\ obj'[f][q].unacked = obj[f][q].unacked
    /\ obj'[f][q].recvNext = obj[f][q].recvNext
    /\ obj'[f][q].outOfOrder = obj[f][q].outOfOrder

\* Objects are opened and closed, and nothing else happens to them.
OnlyStates ==
    /\ obj' \in [End -> [Objects -> Object]]
    /\ \A f \in End, q \in Objects :
         SameContent(f, q) /\ (obj[f][q].state # "unborn" => obj'[f][q].state # "unborn")

\* One object changes its state, so only states change.
LEMMA StateStep ==
    ASSUME obj \in [End -> [Objects -> Object]],
           NEW e \in End, NEW o \in Objects, NEW r \in Object, r.state # "unborn",
           r.sendSeq = obj[e][o].sendSeq, r.unacked = obj[e][o].unacked,
           r.recvNext = obj[e][o].recvNext, r.outOfOrder = obj[e][o].outOfOrder,
           Wrote(e, o, r)
    PROVE  /\ OnlyStates /\ obj'[e][o].state = r.state
           /\ \A f \in End, q \in Objects :
                f # e \/ q # o => obj'[f][q].state = obj[f][q].state
BY DEF Wrote, OnlyStates, SameContent

\* Load, of the receive loop or the handler of e: it holds the stream of the
\* map and goes to use it, or a fresh object and goes to store it.
LEMMA LoadStep ==
    ASSUME TypeOK, NEW e \in End, NEW p \in {Recv(e), Handler(e)}, Load(p)
    PROVE  /\ OnlyStates
           /\ \/ /\ streams[e] # None /\ UNCHANGED obj
                 /\ held' = [held EXCEPT ![p] = streams[e]]
                 /\ pc' = [pc EXCEPT ![p] = "use"]
              \/ \E o \in Objects :
                   /\ streams[e] = None /\ obj[e][o].state = "unborn"
                   /\ obj'[e][o].state = "open"
                   /\ \A f \in End, q \in Objects :
                        f # e \/ q # o => obj'[f][q].state = obj[f][q].state
                   /\ held' = [held EXCEPT ![p] = o]
                   /\ pc' = [pc EXCEPT ![p] = "store"]
<1>1. p[2] = e
  BY ProcFacts
<1>2. CASE streams[e] # None
  BY <1>1, <1>2 DEF Load, Goto, OnlyStates, SameContent, TypeOK
<1>3. CASE streams[e] = None
  <2>1. PICK o \in Objects :
          /\ Fresh(e, o) /\ obj' = [obj EXCEPT ![e][o].state = "open"]
          /\ held' = [held EXCEPT ![p] = o] /\ pc' = [pc EXCEPT ![p] = "store"]
    BY <1>1, <1>3 DEF Load, Goto
  <2>2. /\ OnlyStates /\ obj'[e][o].state = "open"
        /\ \A f \in End, q \in Objects :
             f # e \/ q # o => obj'[f][q].state = obj[f][q].state
    <3>0. obj \in [End -> [Objects -> Object]] /\ obj[e][o] \in Object
      BY DEF TypeOK
    <3> DEFINE r == [obj[e][o] EXCEPT !.state = "open"]
    <3>1. obj' = [obj EXCEPT ![e][o] = r]
      BY <2>1
    <3>2. /\ r \in Object /\ r.state = "open" /\ r.sendSeq = obj[e][o].sendSeq
          /\ r.unacked = obj[e][o].unacked /\ r.recvNext = obj[e][o].recvNext
          /\ r.outOfOrder = obj[e][o].outOfOrder
      BY <3>0 DEF Object
    <3> HIDE DEF r
    <3>3. Wrote(e, o, r)
      BY <3>0, <3>1, <3>2, WriteObject
    <3>4. r.state # "unborn"
      BY <3>2
    <3> QED
      BY <3>0, <3>2, <3>3, <3>4, StateStep
  <2> QED
    BY <1>3, <2>1, <2>2 DEF Fresh
<1> QED
  BY <1>2, <1>3

\* LoadOrStore: the object held goes into the map, or is closed.
LEMMA LoadOrStoreStep ==
    ASSUME TypeOK, ControlOK, NEW e \in End, NEW p \in {Recv(e), Handler(e)},
           LoadOrStore(p)
    PROVE  /\ OnlyStates /\ pc[p] = "store" /\ pc' = [pc EXCEPT ![p] = "use"]
           /\ held[p] \in Objects
           /\ \/ /\ streams[e] = None /\ UNCHANGED <<obj, held>>
                 /\ streams' = [streams EXCEPT ![e] = held[p]]
              \/ /\ streams[e] # None /\ UNCHANGED streams
                 /\ held' = [held EXCEPT ![p] = streams[e]]
                 /\ obj'[e][held[p]].state = "closed"
                 /\ \A f \in End, q \in Objects :
                      f # e \/ q # held[p] => obj'[f][q].state = obj[f][q].state
<1>1. p[2] = e /\ pc[p] = "store" /\ pc' = [pc EXCEPT ![p] = "use"]
  BY ProcFacts DEF LoadOrStore, Goto
<1>2. held[p] \in Objects
  BY <1>1 DEF ControlOK
<1>3. CASE streams[e] = None
  BY <1>1, <1>2, <1>3 DEF LoadOrStore, OnlyStates, SameContent, TypeOK
<1>4. CASE streams[e] # None
  <2>1. /\ obj' = [obj EXCEPT ![e][held[p]].state = "closed"]
        /\ held' = [held EXCEPT ![p] = streams[e]] /\ UNCHANGED streams
    BY <1>1, <1>4 DEF LoadOrStore
  <2>2. /\ OnlyStates /\ obj'[e][held[p]].state = "closed"
        /\ \A f \in End, q \in Objects :
             f # e \/ q # held[p] => obj'[f][q].state = obj[f][q].state
    <3>1. PICK o \in Objects : o = held[p]
      BY <1>2
    <3>2. obj' = [obj EXCEPT ![e][o].state = "closed"]
      BY <2>1, <3>1
    <3>3. /\ OnlyStates /\ obj'[e][o].state = "closed"
          /\ \A f \in End, q \in Objects :
               f # e \/ q # o => obj'[f][q].state = obj[f][q].state
      <4>0. obj \in [End -> [Objects -> Object]] /\ obj[e][o] \in Object
        BY DEF TypeOK
      <4> DEFINE r == [obj[e][o] EXCEPT !.state = "closed"]
      <4>1. obj' = [obj EXCEPT ![e][o] = r]
        BY <3>2
      <4>2. /\ r \in Object /\ r.state = "closed" /\ r.sendSeq = obj[e][o].sendSeq
            /\ r.unacked = obj[e][o].unacked /\ r.recvNext = obj[e][o].recvNext
            /\ r.outOfOrder = obj[e][o].outOfOrder
        BY <4>0 DEF Object
      <4> HIDE DEF r
      <4>3. Wrote(e, o, r)
        BY <4>0, <4>1, <4>2, WriteObject
      <4>4. r.state # "unborn"
        BY <4>2
      <4> QED
        BY <4>0, <4>2, <4>3, <4>4, StateStep
    <3> QED
      BY <3>1, <3>3
  <2> QED
    BY <1>1, <1>2, <1>4, <2>1, <2>2
<1> QED
  BY <1>3, <1>4

\* RemoveStream: the entry goes, and in the next step the object is closed.
LEMMA RemoveStep ==
    ASSUME TypeOK, ControlOK, NEW e \in End, NEW p \in {Recv(e), Handler(e)},
           NEW next \in {"idle", "done"}, RemoveStream(p, next)
    PROVE  /\ OnlyStates
           /\ \/ /\ pc[p] = "remove" /\ UNCHANGED obj
                 /\ held' = [held EXCEPT ![p] = streams[e]]
                 /\ streams' = [streams EXCEPT ![e] = None]
                 /\ removed' = [removed EXCEPT ![e] = @ \/ streams[e] # None]
                 /\ pc' = [pc EXCEPT ![p] = IF streams[e] = None THEN next
                                            ELSE "removed"]
              \/ /\ pc[p] = "removed" /\ UNCHANGED <<streams, held, removed>>
                 /\ held[p] \in Objects /\ obj'[e][held[p]].state = "closed"
                 /\ \A f \in End, q \in Objects :
                      f # e \/ q # held[p] => obj'[f][q].state = obj[f][q].state
                 /\ pc' = [pc EXCEPT ![p] = next]
<1>1. p[2] = e
  BY ProcFacts
<1>2. CASE pc[p] = "remove"
  BY <1>1, <1>2 DEF RemoveStream, Goto, OnlyStates, SameContent, TypeOK
<1>3. CASE pc[p] = "removed"
  <2>1. held[p] \in Objects
    BY <1>3 DEF ControlOK
  <2>2. /\ obj' = [obj EXCEPT ![e][held[p]].state = "closed"]
        /\ pc' = [pc EXCEPT ![p] = next] /\ UNCHANGED <<streams, held, removed>>
    BY <1>1, <1>3 DEF RemoveStream, Goto
  <2>3. /\ OnlyStates /\ obj'[e][held[p]].state = "closed"
        /\ \A f \in End, q \in Objects :
             f # e \/ q # held[p] => obj'[f][q].state = obj[f][q].state
    <3>1. PICK o \in Objects : o = held[p]
      BY <2>1
    <3>2. obj' = [obj EXCEPT ![e][o].state = "closed"]
      BY <2>2, <3>1
    <3>3. /\ OnlyStates /\ obj'[e][o].state = "closed"
          /\ \A f \in End, q \in Objects :
               f # e \/ q # o => obj'[f][q].state = obj[f][q].state
      <4>0. obj \in [End -> [Objects -> Object]] /\ obj[e][o] \in Object
        BY DEF TypeOK
      <4> DEFINE r == [obj[e][o] EXCEPT !.state = "closed"]
      <4>1. obj' = [obj EXCEPT ![e][o] = r]
        BY <3>2
      <4>2. /\ r \in Object /\ r.state = "closed" /\ r.sendSeq = obj[e][o].sendSeq
            /\ r.unacked = obj[e][o].unacked /\ r.recvNext = obj[e][o].recvNext
            /\ r.outOfOrder = obj[e][o].outOfOrder
        BY <4>0 DEF Object
      <4> HIDE DEF r
      <4>3. Wrote(e, o, r)
        BY <4>0, <4>1, <4>2, WriteObject
      <4>4. r.state # "unborn"
        BY <4>2
      <4> QED
        BY <4>0, <4>2, <4>3, <4>4, StateStep
    <3> QED
      BY <3>1, <3>3
  <2> QED
    BY <1>3, <2>1, <2>2, <2>3
<1> QED
  BY <1>2, <1>3 DEF RemoveStream

\* Shutdown: the stream in the map is closed and stays there.
LEMMA ShutdownStep ==
    ASSUME TypeOK, NEW e \in End, Shutdown(e)
    PROVE  /\ OnlyStates /\ pc' = [pc EXCEPT ![Main(e)] = "done"]
           /\ UNCHANGED <<streams, held>>
           /\ \A f \in End, q \in Objects :
                f # e \/ q # streams[e] => obj'[f][q].state = obj[f][q].state
           /\ \/ streams[e] = None /\ UNCHANGED removed
              \/ removed' = [removed EXCEPT ![e] = TRUE]
<1>1. CASE streams[e] = None
  BY <1>1 DEF Shutdown, Goto, OnlyStates, SameContent, TypeOK
<1>2. CASE streams[e] # None
  <2>1. /\ streams[e] \in Objects /\ pc' = [pc EXCEPT ![Main(e)] = "done"]
        /\ obj' = [obj EXCEPT ![e][streams[e]].state = "closed"]
        /\ removed' = [removed EXCEPT ![e] = TRUE] /\ UNCHANGED <<streams, held>>
    BY <1>2 DEF Shutdown, Goto, TypeOK
  <2>2. /\ OnlyStates
        /\ \A f \in End, q \in Objects :
             f # e \/ q # streams[e] => obj'[f][q].state = obj[f][q].state
    <3>1. PICK o \in Objects : o = streams[e]
      BY <2>1
    <3>2. obj' = [obj EXCEPT ![e][o].state = "closed"]
      BY <2>1, <3>1
    <3>3. /\ OnlyStates /\ obj'[e][o].state = "closed"
          /\ \A f \in End, q \in Objects :
               f # e \/ q # o => obj'[f][q].state = obj[f][q].state
      <4>0. obj \in [End -> [Objects -> Object]] /\ obj[e][o] \in Object
        BY DEF TypeOK
      <4> DEFINE r == [obj[e][o] EXCEPT !.state = "closed"]
      <4>1. obj' = [obj EXCEPT ![e][o] = r]
        BY <3>2
      <4>2. /\ r \in Object /\ r.state = "closed" /\ r.sendSeq = obj[e][o].sendSeq
            /\ r.unacked = obj[e][o].unacked /\ r.recvNext = obj[e][o].recvNext
            /\ r.outOfOrder = obj[e][o].outOfOrder
        BY <4>0 DEF Object
      <4> HIDE DEF r
      <4>3. Wrote(e, o, r)
        BY <4>0, <4>1, <4>2, WriteObject
      <4>4. r.state # "unborn"
        BY <4>2
      <4> QED
        BY <4>0, <4>2, <4>3, <4>4, StateStep
    <3> QED
      BY <3>1, <3>3
  <2> QED
    BY <2>1, <2>2
<1> QED
  BY <1>1, <1>2

(***************************************************************************)
(* What Receive, Send and SendClose do.                                    *)
(***************************************************************************)

\* No number in a reorder buffer is ahead of what the peer has sent.
LEMMA BufferBound ==
    ASSUME TypeOK, SentFirst, NEW e \in End, NEW o \in Objects
    PROVE  /\ sent[Peer(e)] \in Nat /\ sent["client"] + sent["server"] \in Nat
           /\ sent[Peer(e)] <= sent["client"] + sent["server"]
           /\ \A b \in obj[e][o].outOfOrder : b.seq < sent[Peer(e)]
<1>1. /\ sent["client"] \in Nat /\ sent["server"] \in Nat
      /\ Peer(e) \in {"client", "server"}
  BY EndFacts DEF TypeOK, End
<1>2. obj[e][o].outOfOrder \subseteq [seq : Nat, chunk : Nat]
  <2>1. obj[e][o] \in Object
    BY DEF TypeOK
  <2> QED
    BY <2>1 DEF Object
<1>3. ASSUME NEW b \in obj[e][o].outOfOrder PROVE b.seq < sent[Peer(e)]
  <2>1. b \in [seq : Nat, chunk : Nat]
    BY <1>2
  <2>2. b.seq \in Nat /\ b.chunk \in Nat /\ b = [seq |-> b.seq, chunk |-> b.chunk]
    BY <2>1
  <2>3. Numbered(e, b.seq, b.chunk)
    BY <2>2 DEF Numbered
  <2> QED
    BY <2>2, <2>3 DEF SentFirst
<1> QED
  BY <1>1, <1>3

\* Receive writes the object the receive loop holds, which stays open or
\* closed as it was, and nothing is added to what waits for an ACK.
LEMMA ReceiveStep ==
    ASSUME TypeInv, NEW e \in End, Receive(e)
    PROVE  LET o == held[Recv(e)]
               r == obj[e][o]
               p == packet[e]
           IN  /\ o \in Objects /\ r \in Object /\ p \in Packet /\ pc[Recv(e)] = "use"
               /\ pc' = [pc EXCEPT ![Recv(e)] =
                            IF p.kind = "close" THEN "remove" ELSE "idle"]
               /\ packet' = [packet EXCEPT ![e] = NoPacket]
               /\ \E t \in Object :
                    /\ Wrote(e, o, t) /\ t.state = r.state /\ t.sendSeq = r.sendSeq
                    /\ t.unacked \subseteq r.unacked
                    /\ \/ /\ p.kind = "data" /\ t = Processed(r, p)
                          /\ got' = [got EXCEPT ![e] = @ \o HandOver(r, p)]
                          /\ net' = [net EXCEPT ![Peer(e)] = Append(@, AckOf(t))]
                       \/ /\ p.kind # "data" /\ UNCHANGED <<got, net>>
                          /\ t.recvNext = r.recvNext /\ t.outOfOrder = r.outOfOrder
<1> DEFINE o == held[Recv(e)]
           r == obj[e][o]
           p == packet[e]
<1>1. pc[Recv(e)] = "use" /\ packet' = [packet EXCEPT ![e] = NoPacket]
  BY DEF Receive
<1>2. o \in Objects
  BY <1>1 DEF TypeInv, ControlOK
<1>3. obj \in [End -> [Objects -> Object]] /\ r \in Object /\ p \in Packet
  BY <1>2 DEF TypeInv, TypeOK
<1>4. p.ack \in Nat /\ p.kind \in {"data", "ack", "close"}
  BY <1>3 DEF Packet
<1>5. CASE p.kind = "data"
  <2> DEFINE t == Processed(r, p)
  <2>1. /\ obj' = [obj EXCEPT ![e][o] = t]
        /\ got' = [got EXCEPT ![e] = @ \o HandOver(r, p)]
        /\ net' = [net EXCEPT ![Peer(e)] = Append(@, AckOf(t))]
        /\ pc' = [pc EXCEPT ![Recv(e)] = "idle"]
    BY <1>5 DEF Receive, Goto
  <2>2. /\ t \in Object /\ t.state = r.state /\ t.sendSeq = r.sendSeq
        /\ t.unacked = r.unacked
    BY <1>2, <1>3, BufferBound, ProcessedFacts DEF TypeInv
  <2>3. Wrote(e, o, t)
    <3> HIDE DEF o, t
    <3> QED
      BY <1>2, <1>3, <2>1, <2>2, WriteObject
  <2>4. pc' = [pc EXCEPT ![Recv(e)] = IF p.kind = "close" THEN "remove" ELSE "idle"]
    BY <1>5, <2>1
  <2> HIDE DEF o, r, p, t
  <2>5. /\ t \in Object /\ Wrote(e, o, t) /\ t.state = r.state /\ t.sendSeq = r.sendSeq
        /\ t.unacked \subseteq r.unacked
        /\ p.kind = "data" /\ t = Processed(r, p)
        /\ got' = [got EXCEPT ![e] = @ \o HandOver(r, p)]
        /\ net' = [net EXCEPT ![Peer(e)] = Append(@, AckOf(t))]
    BY <1>5, <2>1, <2>2, <2>3 DEF t
  <2> QED
    BY <1>1, <1>2, <1>3, <2>4, <2>5 DEF o, r, p
<1>6. CASE p.kind # "data"
  <2> DEFINE t == Acked(r, p.ack)
  <2>1. /\ obj' = [obj EXCEPT ![e][o] = t] /\ UNCHANGED <<got, net>>
        /\ pc' = [pc EXCEPT ![Recv(e)] = IF p.kind = "close" THEN "remove" ELSE "idle"]
    BY <1>4, <1>6 DEF Receive, Goto
  <2>2. /\ t \in Object /\ t.state = r.state /\ t.sendSeq = r.sendSeq
        /\ t.unacked \subseteq r.unacked
        /\ t.recvNext = r.recvNext /\ t.outOfOrder = r.outOfOrder
    BY <1>3, <1>4, AckedFacts
  <2>3. Wrote(e, o, t)
    <3> HIDE DEF o, t
    <3> QED
      BY <1>2, <1>3, <2>1, <2>2, WriteObject
  <2> HIDE DEF o, r, p, t
  <2> QED
    BY <1>1, <1>2, <1>3, <1>6, <2>1, <2>2, <2>3 DEF o, r, p
<1> QED
  BY <1>5, <1>6

\* The packet that Send and SendClose make of object r.
DataOf(e, r) ==
    [kind |-> "data", seq |-> r.sendSeq, ack |-> 0, chunk |-> sent[e] + 1]
CloseOf(r) ==
    [kind |-> "close", seq |-> r.sendSeq, ack |-> r.recvNext, chunk |-> 0]

\* Send fails on a closed object, or stores and sends the next chunk.
LEMMA SendStep ==
    ASSUME TypeInv, NEW e \in End, Send(e)
    PROVE  LET o == held[Handler(e)]
               r == obj[e][o]
               p == DataOf(e, r)
           IN  /\ o \in Objects /\ r \in Object /\ pc[Handler(e)] = "use"
               /\ \/ /\ UNCHANGED <<obj, net, sent>>
                     /\ pc' = [pc EXCEPT ![Handler(e)] = "done"]
                  \/ /\ p \in Packet /\ Wrote(e, o, Stored(r, p))
                     /\ net' = [net EXCEPT ![Peer(e)] = Append(@, p)]
                     /\ sent' = [sent EXCEPT ![e] = @ + 1]
                     /\ pc' = [pc EXCEPT ![Handler(e)] = "idle"]
<1> DEFINE o == held[Handler(e)]
           r == obj[e][o]
           p == DataOf(e, r)
<1>1. pc[Handler(e)] = "use"
  BY DEF Send
<1>2. o \in Objects
  BY <1>1 DEF TypeInv, ControlOK
<1>3. obj \in [End -> [Objects -> Object]] /\ r \in Object /\ sent[e] \in Nat
  BY <1>2 DEF TypeInv, TypeOK
<1>4. p \in Packet
  BY <1>3 DEF DataOf, Packet, Object
<1>5. CASE r.state = "closed"
  BY <1>1, <1>2, <1>3, <1>5 DEF Send, Goto
<1>6. CASE r.state # "closed"
  <2>1. /\ obj' = [obj EXCEPT ![e][o] = Stored(r, p)]
        /\ net' = [net EXCEPT ![Peer(e)] = Append(@, p)]
        /\ sent' = [sent EXCEPT ![e] = @ + 1]
        /\ pc' = [pc EXCEPT ![Handler(e)] = "idle"]
    BY <1>6 DEF Send, Goto, DataOf
  <2>2. Wrote(e, o, Stored(r, p))
    <3> DEFINE t == Stored(r, p)
    <3>1. t \in Object /\ obj' = [obj EXCEPT ![e][o] = t]
      BY <1>3, <1>4, <2>1, StoredFacts
    <3> HIDE DEF o, t
    <3>2. Wrote(e, o, t)
      BY <1>2, <1>3, <3>1, WriteObject
    <3> QED
      BY <3>2 DEF t
  <2> HIDE DEF p
  <2> QED
    BY <1>1, <1>2, <1>3, <1>4, <2>1, <2>2, Zenon DEF p
<1> QED
  BY <1>5, <1>6

\* SendClose does nothing on a closed object, or stores and sends the CLOSE.
LEMMA SendCloseStep ==
    ASSUME TypeInv, NEW e \in End, SendClose(e)
    PROVE  LET o == held[Handler(e)]
               r == obj[e][o]
               p == CloseOf(r)
           IN  /\ o \in Objects /\ r \in Object /\ pc[Handler(e)] = "close"
               /\ pc' = [pc EXCEPT ![Handler(e)] = "idle"]
               /\ \/ UNCHANGED <<obj, net>>
                  \/ /\ p \in Packet /\ Wrote(e, o, Stored(r, p))
                     /\ net' = [net EXCEPT ![Peer(e)] = Append(@, p)]
<1> DEFINE o == held[Handler(e)]
           r == obj[e][o]
           p == CloseOf(r)
<1>1. pc[Handler(e)] = "close" /\ pc' = [pc EXCEPT ![Handler(e)] = "idle"]
  BY DEF SendClose, Goto
<1>2. o \in Objects
  BY <1>1 DEF TypeInv, ControlOK
<1>3. obj \in [End -> [Objects -> Object]] /\ r \in Object
  BY <1>2 DEF TypeInv, TypeOK
<1>4. p \in Packet
  BY <1>3 DEF CloseOf, Packet, Object
<1>5. CASE r.state = "closed"
  BY <1>1, <1>2, <1>3, <1>5 DEF SendClose
<1>6. CASE r.state # "closed"
  <2>1. /\ obj' = [obj EXCEPT ![e][o] = Stored(r, p)]
        /\ net' = [net EXCEPT ![Peer(e)] = Append(@, p)]
    BY <1>6 DEF SendClose, CloseOf
  <2>2. Wrote(e, o, Stored(r, p))
    <3> DEFINE t == Stored(r, p)
    <3>1. t \in Object /\ obj' = [obj EXCEPT ![e][o] = t]
      BY <1>3, <1>4, <2>1, StoredFacts
    <3> HIDE DEF o, t
    <3>2. Wrote(e, o, t)
      BY <1>2, <1>3, <3>1, WriteObject
    <3> QED
      BY <3>2 DEF t
  <2> HIDE DEF p
  <2> QED
    BY <1>1, <1>2, <1>3, <1>4, <2>1, <2>2, Zenon DEF p
<1> QED
  BY <1>5, <1>6

(***************************************************************************)
(* Which chunks are numbered after a step: only Send numbers one.          *)
(***************************************************************************)
SameNumbers ==
    \A f \in End : \A s, c \in Nat : Numbered(f, s, c)' => Numbered(f, s, c)

\* Removing a stream is never undone.
RemovedStays == \A f \in End : removed[f] => removed'[f]

\* A chunk that is numbered after a step was numbered before, if that holds of
\* the packets, of the buffers and of what was handed over.
LEMMA SameNumbersFrom ==
    ASSUME \A f \in End : \A x \in Packet :
              x.kind = "data" /\ OnItsWay(f, x)' => OnItsWay(f, x),
           \A f \in End : \A o \in Objects : \A s, c \in Nat :
              [seq |-> s, chunk |-> c] \in obj'[f][o].outOfOrder => Numbered(f, s, c),
           \A f \in End : ~removed'[f] =>
              \A s \in Nat : s + 1 \in 1 .. Len(got'[f]) =>
                                Numbered(f, s, got'[f][s + 1])
    PROVE  SameNumbers
<1> SUFFICES ASSUME NEW f \in End, NEW s \in Nat, NEW c \in Nat, Numbered(f, s, c)'
             PROVE  Numbered(f, s, c)
  BY DEF SameNumbers
<1>1. CASE \E x \in Packet : OnItsWay(f, x)' /\ x.kind = "data" /\ x.seq = s /\ x.chunk = c
  BY <1>1 DEF Numbered
<1>2. CASE \E o \in Objects : [seq |-> s, chunk |-> c] \in obj'[f][o].outOfOrder
  BY <1>2
<1>3. CASE ~removed'[f] /\ s + 1 \in 1 .. Len(got'[f]) /\ got'[f][s + 1] = c
  BY <1>3
<1> QED
  BY <1>1, <1>2, <1>3 DEF Numbered

\* The buffers do not grow, and nothing is handed over.
LEMMA SameBuffers ==
    ASSUME \A f \in End : \A x \in Packet :
              x.kind = "data" /\ OnItsWay(f, x)' => OnItsWay(f, x),
           \A f \in End : \A o \in Objects : obj'[f][o].outOfOrder = obj[f][o].outOfOrder,
           RemovedStays, UNCHANGED got
    PROVE  SameNumbers
<1>1. \A f \in End : \A o \in Objects : \A s, c \in Nat :
         [seq |-> s, chunk |-> c] \in obj'[f][o].outOfOrder => Numbered(f, s, c)
  BY DEF Numbered
<1>2. \A f \in End : ~removed'[f] =>
         \A s \in Nat : s + 1 \in 1 .. Len(got'[f]) => Numbered(f, s, got'[f][s + 1])
  BY DEF Numbered, RemovedStays
<1> QED
  BY <1>1, <1>2, SameNumbersFrom

\* Opening and closing objects numbers nothing.
LEMMA StatesNumber ==
    ASSUME OnlyStates, UNCHANGED <<net, packet, got>>, RemovedStays
    PROVE  SameNumbers
<1>1. \A f \in End : \A o \in Objects :
         /\ obj'[f][o].unacked = obj[f][o].unacked
         /\ obj'[f][o].outOfOrder = obj[f][o].outOfOrder
  BY DEF OnlyStates, SameContent
<1>2. ASSUME NEW f \in End, NEW x \in Packet, OnItsWay(f, x)' PROVE OnItsWay(f, x)
  BY <1>1, <1>2, EndFacts DEF OnItsWay
<1> QED
  BY <1>1, <1>2, SameBuffers

\* The receive loop takes the next packet from the network.
LEMMA ArriveNumbers ==
    ASSUME TypeOK, NEW e \in End, Arrive(e)
    PROVE  SameNumbers
<1>1. OnlyStates /\ RemovedStays
  BY LoadStep DEF Arrive, RemovedStays
<1>2. \A f \in End : \A o \in Objects :
         /\ obj'[f][o].unacked = obj[f][o].unacked
         /\ obj'[f][o].outOfOrder = obj[f][o].outOfOrder
  BY <1>1 DEF OnlyStates, SameContent
<1>3. /\ net[e] \in Seq(Packet) /\ net[e] # <<>>
      /\ net \in [End -> Seq(Packet)] /\ packet \in [End -> Packet]
      /\ net' = [net EXCEPT ![e] = Tail(net[e])]
      /\ packet' = [packet EXCEPT ![e] = Head(net[e])]
  BY DEF Arrive, TypeOK
<1>4. /\ Head(net[e]) = net[e][1] /\ 1 \in 1 .. Len(net[e])
      /\ \A i \in 1 .. Len(Tail(net[e])) :
            i + 1 \in 1 .. Len(net[e]) /\ Tail(net[e])[i] = net[e][i + 1]
  BY <1>3
<1>5. ASSUME NEW f \in End, NEW x \in Packet, OnItsWay(f, x)' PROVE OnItsWay(f, x)
  <2>1. CASE \E i \in 1 .. Len(net'[f]) : net'[f][i] = x
    <3>1. CASE f = e
      BY <1>3, <1>4, <2>1, <3>1 DEF OnItsWay
    <3>2. CASE f # e
      BY <1>3, <2>1, <3>2 DEF OnItsWay
    <3> QED
      BY <3>1, <3>2
  <2>2. CASE packet'[f] = x
    <3>1. CASE f = e
      BY <1>3, <1>4, <2>2, <3>1 DEF OnItsWay
    <3>2. CASE f # e
      BY <1>3, <2>2, <3>2 DEF OnItsWay
    <3> QED
      BY <3>1, <3>2
  <2>3. CASE \E o \in Objects : x \in obj'[Peer(f)][o].unacked
    BY <1>2, <2>3, EndFacts DEF OnItsWay
  <2> QED
    BY <1>5, <2>1, <2>2, <2>3 DEF OnItsWay
<1> QED
  BY <1>1, <1>2, <1>5, SameBuffers DEF Arrive

\* A retransmission or a loss changes the network alone.
LEMMA NetworkNumbers ==
    ASSUME TypeOK, NEW e \in End, UNCHANGED <<obj, packet, got, removed>>,
           \/ \E o \in Objects : \E p \in obj[e][o].unacked :
                net' = [net EXCEPT ![Peer(e)] = Append(@, p)]
           \/ net[e] # <<>> /\ net' = [net EXCEPT ![e] = Tail(@)]
    PROVE  SameNumbers
<1>1. net \in [End -> Seq(Packet)]
  BY DEF TypeOK
<1>2. ASSUME NEW f \in End, NEW x \in Packet, NEW i \in 1 .. Len(net'[f]), net'[f][i] = x
      PROVE  OnItsWay(f, x)
  <2>1. ASSUME NEW o \in Objects, NEW p \in obj[e][o].unacked,
               net' = [net EXCEPT ![Peer(e)] = Append(@, p)]
        PROVE  OnItsWay(f, x)
    <3>1. CASE f # Peer(e)
      BY <1>1, <1>2, <2>1, <3>1, EndFacts DEF OnItsWay
    <3>2. CASE f = Peer(e)
      <4>1. obj[e][o].unacked \subseteq Packet /\ net[f] \in Seq(Packet)
        <5>1. obj[e][o] \in Object
          BY DEF TypeOK
        <5> QED
          BY <1>1, <5>1 DEF Object
      <4>2. net'[f] = Append(net[f], p)
        BY <1>1, <2>1, <3>2
      <4>3. CASE i \in 1 .. Len(net[f])
        BY <1>2, <4>1, <4>2, <4>3 DEF OnItsWay
      <4>4. CASE i = Len(net[f]) + 1
        <5>1. x = p
          BY <1>2, <4>1, <4>2, <4>4
        <5> QED
          BY <3>2, <5>1, EndFacts DEF OnItsWay
      <4> QED
        BY <4>1, <4>2, <4>3, <4>4
    <3> QED
      BY <3>1, <3>2
  <2>2. CASE net[e] # <<>> /\ net' = [net EXCEPT ![e] = Tail(@)]
    <3>1. CASE f # e
      BY <1>1, <1>2, <2>2, <3>1 DEF OnItsWay
    <3>2. CASE f = e
      <4>1. net[e] \in Seq(Packet) /\ net'[f] = Tail(net[e])
        BY <1>1, <2>2, <3>2
      <4>2. i + 1 \in 1 .. Len(net[e]) /\ net'[f][i] = net[e][i + 1]
        <5>1. /\ Len(Tail(net[e])) = Len(net[e]) - 1
              /\ \A j \in 1 .. Len(Tail(net[e])) : Tail(net[e])[j] = net[e][j + 1]
          BY <2>2, <4>1
        <5>2. i \in 1 .. Len(Tail(net[e])) /\ Len(net[e]) \in Nat
          BY <4>1
        <5> QED
          BY <4>1, <5>1, <5>2
      <4> QED
        BY <1>2, <3>2, <4>2 DEF OnItsWay
    <3> QED
      BY <3>1, <3>2
  <2> QED
    BY <2>1, <2>2
<1>3. ASSUME NEW f \in End, NEW x \in Packet, OnItsWay(f, x)' PROVE OnItsWay(f, x)
  BY <1>2, <1>3 DEF OnItsWay
<1> QED
  BY <1>3, SameBuffers DEF RemovedStays

\* A packet sent by end e is on the network to its peer, and nothing else is
\* new there.
LEMMA Appended ==
    ASSUME net \in [End -> Seq(Packet)], NEW e \in End, NEW p \in Packet,
           net' = [net EXCEPT ![Peer(e)] = Append(@, p)],
           NEW f \in End, NEW i \in 1 .. Len(net'[f])
    PROVE  \/ \E j \in 1 .. Len(net[f]) : net[f][j] = net'[f][i]
           \/ f = Peer(e) /\ net'[f][i] = p
<1>1. CASE f # Peer(e)
  BY <1>1, EndFacts
<1>2. CASE f = Peer(e)
  <2>1. net[f] \in Seq(Packet) /\ net'[f] = Append(net[f], p)
    BY <1>2
  <2>2. CASE i \in 1 .. Len(net[f])
    BY <2>1, <2>2
  <2>3. CASE i = Len(net[f]) + 1
    BY <1>2, <2>1, <2>3
  <2> QED
    BY <2>1, <2>2, <2>3
<1> QED
  BY <1>1, <1>2

\* Receive moves a chunk from the packet into the buffer, or from both to the
\* application, and keeps its number: the object in use has handed over as many
\* chunks as it has counted.
LEMMA ReceiveNumbers ==
    ASSUME TypeInv, OneObject, NEW e \in End, Receive(e)
    PROVE  SameNumbers
<1> DEFINE o == held[Recv(e)]
           r == obj[e][o]
           p == packet[e]
<1>1. /\ o \in Objects /\ r \in Object /\ p \in Packet /\ pc[Recv(e)] = "use"
      /\ packet' = [packet EXCEPT ![e] = NoPacket]
  BY ReceiveStep
<1>2. PICK t \in Object :
        /\ Wrote(e, o, t) /\ t.unacked \subseteq r.unacked
        /\ \/ /\ p.kind = "data" /\ t = Processed(r, p)
              /\ got' = [got EXCEPT ![e] = @ \o HandOver(r, p)]
              /\ net' = [net EXCEPT ![Peer(e)] = Append(@, AckOf(t))]
           \/ /\ p.kind # "data" /\ UNCHANGED <<got, net>>
              /\ t.outOfOrder = r.outOfOrder
  BY ReceiveStep
<1>3. /\ net \in [End -> Seq(Packet)] /\ packet \in [End -> Packet]
      /\ got \in [End -> Seq(Nat)] /\ UNCHANGED removed
  BY DEF TypeInv, TypeOK, Receive
<1>4. AckOf(t) \in Packet /\ AckOf(t).kind = "ack" /\ NoPacket.kind = "ack"
  BY DEF AckOf, NoPacket, Packet, Object
<1>5. ASSUME NEW f \in End, NEW x \in Packet, x.kind = "data", OnItsWay(f, x)'
      PROVE  OnItsWay(f, x)
  <2>1. ASSUME NEW i \in 1 .. Len(net'[f]), net'[f][i] = x
        PROVE  \E j \in 1 .. Len(net[f]) : net[f][j] = x
    <3>1. CASE UNCHANGED net
      BY <2>1, <3>1
    <3>2. CASE net' = [net EXCEPT ![Peer(e)] = Append(@, AckOf(t))]
      <4> DEFINE a == AckOf(t)
      <4> HIDE DEF a
      <4>1. a \in Packet /\ a.kind = "ack" /\ net' = [net EXCEPT ![Peer(e)] = Append(@, a)]
        BY <1>4, <3>2 DEF a
      <4>2. (\E j \in 1 .. Len(net[f]) : net[f][j] = net'[f][i]) \/ net'[f][i] = a
        BY <1>3, <4>1, Appended
      <4> QED
        BY <1>5, <2>1, <4>1, <4>2
    <3> QED
      BY <1>2, <3>1, <3>2
  <2>2. CASE packet'[f] = x
    BY <1>1, <1>3, <1>4, <1>5, <2>2 DEF OnItsWay
  <2>3. ASSUME NEW q \in Objects, x \in obj'[Peer(f)][q].unacked
        PROVE  x \in obj[Peer(f)][q].unacked
    BY <1>1, <1>2, <2>3, EndFacts DEF Wrote
  <2> QED
    BY <1>5, <2>1, <2>2, <2>3 DEF OnItsWay
<1>6. p.kind = "data" => Numbered(e, p.seq, p.chunk)
  BY <1>1 DEF Numbered, OnItsWay
<1>7. \A s, c \in Nat : [seq |-> s, chunk |-> c] \in r.outOfOrder => Numbered(e, s, c)
  BY <1>1 DEF Numbered
<1>8. ASSUME NEW f \in End, NEW q \in Objects, NEW s \in Nat, NEW c \in Nat,
             [seq |-> s, chunk |-> c] \in obj'[f][q].outOfOrder
      PROVE  Numbered(f, s, c)
  <2>1. CASE f # e \/ q # o
    BY <1>2, <1>8, <2>1 DEF Wrote, Numbered
  <2>2. CASE f = e /\ q = o
    <3>1. [seq |-> s, chunk |-> c] \in t.outOfOrder
      BY <1>2, <1>8, <2>2 DEF Wrote
    <3>2. CASE p.kind # "data"
      BY <1>2, <1>7, <2>2, <3>1, <3>2
    <3>3. CASE p.kind = "data"
      <4>1. \/ [seq |-> s, chunk |-> c] \in r.outOfOrder
            \/ [seq |-> s, chunk |-> c] = [seq |-> p.seq, chunk |-> p.chunk]
        <5>1. t = Processed(r, p)
          BY <1>2, <3>3
        <5> QED
          BY <1>1, <3>1, <5>1, BufferBound, ProcessedFacts DEF TypeInv
      <4>2. CASE [seq |-> s, chunk |-> c] \in r.outOfOrder
        BY <1>7, <2>2, <4>2
      <4>3. CASE [seq |-> s, chunk |-> c] = [seq |-> p.seq, chunk |-> p.chunk]
        <5>1. s = p.seq /\ c = p.chunk
          BY <4>3
        <5> QED
          BY <1>6, <2>2, <3>3, <5>1
      <4> QED
        BY <4>1, <4>2, <4>3
    <3> QED
      BY <3>2, <3>3
  <2> QED
    BY <2>1, <2>2
<1>9. ASSUME NEW f \in End, ~removed'[f], NEW s \in Nat, s + 1 \in 1 .. Len(got'[f])
      PROVE  Numbered(f, s, got'[f][s + 1])
  <2>1. CASE got'[f] = got[f]
    BY <1>3, <1>9, <2>1 DEF Numbered
  <2>2. CASE f = e /\ p.kind = "data"
    <3> DEFINE h == HandOver(r, p)
               n == Len(got[e])
    <3>1. /\ h \in Seq(Nat)
          /\ \A i \in 1 .. Len(h) :
                LET b == [seq |-> r.recvNext + i - 1, chunk |-> h[i]]
                IN  b \in r.outOfOrder \/ b = [seq |-> p.seq, chunk |-> p.chunk]
      BY <1>1, BufferBound, HandOverFacts DEF TypeInv
    <3>2. got[e] \in Seq(Nat) /\ got'[e] = got[e] \o h
      BY <1>2, <1>3, <2>2
    <3>3. r.recvNext = n
      BY <1>1, <1>3, <1>9, <2>2 DEF OneObject
    <3> HIDE DEF h
    <3>4. n \in Nat /\ Len(h) \in Nat /\ Len(got'[e]) = n + Len(h)
      BY <3>1, <3>2
    <3>5. CASE s + 1 \in 1 .. n
      <4>1. got'[e][s + 1] = got[e][s + 1]
        BY <3>1, <3>2, <3>5
      <4> QED
        BY <1>3, <1>9, <2>2, <3>5, <4>1 DEF Numbered
    <3>6. CASE s + 1 > n
      <4> DEFINE i == s + 1 - n
      <4>1. i \in 1 .. Len(h) /\ n + i - 1 = s /\ n + i = s + 1
        BY <1>9, <2>2, <3>4, <3>6
      <4>2. got'[e][s + 1] = h[i]
        <5> DEFINE g == got[e] \o h
        <5>1. \A k \in 1 .. Len(got[e]) + Len(h) :
                 g[k] = IF k <= Len(got[e]) THEN got[e][k] ELSE h[k - Len(got[e])]
          BY <3>1, <3>2, ConcatProperties
        <5> HIDE DEF g
        <5>2. s + 1 \in 1 .. Len(got[e]) + Len(h) /\ ~(s + 1 <= Len(got[e]))
          BY <3>4, <3>6, <4>1
        <5>3. g[s + 1] = h[s + 1 - Len(got[e])]
          BY <5>1, <5>2
        <5> QED
          BY <3>2, <5>3 DEF g
      <4>3. h[i] \in Nat
        BY <3>1, <4>1, ElementOfSeq
      <4>4. \/ [seq |-> s, chunk |-> h[i]] \in r.outOfOrder
            \/ [seq |-> s, chunk |-> h[i]] = [seq |-> p.seq, chunk |-> p.chunk]
        BY <3>1, <3>3, <4>1
      <4> HIDE DEF i
      <4>5. CASE [seq |-> s, chunk |-> h[i]] \in r.outOfOrder
        BY <1>7, <2>2, <4>2, <4>3, <4>5
      <4>6. CASE [seq |-> s, chunk |-> h[i]] = [seq |-> p.seq, chunk |-> p.chunk]
        <5>1. s = p.seq /\ h[i] = p.chunk
          BY <4>6
        <5> QED
          BY <1>6, <2>2, <4>2, <5>1
      <4> QED
        BY <4>4, <4>5, <4>6
    <3> QED
      BY <1>9, <3>4, <3>5, <3>6
  <2> QED
    BY <1>2, <1>3, <2>1, <2>2
<1> QED
  BY <1>5, <1>8, <1>9, SameNumbersFrom

\* A CLOSE has a number and no chunk.
LEMMA SendCloseNumbers ==
    ASSUME TypeInv, NEW e \in End, SendClose(e)
    PROVE  SameNumbers
<1> DEFINE o == held[Handler(e)]
           r == obj[e][o]
           p == CloseOf(r)
<1>1. /\ UNCHANGED <<packet, got, removed>> /\ RemovedStays
      /\ net \in [End -> Seq(Packet)] /\ o \in Objects /\ r \in Object
  BY SendCloseStep DEF SendClose, TypeInv, TypeOK, RemovedStays
<1>2. CASE UNCHANGED <<obj, net>>
  <2>1. \A f \in End : \A x \in Packet : OnItsWay(f, x)' => OnItsWay(f, x)
    BY <1>1, <1>2 DEF OnItsWay
  <2> QED
    BY <1>1, <1>2, <2>1, SameBuffers
<1>3. CASE /\ p \in Packet /\ Wrote(e, o, Stored(r, p))
           /\ net' = [net EXCEPT ![Peer(e)] = Append(@, p)]
  <2>1. /\ Stored(r, p).unacked = r.unacked \cup {p}
        /\ Stored(r, p).outOfOrder = r.outOfOrder /\ p.kind = "close"
    BY <1>1, <1>3, StoredFacts DEF CloseOf
  <2> HIDE DEF p
  <2>2. ASSUME NEW f \in End, NEW x \in Packet, x.kind = "data", OnItsWay(f, x)'
        PROVE  OnItsWay(f, x)
    <3>1. ASSUME NEW i \in 1 .. Len(net'[f]), net'[f][i] = x
          PROVE  \E j \in 1 .. Len(net[f]) : net[f][j] = x
      <4>1. (\E j \in 1 .. Len(net[f]) : net[f][j] = net'[f][i]) \/ net'[f][i] = p
        BY <1>1, <1>3, Appended
      <4> QED
        BY <2>1, <2>2, <3>1, <4>1
    <3>2. ASSUME NEW q \in Objects, x \in obj'[Peer(f)][q].unacked
          PROVE  x \in obj[Peer(f)][q].unacked
      BY <1>3, <2>1, <2>2, <3>2, EndFacts DEF Wrote
    <3> QED
      BY <1>1, <2>2, <3>1, <3>2 DEF OnItsWay
  <2>3. \A f \in End : \A q \in Objects : obj'[f][q].outOfOrder = obj[f][q].outOfOrder
    BY <1>1, <1>3, <2>1 DEF Wrote
  <2> QED
    BY <1>1, <2>2, <2>3, SameBuffers
<1> QED
  BY <1>2, <1>3, SendCloseStep

\* Send numbers the next chunk, with the number of the object's counter, which
\* is not ahead of what was sent before.
LEMMA SendNumbers ==
    ASSUME TypeInv, NEW e \in End, Send(e)
    PROVE  \/ SameNumbers /\ UNCHANGED sent
           \/ \E n \in Nat :
                /\ n <= sent[e] /\ sent' = [sent EXCEPT ![e] = @ + 1]
                /\ \A f \in End : \A s, c \in Nat :
                     Numbered(f, s, c)' =>
                        \/ Numbered(f, s, c)
                        \/ f = Peer(e) /\ s = n /\ c = sent[e] + 1
<1> DEFINE o == held[Handler(e)]
           r == obj[e][o]
           p == DataOf(e, r)
<1>1. /\ UNCHANGED <<packet, got, removed>> /\ RemovedStays /\ sent[e] \in Nat
      /\ net \in [End -> Seq(Packet)] /\ o \in Objects /\ r \in Object
  BY SendStep DEF Send, TypeInv, TypeOK, RemovedStays
<1>2. CASE UNCHANGED <<obj, net, sent>>
  <2>1. \A f \in End : \A x \in Packet : OnItsWay(f, x)' => OnItsWay(f, x)
    BY <1>1, <1>2 DEF OnItsWay
  <2> QED
    BY <1>1, <1>2, <2>1, SameBuffers
<1>3. CASE /\ p \in Packet /\ Wrote(e, o, Stored(r, p))
           /\ net' = [net EXCEPT ![Peer(e)] = Append(@, p)]
           /\ sent' = [sent EXCEPT ![e] = @ + 1]
  <2>1. /\ Stored(r, p).unacked = r.unacked \cup {p}
        /\ Stored(r, p).outOfOrder = r.outOfOrder
        /\ p.seq = r.sendSeq /\ p.chunk = sent[e] + 1
    BY <1>1, <1>3, StoredFacts DEF DataOf
  <2>2. r.sendSeq \in Nat /\ r.sendSeq <= sent[e]
    <3>1. pc[Handler(e)] = "use"
      BY DEF Send
    <3> QED
      BY <1>1, <3>1 DEF TypeInv, SentFirst, Object
  <2> HIDE DEF p
  <2>3. ASSUME NEW f \in End, NEW s \in Nat, NEW c \in Nat, Numbered(f, s, c)'
        PROVE  Numbered(f, s, c) \/ (f = Peer(e) /\ s = p.seq /\ c = p.chunk)
    <3>1. ASSUME NEW x \in Packet, OnItsWay(f, x)', x.kind = "data", x.seq = s, x.chunk = c
          PROVE  OnItsWay(f, x) \/ (f = Peer(e) /\ x = p)
      <4>1. ASSUME NEW i \in 1 .. Len(net'[f]), net'[f][i] = x
            PROVE  (\E j \in 1 .. Len(net[f]) : net[f][j] = x) \/ (f = Peer(e) /\ x = p)
        <5>1. \/ \E j \in 1 .. Len(net[f]) : net[f][j] = net'[f][i]
              \/ f = Peer(e) /\ net'[f][i] = p
          BY <1>1, <1>3, Appended
        <5> QED
          BY <4>1, <5>1
      <4>2. ASSUME NEW q \in Objects, x \in obj'[Peer(f)][q].unacked
            PROVE  x \in obj[Peer(f)][q].unacked \/ (f = Peer(e) /\ x = p)
        <5>1. Peer(f) \in End /\ (Peer(f) = e => f = Peer(e))
          BY EndFacts
        <5> QED
          BY <1>3, <2>1, <4>2, <5>1 DEF Wrote
      <4> QED
        BY <1>1, <3>1, <4>1, <4>2 DEF OnItsWay
    <3>2. \A q \in Objects : obj'[f][q].outOfOrder = obj[f][q].outOfOrder
      BY <1>1, <1>3, <2>1 DEF Wrote
    <3>3. CASE \E x \in Packet : OnItsWay(f, x)' /\ x.kind = "data" /\ x.seq = s /\ x.chunk = c
      BY <3>1, <3>3 DEF Numbered
    <3>4. CASE \E q \in Objects : [seq |-> s, chunk |-> c] \in obj'[f][q].outOfOrder
      BY <3>2, <3>4 DEF Numbered
    <3>5. CASE ~removed'[f] /\ s + 1 \in 1 .. Len(got'[f]) /\ got'[f][s + 1] = c
      BY <1>1, <3>5 DEF Numbered
    <3> QED
      BY <2>3, <3>3, <3>4, <3>5 DEF Numbered
  <2> QED
    BY <1>3, <2>1, <2>2, <2>3
<1> QED
  BY <1>2, <1>3, SendStep

(***************************************************************************)
(* Types, control and the bound on the numbers.                            *)
(***************************************************************************)
\* The rest of SentFirst: the CLOSE comes last.
CloseLast ==
    \A e \in End :
        /\ pc[Handler(e)] \in {"store", "use"} => ~ended[e]
        /\ pc[Handler(e)] = "close" => ended[e]
        /\ ~ended[e] => \A o \in Objects : obj[e][o].sendSeq <= sent[e]

\* The bound is kept where no chunk is numbered.
LEMMA SentFirstKept ==
    ASSUME TypeInv, SameNumbers, UNCHANGED sent, CloseLast'
    PROVE  SentFirst'
BY DEF TypeInv, SentFirst, SameNumbers, CloseLast

\* Every end's map, queue and counters have their types.
LEMMA TypeParts ==
    ASSUME TypeInv
    PROVE  /\ obj \in [End -> [Objects -> Object]]
           /\ streams \in [End -> Objects \cup {None}]
           /\ pc \in [Proc -> Label] /\ held \in [Proc -> Objects \cup {None}]
           /\ packet \in [End -> Packet] /\ net \in [End -> Seq(Packet)]
           /\ sent \in [End -> Nat] /\ got \in [End -> Seq(Nat)]
           /\ ended \in [End -> BOOLEAN] /\ removed \in [End -> BOOLEAN]
           /\ faults \in 0 .. MaxFaults /\ TypeOK /\ ControlOK /\ SentFirst /\ CloseLast
BY DEF TypeInv, TypeOK, ControlOK, SentFirst, CloseLast

\* The number 0 is no object.
LEMMA NoneIsNoObject == None \notin Objects
BY DEF None, Objects

\* No object is unborn again.
BornStays ==
    \A f \in End, q \in Objects :
        obj[f][q].state # "unborn" => obj'[f][q].state # "unborn"

\* A goroutine goes to label l, with another object in its hands or the same.
LEMMA ControlKept ==
    ASSUME TypeInv, BornStays, NEW e \in End, NEW p \in {Recv(e), Handler(e)},
           NEW l \in Label, pc' = [pc EXCEPT ![p] = l],
           held' \in [Proc -> Objects \cup {None}],
           \A q \in Proc : q # p => held'[q] = held[q],
           l \in {"store", "use", "close", "removed"} =>
               held'[p] \in Objects /\ obj'[e][held'[p]].state # "unborn",
           l = "close" => p # Recv(e)
    PROVE  ControlOK'
<1>1. p \in Proc
  BY ProcFacts
<1>2. pc' \in [Proc -> Label] /\ pc'[p] = l
  BY <1>1, TypeParts
<1>3. ASSUME NEW f \in End
      PROVE  pc'[Main(f)] \in {"idle", "done"} /\ pc'[Recv(f)] # "close"
  BY <1>1, <1>2, ProcFacts, TypeParts DEF ControlOK
<1>4. ASSUME NEW f \in End, NEW q \in {Recv(f), Handler(f)},
             pc'[q] \in {"store", "use", "close", "removed"}
      PROVE  held'[q] \in Objects /\ obj'[f][held'[q]].state # "unborn"
  <2>1. CASE q = p
    <3>1. f = e
      BY <2>1, ProcFacts
    <3> QED
      BY <1>2, <1>4, <2>1, <3>1
  <2>2. CASE q # p
    <3>1. held'[q] = held[q] /\ pc'[q] = pc[q]
      BY <2>2, ProcFacts, TypeParts
    <3>2. held[q] \in Objects /\ obj[f][held[q]].state # "unborn"
      BY <1>4, <3>1, TypeParts DEF ControlOK
    <3> QED
      BY <3>1, <3>2 DEF BornStays
  <2> QED
    BY <2>1, <2>2
<1> QED
  BY <1>2, <1>3, <1>4 DEF ControlOK

\* The stream in the map is never unborn.
LEMMA MapBorn ==
    ASSUME TypeInv, BornStays, NEW f \in End, streams[f] # None
    PROVE  streams[f] \in Objects /\ obj'[f][streams[f]].state # "unborn"
<1>1. streams[f] \in Objects /\ obj[f][streams[f]].state # "unborn"
  BY TypeParts DEF TypeOK
<1> QED
  BY <1>1 DEF BornStays

\* A goroutine goes to label l and sends nothing.
LEMMA CloseLastKept ==
    ASSUME TypeInv, OnlyStates, UNCHANGED <<ended, sent>>,
           NEW e \in End, NEW p \in {Recv(e), Handler(e)}, NEW l,
           pc' = [pc EXCEPT ![p] = l],
           p = Handler(e) /\ l \in {"store", "use"} => ~ended[e], l # "close"
    PROVE  CloseLast'
<1>1. ASSUME NEW f \in End
      PROVE  /\ pc'[Handler(f)] \in {"store", "use"} => ~ended[f]
             /\ pc'[Handler(f)] = "close" => ended[f]
  <2>1. CASE Handler(f) = p
    <3>1. f = e /\ pc'[p] = l
      BY <2>1, ProcFacts, TypeParts
    <3> QED
      BY <2>1, <3>1
  <2>2. CASE Handler(f) # p
    <3>1. pc'[Handler(f)] = pc[Handler(f)]
      BY <2>2, ProcFacts, TypeParts
    <3> QED
      BY <3>1, TypeParts DEF CloseLast
  <2> QED
    BY <2>1, <2>2
<1>2. ASSUME NEW f \in End, ~ended[f], NEW q \in Objects
      PROVE  obj'[f][q].sendSeq <= sent[f]
  BY <1>2, TypeParts DEF CloseLast, OnlyStates, SameContent
<1> QED
  BY <1>1, <1>2 DEF CloseLast

\* A step of GetOrCreateStream, before a Receive or a Send.
LEMMA LoadTypes ==
    ASSUME TypeInv, NEW e \in End, NEW p \in {Recv(e), Handler(e)}, Load(p),
           p = Handler(e) => ~ended[e], UNCHANGED <<streams, ended, sent>>
    PROVE  /\ obj' \in [End -> [Objects -> Object]]
           /\ held' \in [Proc -> Objects \cup {None}]
           /\ \A f \in End : streams'[f] # None => obj'[f][streams'[f]].state # "unborn"
           /\ ControlOK' /\ CloseLast'
<1>1. OnlyStates /\ BornStays /\ obj' \in [End -> [Objects -> Object]]
  BY LoadStep, TypeParts DEF OnlyStates, BornStays
<1>2. PICK o \in Objects, l \in {"use", "store"} :
        /\ held' = [held EXCEPT ![p] = o] /\ pc' = [pc EXCEPT ![p] = l]
        /\ obj'[e][o].state # "unborn"
  <2>1. CASE streams[e] # None
    <3>1. /\ UNCHANGED obj /\ held' = [held EXCEPT ![p] = streams[e]]
          /\ pc' = [pc EXCEPT ![p] = "use"]
      BY <2>1, LoadStep, TypeParts
    <3> QED
      BY <1>1, <2>1, <3>1, MapBorn
  <2>2. CASE streams[e] = None
    BY ZenonT(30), <2>2, LoadStep, TypeParts
  <2> QED
    BY <2>1, <2>2
<1>3. p \in Proc /\ l \in Label /\ l # "close"
  BY <1>2, ProcFacts DEF Label
<1>4. /\ held' \in [Proc -> Objects \cup {None}] /\ held'[p] = o
      /\ \A q \in Proc : q # p => held'[q] = held[q]
  BY <1>2, <1>3, TypeParts
<1>5. ControlOK'
  BY <1>1, <1>2, <1>3, <1>4, ControlKept
<1>6. CloseLast'
  BY <1>1, <1>2, <1>3, CloseLastKept
<1> QED
  BY <1>1, <1>4, <1>5, <1>6, MapBorn

\* What is left to show of a step that sends no chunk.
LEMMA TypeFrom ==
    ASSUME TypeInv, UNCHANGED sent, got' \in [End -> Seq(Nat)], SameNumbers,
           obj' \in [End -> [Objects -> Object]],
           streams' \in [End -> Objects \cup {None}],
           held' \in [Proc -> Objects \cup {None}],
           packet' \in [End -> Packet], net' \in [End -> Seq(Packet)],
           ended' \in [End -> BOOLEAN], removed' \in [End -> BOOLEAN],
           faults' \in 0 .. MaxFaults,
           \A f \in End : streams'[f] # None => obj'[f][streams'[f]].state # "unborn",
           ControlOK', CloseLast'
    PROVE  TypeInv'
<1>1. SentFirst'
  BY SentFirstKept
<1>2. DOMAIN pc' = Proc
  BY DEF ControlOK
<1>3. sent' \in [End -> Nat]
  BY TypeParts
<1>4. TypeOK'
  BY <1>2, <1>3, Zenon DEF TypeOK
<1> QED
  BY <1>1, <1>4 DEF TypeInv

\* Arrive and StartSend.
LEMMA LoadTypeInv ==
    ASSUME TypeInv, NEW e \in End, Arrive(e) \/ StartSend(e)
    PROVE  TypeInv'
<1>1. CASE Arrive(e)
  <2>1. /\ Load(Recv(e)) /\ UNCHANGED <<streams, sent, got, ended, removed, faults>>
        /\ packet' = [packet EXCEPT ![e] = Head(net[e])]
        /\ net' = [net EXCEPT ![e] = Tail(@)] /\ net[e] # <<>>
    BY <1>1 DEF Arrive
  <2>2. Head(net[e]) \in Packet /\ Tail(net[e]) \in Seq(Packet)
    BY <2>1, TypeParts
  <2>3. packet' \in [End -> Packet] /\ net' \in [End -> Seq(Packet)]
    BY <2>1, <2>2, TypeParts
  <2>4. Recv(e) \in {Recv(e), Handler(e)} /\ Recv(e) # Handler(e)
    BY ProcFacts
  <2>5. /\ obj' \in [End -> [Objects -> Object]]
        /\ held' \in [Proc -> Objects \cup {None}]
        /\ \A f \in End : streams'[f] # None => obj'[f][streams'[f]].state # "unborn"
        /\ ControlOK' /\ CloseLast'
    BY <2>1, <2>4, LoadTypes
  <2>6. SameNumbers
    BY <1>1, ArriveNumbers, TypeParts
  <2> QED
    BY <2>1, <2>3, <2>5, <2>6, TypeFrom, TypeParts
<1>2. CASE StartSend(e)
  <2>1. /\ Load(Handler(e)) /\ ~ended[e]
        /\ UNCHANGED <<streams, packet, net, sent, got, ended, removed, faults>>
    BY <1>2 DEF StartSend
  <2>2. /\ obj' \in [End -> [Objects -> Object]]
        /\ held' \in [Proc -> Objects \cup {None}]
        /\ \A f \in End : streams'[f] # None => obj'[f][streams'[f]].state # "unborn"
        /\ ControlOK' /\ CloseLast'
    BY <2>1, LoadTypes
  <2>3. SameNumbers
    BY <2>1, LoadStep, StatesNumber, TypeParts DEF RemovedStays
  <2> QED
    BY <2>1, <2>2, <2>3, TypeFrom, TypeParts
<1> QED
  BY <1>1, <1>2

\* LoadOrStore.
LEMMA LoadOrStoreTypeInv ==
    ASSUME TypeInv, NEW e \in End, NEW p \in {Recv(e), Handler(e)}, LoadOrStore(p)
    PROVE  TypeInv'
<1>1. /\ UNCHANGED <<packet, net, sent, got, ended, removed, faults>>
      /\ pc[p] = "store" /\ pc' = [pc EXCEPT ![p] = "use"] /\ held[p] \in Objects
  <2>1. UNCHANGED <<packet, net, sent, got, ended, removed, faults>>
    BY DEF LoadOrStore
  <2>2. pc[p] = "store" /\ pc' = [pc EXCEPT ![p] = "use"] /\ held[p] \in Objects
    BY LoadOrStoreStep, TypeParts
  <2> QED
    BY <2>1, <2>2
<1>2. OnlyStates /\ BornStays /\ obj' \in [End -> [Objects -> Object]]
  BY LoadOrStoreStep, TypeParts DEF OnlyStates, BornStays
<1>3. p \in Proc
  BY ProcFacts
<1>4. obj'[e][held[p]].state # "unborn"
  BY <1>1, <1>2, TypeParts DEF ControlOK, BornStays
<1>5. /\ streams' \in [End -> Objects \cup {None}]
      /\ held' \in [Proc -> Objects \cup {None}] /\ held'[p] \in Objects
      /\ \A q \in Proc : q # p => held'[q] = held[q]
      /\ obj'[e][held'[p]].state # "unborn"
      /\ \A f \in End : streams'[f] # None => obj'[f][streams'[f]].state # "unborn"
  <2>1. CASE streams[e] = None
    <3>1. streams' = [streams EXCEPT ![e] = held[p]] /\ UNCHANGED held
      BY <2>1, LoadOrStoreStep, TypeParts
    <3> QED
      BY <1>1, <1>2, <1>4, <3>1, MapBorn, TypeParts
  <2>2. CASE streams[e] # None
    <3>1. held' = [held EXCEPT ![p] = streams[e]] /\ UNCHANGED streams
      BY <2>2, LoadOrStoreStep, TypeParts
    <3>2. streams[e] \in Objects /\ obj'[e][streams[e]].state # "unborn"
      BY <1>2, <2>2, MapBorn
    <3> QED
      BY <1>2, <1>3, <3>1, <3>2, MapBorn, TypeParts
  <2> QED
    BY <2>1, <2>2
<1>6. ControlOK'
  <2>1. "use" \in Label /\ "use" # "close"
    BY DEF Label
  <2> QED
    BY <1>1, <1>2, <1>5, <2>1, ControlKept
<1>7. CloseLast'
  <2>1. p = Handler(e) => ~ended[e]
    BY <1>1, TypeParts DEF CloseLast
  <2> QED
    BY <1>1, <1>2, <2>1, CloseLastKept
<1>8. SameNumbers
  BY <1>1, <1>2, StatesNumber DEF RemovedStays
<1> QED
  BY <1>1, <1>2, <1>5, <1>6, <1>7, <1>8, TypeFrom, TypeParts

\* RemoveStream.
LEMMA RemoveTypeInv ==
    ASSUME TypeInv, NEW e \in End, NEW p \in {Recv(e), Handler(e)},
           NEW next \in {"idle", "done"}, RemoveStream(p, next)
    PROVE  TypeInv' /\ RemovedStays
<1>1. UNCHANGED <<packet, net, sent, got, ended, faults>>
  BY DEF RemoveStream
<1>2. OnlyStates /\ BornStays /\ obj' \in [End -> [Objects -> Object]]
  BY RemoveStep, TypeParts DEF OnlyStates, BornStays
<1>3. p \in Proc
  BY ProcFacts
<1>4. PICK l \in {"idle", "done", "removed"} :
        /\ pc' = [pc EXCEPT ![p] = l]
        /\ streams' \in [End -> Objects \cup {None}]
        /\ held' \in [Proc -> Objects \cup {None}]
        /\ \A q \in Proc : q # p => held'[q] = held[q]
        /\ l = "removed" => held'[p] \in Objects /\ obj'[e][held'[p]].state # "unborn"
        /\ \A f \in End : streams'[f] # None => streams'[f] = streams[f]
  <2>1. CASE pc[p] = "remove"
    <3>1. /\ held' = [held EXCEPT ![p] = streams[e]]
          /\ streams' = [streams EXCEPT ![e] = None]
          /\ pc' = [pc EXCEPT ![p] = IF streams[e] = None THEN next ELSE "removed"]
      BY <2>1, RemoveStep, TypeParts
    <3>2. streams[e] # None => streams[e] \in Objects /\ obj'[e][streams[e]].state # "unborn"
      BY <1>2, MapBorn
    <3>3. /\ streams' \in [End -> Objects \cup {None}]
          /\ held' \in [Proc -> Objects \cup {None}] /\ held'[p] = streams[e]
          /\ \A q \in Proc : q # p => held'[q] = held[q]
          /\ \A f \in End : streams'[f] # None => streams'[f] = streams[f]
      BY <1>3, <3>1, TypeParts
    <3> DEFINE l == IF streams[e] = None THEN next ELSE "removed"
    <3>4. l \in {"idle", "done", "removed"} /\ (l = "removed" => streams[e] # None)
      OBVIOUS
    <3> HIDE DEF l
    <3>5. pc' = [pc EXCEPT ![p] = l]
      BY <3>1 DEF l
    <3> QED
      BY <3>2, <3>3, <3>4, <3>5
  <2>2. CASE pc[p] = "removed"
    <3>1. UNCHANGED <<streams, held>> /\ pc' = [pc EXCEPT ![p] = next] /\ next # "removed"
      BY <2>2, RemoveStep, TypeParts
    <3> QED
      BY <3>1, TypeParts
  <2> QED
    BY <2>1, <2>2 DEF RemoveStream
<1>5. removed' \in [End -> BOOLEAN] /\ RemovedStays
  <2>1. CASE pc[p] = "remove"
    <3>1. removed' = [removed EXCEPT ![e] = @ \/ streams[e] # None]
      BY <2>1, RemoveStep, TypeParts
    <3>2. removed' \in [End -> BOOLEAN]
      BY <3>1, TypeParts
    <3>3. ASSUME NEW f \in End, removed[f] PROVE removed'[f]
      BY <3>1, <3>3, TypeParts
    <3> QED
      BY <3>2, <3>3 DEF RemovedStays
  <2>2. CASE pc[p] = "removed"
    BY <2>2, RemoveStep, TypeParts DEF RemovedStays
  <2> QED
    BY <2>1, <2>2 DEF RemoveStream
<1>6. ControlOK'
  <2>1. l \in Label /\ l \notin {"close", "store", "use"}
    BY <1>4 DEF Label
  <2> QED
    BY <1>2, <1>4, <2>1, ControlKept
<1>7. CloseLast'
  BY <1>1, <1>2, <1>4, CloseLastKept
<1>8. SameNumbers
  BY <1>1, <1>2, <1>5, StatesNumber
<1>9. \A f \in End : streams'[f] # None => obj'[f][streams'[f]].state # "unborn"
  BY <1>2, <1>4, MapBorn
<1> QED
  BY <1>1, <1>2, <1>4, <1>5, <1>6, <1>7, <1>8, <1>9, TypeFrom, TypeParts

\* SendClose begins, the handler goes to remove the stream, or the program is
\* shut down.
LEMMA HandlerTypeInv ==
    ASSUME TypeInv, NEW e \in End, StartClose(e) \/ Finish(e)
    PROVE  TypeInv'
<1> DEFINE p == Handler(e)
<1>1. /\ UNCHANGED <<obj, streams, packet, net, sent, got, removed, faults>>
      /\ pc[p] = "idle"
  BY DEF StartClose, Finish, Active
<1>2. OnlyStates /\ BornStays
  BY <1>1, TypeParts DEF OnlyStates, BornStays, SameContent
<1>3. p \in Proc
  BY ProcFacts
<1>4. SameNumbers
  BY <1>1, <1>2, StatesNumber DEF RemovedStays
<1>5. \A f \in End : streams'[f] # None => obj'[f][streams'[f]].state # "unborn"
  BY <1>1, <1>2, MapBorn
<1>6. CASE StartClose(e)
  <2> DEFINE l == IF streams[e] = None THEN "idle" ELSE "close"
  <2>1. /\ held' = [held EXCEPT ![p] = streams[e]] /\ pc' = [pc EXCEPT ![p] = l]
        /\ ended' = [ended EXCEPT ![e] = TRUE]
    BY <1>6 DEF StartClose, Goto
  <2>2. /\ l \in Label /\ l \notin {"store", "use", "removed"}
        /\ l = "close" => streams[e] # None
    BY DEF Label
  <2> HIDE DEF l
  <2>3. /\ held' \in [Proc -> Objects \cup {None}] /\ held'[p] = streams[e]
        /\ \A q \in Proc : q # p => held'[q] = held[q]
    BY <1>3, <2>1, TypeParts
  <2>4. l = "close" => held'[p] \in Objects /\ obj'[e][held'[p]].state # "unborn"
    BY <1>2, <2>2, <2>3, MapBorn
  <2>5. ControlOK'
    <3>1. p # Recv(e)
      BY ProcFacts
    <3> QED
      BY <1>2, <2>1, <2>2, <2>3, <2>4, <3>1, ControlKept
  <2>6. CloseLast'
    <3>1. ASSUME NEW f \in End
          PROVE  /\ pc'[Handler(f)] \in {"store", "use"} => ~ended'[f]
                 /\ pc'[Handler(f)] = "close" => ended'[f]
      <4>1. CASE f = e
        BY <1>3, <2>1, <2>2, <4>1, TypeParts
      <4>2. CASE f # e
        <5>1. pc'[Handler(f)] = pc[Handler(f)] /\ ended'[f] = ended[f]
          BY <2>1, <4>2, ProcFacts, TypeParts
        <5> QED
          BY <5>1, TypeParts DEF CloseLast
      <4> QED
        BY <4>1, <4>2
    <3>2. ASSUME NEW f \in End, ~ended'[f] PROVE ~ended[f]
      BY <2>1, <3>2, TypeParts
    <3> QED
      BY <1>1, <3>1, <3>2, TypeParts DEF CloseLast
  <2>7. ended' \in [End -> BOOLEAN]
    BY <2>1, TypeParts
  <2> QED
    BY <1>1, <1>4, <1>5, <2>3, <2>5, <2>6, <2>7, TypeFrom, TypeParts
<1>7. CASE Finish(e)
  <2>1. UNCHANGED <<held, ended>> /\ pc' = [pc EXCEPT ![p] = "remove"]
    BY <1>7 DEF Finish, Goto
  <2>2. ControlOK'
    <3>1. "remove" \in Label /\ "remove" \notin {"store", "use", "close", "removed"}
      BY DEF Label
    <3> QED
      BY <1>2, <2>1, <3>1, ControlKept, TypeParts
  <2>3. CloseLast'
    <3>1. "remove" \notin {"store", "use", "close"}
      OBVIOUS
    <3> QED
      BY <1>1, <1>2, <2>1, <3>1, CloseLastKept
  <2> QED
    BY <1>1, <1>4, <1>5, <2>1, <2>2, <2>3, TypeFrom, TypeParts
<1> QED
  BY <1>6, <1>7

\* Shutdown.
LEMMA ShutdownTypeInv ==
    ASSUME TypeInv, NEW e \in End, Shutdown(e)
    PROVE  TypeInv' /\ RemovedStays
<1>1. UNCHANGED <<streams, held, packet, net, sent, got, ended, faults>>
  BY DEF Shutdown
<1>2. OnlyStates /\ BornStays /\ obj' \in [End -> [Objects -> Object]]
  BY ShutdownStep, TypeParts DEF OnlyStates, BornStays
<1>3. /\ pc' = [pc EXCEPT ![Main(e)] = "done"]
      /\ UNCHANGED removed \/ removed' = [removed EXCEPT ![e] = TRUE]
  BY ShutdownStep, TypeParts
<1>4. removed' \in [End -> BOOLEAN] /\ RemovedStays
  BY <1>3, TypeParts DEF RemovedStays
<1>5. SameNumbers
  BY <1>1, <1>2, <1>4, StatesNumber
<1>6. \A f \in End : streams'[f] # None => obj'[f][streams'[f]].state # "unborn"
  BY <1>1, <1>2, MapBorn
<1>7. /\ pc' \in [Proc -> Label]
      /\ \A f \in End : /\ pc'[Main(f)] \in {"idle", "done"}
                        /\ pc'[Recv(f)] = pc[Recv(f)]
                        /\ pc'[Handler(f)] = pc[Handler(f)]
  BY <1>3, ProcFacts, TypeParts DEF ControlOK, Label
<1>8. ControlOK'
  <2>1. ASSUME NEW f \in End, NEW q \in {Recv(f), Handler(f)},
               pc'[q] \in {"store", "use", "close", "removed"}
        PROVE  held'[q] \in Objects /\ obj'[f][held'[q]].state # "unborn"
    <3>1. held'[q] = held[q] /\ held[q] \in Objects /\ obj[f][held[q]].state # "unborn"
      BY <1>1, <1>7, <2>1, TypeParts DEF ControlOK
    <3> QED
      BY <1>2, <3>1 DEF BornStays
  <2> QED
    BY <1>7, <2>1, TypeParts DEF ControlOK
<1>9. CloseLast'
  BY <1>1, <1>2, <1>7, TypeParts DEF CloseLast, OnlyStates, SameContent
<1> QED
  BY <1>1, <1>2, <1>4, <1>5, <1>6, <1>8, <1>9, TypeFrom, TypeParts

\* A retransmission or a loss.
LEMMA NetworkTypeInv ==
    ASSUME TypeInv, NEW e \in End,
           \/ Lose(e)
           \/ \E o \in Objects : \E p \in obj[e][o].unacked : Retransmit(e, o, p)
    PROVE  TypeInv'
<1>1. /\ UNCHANGED <<obj, streams, pc, held, packet, sent, got, ended, removed>>
      /\ faults < MaxFaults /\ faults' = faults + 1
      /\ \/ \E o \in Objects : \E p \in obj[e][o].unacked :
              net' = [net EXCEPT ![Peer(e)] = Append(@, p)]
         \/ net[e] # <<>> /\ net' = [net EXCEPT ![e] = Tail(@)]
  BY DEF Lose, Retransmit
<1>2. SameNumbers
  BY <1>1, NetworkNumbers, TypeParts
<1>3. net' \in [End -> Seq(Packet)]
  <2>1. ASSUME NEW o \in Objects, NEW p \in obj[e][o].unacked,
               net' = [net EXCEPT ![Peer(e)] = Append(@, p)]
        PROVE  net' \in [End -> Seq(Packet)]
    <3>1. obj[e][o] \in Object
      BY TypeParts
    <3>2. p \in Packet
      BY <3>1 DEF Object
    <3> QED
      BY <2>1, <3>2, EndFacts, TypeParts
  <2>2. CASE net[e] # <<>> /\ net' = [net EXCEPT ![e] = Tail(@)]
    BY <2>2, TypeParts
  <2> QED
    BY <1>1, <2>1, <2>2
<1>4. faults' \in 0 .. MaxFaults
  BY <1>1, TableAssumption, TypeParts
<1>5. ControlOK' /\ CloseLast'
  BY <1>1, TypeParts DEF ControlOK, CloseLast
<1>6. \A f \in End : streams'[f] # None => obj'[f][streams'[f]].state # "unborn"
  BY <1>1, TypeParts DEF TypeOK
<1> QED
  BY <1>1, <1>2, <1>3, <1>4, <1>5, <1>6, TypeFrom, TypeParts

\* Receive.
LEMMA ReceiveTypeInv ==
    ASSUME TypeInv, OneObject, NEW e \in End, Receive(e)
    PROVE  TypeInv'
<1> DEFINE o == held[Recv(e)]
           r == obj[e][o]
           p == packet[e]
<1>1. /\ UNCHANGED <<streams, held, sent, ended, removed, faults>>
      /\ o \in Objects /\ r \in Object /\ p \in Packet
      /\ packet' = [packet EXCEPT ![e] = NoPacket]
  BY ReceiveStep DEF Receive
<1>2. PICK t \in Object :
        /\ Wrote(e, o, t) /\ t.state = r.state /\ t.sendSeq = r.sendSeq
        /\ \/ /\ p.kind = "data" /\ t = Processed(r, p)
              /\ got' = [got EXCEPT ![e] = @ \o HandOver(r, p)]
              /\ net' = [net EXCEPT ![Peer(e)] = Append(@, AckOf(t))]
           \/ p.kind # "data" /\ UNCHANGED <<got, net>>
  BY ReceiveStep
<1>3. PICK l \in {"idle", "remove"} : pc' = [pc EXCEPT ![Recv(e)] = l]
  BY ReceiveStep
<1>4. /\ obj' \in [End -> [Objects -> Object]] /\ BornStays
      /\ \A f \in End, q \in Objects : obj'[f][q].sendSeq = obj[f][q].sendSeq
  BY <1>1, <1>2 DEF Wrote, BornStays
<1>5. packet' \in [End -> Packet]
  BY <1>1, TypeParts DEF NoPacket, Packet
<1>6. got' \in [End -> Seq(Nat)] /\ net' \in [End -> Seq(Packet)]
  <2>1. CASE p.kind # "data"
    BY <1>2, <2>1, TypeParts
  <2>2. CASE p.kind = "data"
    <3>1. HandOver(r, p) \in Seq(Nat)
      BY <1>1, BufferBound, HandOverFacts, TypeParts
    <3>2. AckOf(t) \in Packet
      BY DEF AckOf, Packet, Object
    <3>3. got[e] \o HandOver(r, p) \in Seq(Nat)
      BY <3>1, ConcatProperties, TypeParts
    <3>4. Append(net[Peer(e)], AckOf(t)) \in Seq(Packet)
      BY <3>2, EndFacts, TypeParts
    <3>5. /\ got' = [got EXCEPT ![e] = got[e] \o HandOver(r, p)]
          /\ net' = [net EXCEPT ![Peer(e)] = Append(net[Peer(e)], AckOf(t))]
      BY <1>2, <2>2
    <3>6. got' \in [End -> Seq(Nat)]
      BY <3>3, <3>5, TypeParts
    <3>7. net' \in [End -> Seq(Packet)]
      BY <3>4, <3>5, EndFacts, TypeParts
    <3> QED
      BY <3>6, <3>7
  <2> QED
    BY <2>1, <2>2
<1>7. ControlOK'
  <2>1. l \in Label /\ l \notin {"store", "use", "close", "removed"}
    BY <1>3 DEF Label
  <2> QED
    BY <1>1, <1>3, <1>4, <2>1, ControlKept, TypeParts
<1>8. CloseLast'
  <2>1. \A f \in End : pc'[Handler(f)] = pc[Handler(f)]
    BY <1>3, ProcFacts, TypeParts
  <2> QED
    BY <1>1, <1>4, <2>1, TypeParts DEF CloseLast
<1>9. \A f \in End : streams'[f] # None => obj'[f][streams'[f]].state # "unborn"
  BY <1>1, <1>4, MapBorn
<1>10. SameNumbers
  BY ReceiveNumbers
<1> QED
  BY <1>1, <1>4, <1>5, <1>6, <1>7, <1>8, <1>9, <1>10, TypeFrom, TypeParts

\* SendClose: after it the object's number is one ahead of the chunks, and the
\* application sends no more.
LEMMA SendCloseTypeInv ==
    ASSUME TypeInv, NEW e \in End, SendClose(e)
    PROVE  TypeInv'
<1> DEFINE o == held[Handler(e)]
           r == obj[e][o]
           p == CloseOf(r)
<1>1. /\ UNCHANGED <<streams, held, packet, sent, got, ended, removed, faults>>
      /\ o \in Objects /\ r \in Object /\ pc[Handler(e)] = "close"
      /\ pc' = [pc EXCEPT ![Handler(e)] = "idle"]
  BY SendCloseStep DEF SendClose
<1>2. SameNumbers
  BY SendCloseNumbers
<1>3. /\ obj' \in [End -> [Objects -> Object]] /\ BornStays
      /\ net' \in [End -> Seq(Packet)]
      /\ \A f \in End, q \in Objects : f # e => obj'[f][q] = obj[f][q]
  <2>1. CASE UNCHANGED <<obj, net>>
    BY <2>1, TypeParts DEF BornStays
  <2>2. CASE /\ p \in Packet /\ Wrote(e, o, Stored(r, p))
             /\ net' = [net EXCEPT ![Peer(e)] = Append(@, p)]
    <3>1. Stored(r, p).state = r.state
      BY <1>1, <2>2, StoredFacts
    <3> HIDE DEF p
    <3>2. BornStays
      BY <1>1, <2>2, <3>1 DEF Wrote, BornStays
    <3> QED
      BY <2>2, <3>2, EndFacts, TypeParts DEF Wrote
  <2> QED
    BY <2>1, <2>2, SendCloseStep
<1>4. CloseLast'
  <2>0. ended[e]
    BY <1>1, TypeParts DEF CloseLast
  <2>1. ASSUME NEW f \in End
        PROVE  /\ pc'[Handler(f)] \in {"store", "use"} => ~ended[f]
               /\ pc'[Handler(f)] = "close" => ended[f]
    BY <1>1, ProcFacts, TypeParts DEF CloseLast
  <2>2. ASSUME NEW f \in End, f # e, ~ended[f], NEW q \in Objects
        PROVE  obj'[f][q].sendSeq <= sent[f]
    BY <1>3, <2>2, TypeParts DEF CloseLast
  <2> QED
    BY <1>1, <2>0, <2>1, <2>2 DEF CloseLast
<1>5. ControlOK'
  <2>1. "idle" \in Label /\ "idle" \notin {"store", "use", "close", "removed"}
    BY DEF Label
  <2> QED
    BY <1>1, <1>3, <2>1, ControlKept, TypeParts
<1>6. \A f \in End : streams'[f] # None => obj'[f][streams'[f]].state # "unborn"
  BY <1>1, <1>3, MapBorn
<1> QED
  BY <1>1, <1>2, <1>3, <1>4, <1>5, <1>6, TypeFrom, TypeParts

\* Send: the number the chunk gets and the chunk itself are within what has
\* then been sent.
LEMMA SendTypeInv ==
    ASSUME TypeInv, NEW e \in End, Send(e)
    PROVE  TypeInv'
<1> DEFINE o == held[Handler(e)]
           r == obj[e][o]
           p == DataOf(e, r)
<1>1. /\ UNCHANGED <<streams, held, packet, got, ended, removed, faults>>
      /\ o \in Objects /\ r \in Object /\ pc[Handler(e)] = "use"
  BY SendStep DEF Send
<1>2. PICK l \in {"idle", "done"} : pc' = [pc EXCEPT ![Handler(e)] = l]
  BY SendStep
<1>3. /\ obj' \in [End -> [Objects -> Object]] /\ BornStays
      /\ net' \in [End -> Seq(Packet)] /\ sent' \in [End -> Nat]
      /\ \A f \in End : sent[f] <= sent'[f]
      /\ \A f \in End, q \in Objects :
           obj[f][q].sendSeq <= sent[f] => obj'[f][q].sendSeq <= sent'[f]
  <2>1. CASE UNCHANGED <<obj, net, sent>>
    BY <2>1, TypeParts DEF BornStays
  <2>2. CASE /\ p \in Packet /\ Wrote(e, o, Stored(r, p))
             /\ net' = [net EXCEPT ![Peer(e)] = Append(@, p)]
             /\ sent' = [sent EXCEPT ![e] = @ + 1]
    <3>1. Stored(r, p).state = r.state /\ Stored(r, p).sendSeq = r.sendSeq + 1
      BY <1>1, <2>2, StoredFacts
    <3>2. r.sendSeq \in Nat
      BY <1>1 DEF Object
    <3> HIDE DEF p
    <3>3. BornStays
      BY <1>1, <2>2, <3>1 DEF Wrote, BornStays
    <3>4. net' \in [End -> Seq(Packet)]
      BY <2>2, EndFacts, TypeParts
    <3>5. sent' \in [End -> Nat] /\ \A f \in End : sent[f] <= sent'[f]
      BY <2>2, TypeParts
    <3>6. ASSUME NEW f \in End, NEW q \in Objects, obj[f][q].sendSeq <= sent[f]
          PROVE  obj'[f][q].sendSeq <= sent'[f]
      <4>1. CASE f = e /\ q = o
        BY <2>2, <3>1, <3>2, <3>6, <4>1, TypeParts DEF Wrote
      <4>2. CASE f # e \/ q # o
        <5>1. obj'[f][q].sendSeq = obj[f][q].sendSeq
          BY <2>2, <4>2 DEF Wrote
        <5>2. obj[f][q] \in Object
          BY TypeParts
        <5>3. obj[f][q].sendSeq \in Nat /\ sent[f] \in Nat /\ sent'[f] \in Nat
          BY <3>5, <5>2, TypeParts DEF Object
        <5> QED
          BY <3>5, <3>6, <5>1, <5>3
      <4> QED
        BY <4>1, <4>2
    <3> QED
      BY <2>2, <3>3, <3>4, <3>5, <3>6 DEF Wrote
  <2> QED
    BY <2>1, <2>2, SendStep
<1>4. CloseLast'
  <2>1. ASSUME NEW f \in End
        PROVE  /\ pc'[Handler(f)] \in {"store", "use"} => ~ended[f]
               /\ pc'[Handler(f)] = "close" => ended[f]
    BY <1>1, <1>2, ProcFacts, TypeParts DEF CloseLast
  <2>2. ASSUME NEW f \in End, ~ended[f], NEW q \in Objects
        PROVE  obj'[f][q].sendSeq <= sent'[f]
    BY <1>3, <2>2, TypeParts DEF CloseLast
  <2> QED
    BY <1>1, <2>1, <2>2 DEF CloseLast
<1>5. ControlOK'
  <2>1. l \in Label /\ l \notin {"store", "use", "close", "removed"}
    BY <1>2 DEF Label
  <2> QED
    BY <1>1, <1>2, <1>3, <2>1, ControlKept, TypeParts
<1>6. ASSUME NEW f \in End, NEW s \in Nat, NEW c \in Nat, Numbered(f, s, c)'
      PROVE  s < sent'[Peer(f)] /\ c <= sent'[Peer(f)]
  <2>1. /\ sent[Peer(f)] \in Nat /\ sent'[Peer(f)] \in Nat /\ sent[e] \in Nat
        /\ sent[Peer(f)] <= sent'[Peer(f)]
    BY <1>3, EndFacts, TypeParts
  <2>2. Numbered(f, s, c) => s < sent[Peer(f)] /\ c <= sent[Peer(f)]
    BY TypeParts DEF SentFirst
  <2>3. CASE Numbered(f, s, c)
    BY <2>1, <2>2, <2>3
  <2>4. CASE ~Numbered(f, s, c)
    <3>1. PICK n \in Nat :
            /\ n <= sent[e] /\ sent' = [sent EXCEPT ![e] = @ + 1]
            /\ f = Peer(e) /\ s = n /\ c = sent[e] + 1
      BY <1>6, <2>4, SendNumbers DEF SameNumbers
    <3>2. Peer(f) = e /\ sent'[e] = sent[e] + 1
      BY <3>1, EndFacts, TypeParts
    <3> QED
      BY <2>1, <3>1, <3>2
  <2> QED
    BY <2>3, <2>4
<1>7. SentFirst'
  BY <1>4, <1>6 DEF SentFirst, CloseLast
<1>8. \A f \in End : streams'[f] # None => obj'[f][streams'[f]].state # "unborn"
  BY <1>1, <1>3, MapBorn
<1>9. TypeOK'
  <2>1. DOMAIN pc' = Proc
    BY <1>5 DEF ControlOK
  <2>2. /\ streams' \in [End -> Objects \cup {None}]
        /\ held' \in [Proc -> Objects \cup {None}] /\ packet' \in [End -> Packet]
        /\ got' \in [End -> Seq(Nat)] /\ ended' \in [End -> BOOLEAN]
        /\ removed' \in [End -> BOOLEAN] /\ faults' \in 0 .. MaxFaults
    BY <1>1, TypeParts, Zenon
  <2> QED
    BY <1>3, <1>8, <2>1, <2>2, Zenon DEF TypeOK
<1> QED
  BY <1>5, <1>7, <1>9 DEF TypeInv

\* Every step keeps types, control and bounds.
LEMMA NextTypeInv ==
    ASSUME TypeInv, OneObject, [Next]_vars
    PROVE  TypeInv'
<1>1. CASE UNCHANGED vars
  <2> USE <1>1 DEF vars
  <2>1. OnlyStates
    BY TypeParts DEF OnlyStates, SameContent
  <2>2. SameNumbers
    BY <2>1, StatesNumber DEF RemovedStays
  <2>3. ControlOK' /\ CloseLast'
    BY TypeParts DEF ControlOK, CloseLast
  <2>4. \A f \in End : streams'[f] # None => obj'[f][streams'[f]].state # "unborn"
    BY TypeParts DEF TypeOK
  <2> QED
    BY <2>2, <2>3, <2>4, TypeFrom, TypeParts
<1>2. CASE Next
  <2>1. PICK e \in End :
        \/ Arrive(e) \/ Receive(e) \/ RemoveStream(Recv(e), "idle")
        \/ StartSend(e) \/ Send(e) \/ StartClose(e) \/ SendClose(e)
        \/ Finish(e) \/ RemoveStream(Handler(e), "done") \/ Shutdown(e)
        \/ Lose(e)
        \/ \E p \in {Recv(e), Handler(e)} : LoadOrStore(p)
        \/ \E o \in Objects : \E p \in obj[e][o].unacked : Retransmit(e, o, p)
    BY <1>2 DEF Next
  <2>2. CASE Arrive(e) \/ StartSend(e)
    BY <2>2, LoadTypeInv
  <2>3. CASE Receive(e)
    BY <2>3, ReceiveTypeInv
  <2>4. CASE RemoveStream(Recv(e), "idle") \/ RemoveStream(Handler(e), "done")
    BY <2>4, RemoveTypeInv
  <2>5. CASE Send(e)
    BY <2>5, SendTypeInv
  <2>6. CASE StartClose(e) \/ Finish(e)
    BY <2>6, HandlerTypeInv
  <2>7. CASE SendClose(e)
    BY <2>7, SendCloseTypeInv
  <2>8. CASE Shutdown(e)
    BY <2>8, ShutdownTypeInv
  <2>9. CASE \/ Lose(e)
             \/ \E o \in Objects : \E p \in obj[e][o].unacked : Retransmit(e, o, p)
    BY <2>9, NetworkTypeInv
  <2>10. CASE \E p \in {Recv(e), Handler(e)} : LoadOrStore(p)
    BY <2>10, LoadOrStoreTypeInv
  <2> QED
    BY <2>1, <2>2, <2>3, <2>4, <2>5, <2>6, <2>7, <2>8, <2>9, <2>10
<1> QED
  BY <1>1, <1>2

(***************************************************************************)
(* OneNumber and OneObject.                                                *)
(***************************************************************************)

\* A chunk has one number if no step numbers it again.
LEMMA NextOneNumber ==
    ASSUME TypeInv, OneObject, OneNumber, [Next]_vars
    PROVE  OneNumber'
<1>1. CASE SameNumbers
  BY <1>1 DEF OneNumber, SameNumbers
<1>2. ASSUME NEW e \in End, Send(e)
      PROVE  OneNumber'
  <2>1. CASE SameNumbers
    BY <1>1, <2>1
  <2>2. CASE ~SameNumbers
    <3>1. PICK n \in Nat :
            \A f \in End : \A s, c \in Nat :
               Numbered(f, s, c)' =>
                  \/ Numbered(f, s, c)
                  \/ f = Peer(e) /\ s = n /\ c = sent[e] + 1
      BY <1>2, <2>2, SendNumbers
    <3>2. ASSUME NEW s \in Nat PROVE ~Numbered(Peer(e), s, sent[e] + 1)
      <4>1. sent[e] \in Nat /\ sent[e] + 1 \in Nat /\ Peer(e) \in End /\ Peer(Peer(e)) = e
        BY EndFacts, TypeParts
      <4>2. \A c \in Nat : Numbered(Peer(e), s, c) => c <= sent[e]
        BY <4>1, TypeParts DEF SentFirst
      <4>3. ~(sent[e] + 1 <= sent[e])
        BY <4>1
      <4> QED
        BY <4>1, <4>2, <4>3
    <3>3. ASSUME NEW f \in End, NEW s \in Nat, NEW t \in Nat, NEW c \in Nat,
                 Numbered(f, s, c)', Numbered(f, t, c)'
          PROVE  s = t
      <4>1. CASE Numbered(f, s, c) /\ Numbered(f, t, c)
        BY <4>1 DEF OneNumber
      <4>2. CASE ~Numbered(f, s, c)
        <5>1. f = Peer(e) /\ s = n /\ c = sent[e] + 1
          BY <3>1, <3>3, <4>2
        <5>2. ~Numbered(f, t, c)
          BY <3>2, <5>1
        <5> QED
          BY <3>1, <3>3, <5>1, <5>2
      <4>3. CASE ~Numbered(f, t, c)
        <5>1. f = Peer(e) /\ t = n /\ c = sent[e] + 1
          BY <3>1, <3>3, <4>3
        <5>2. ~Numbered(f, s, c)
          BY <3>2, <5>1
        <5> QED
          BY <3>1, <3>3, <5>1, <5>2
      <4> QED
        BY <4>1, <4>2, <4>3
    <3> QED
      BY <3>3 DEF OneNumber
  <2> QED
    BY <2>1, <2>2
<1>3. CASE UNCHANGED vars
  <2>1. OnlyStates
    BY <1>3, TypeParts DEF vars, OnlyStates, SameContent
  <2>2. SameNumbers
    BY <1>3, <2>1, StatesNumber DEF vars, RemovedStays
  <2> QED
    BY <1>1, <2>2
<1>4. CASE Next
  <2>1. PICK e \in End :
        \/ Arrive(e) \/ Receive(e) \/ RemoveStream(Recv(e), "idle")
        \/ StartSend(e) \/ Send(e) \/ StartClose(e) \/ SendClose(e)
        \/ Finish(e) \/ RemoveStream(Handler(e), "done") \/ Shutdown(e)
        \/ Lose(e)
        \/ \E p \in {Recv(e), Handler(e)} : LoadOrStore(p)
        \/ \E o \in Objects : \E p \in obj[e][o].unacked : Retransmit(e, o, p)
    BY <1>4 DEF Next
  <2>2. CASE Arrive(e)
    BY <1>1, <2>2, ArriveNumbers, TypeParts
  <2>3. CASE Receive(e)
    BY <1>1, <2>3, ReceiveNumbers
  <2>4. ASSUME NEW p \in {Recv(e), Handler(e)}, NEW next \in {"idle", "done"},
               RemoveStream(p, next)
        PROVE  OneNumber'
    <3>1. OnlyStates /\ RemovedStays /\ UNCHANGED <<net, packet, got>>
      <4>1. OnlyStates
        BY <2>4, RemoveStep, TypeParts
      <4>2. RemovedStays
        BY <2>4, RemoveTypeInv
      <4> QED
        BY <2>4, <4>1, <4>2 DEF RemoveStream
    <3> QED
      BY <1>1, <3>1, StatesNumber
  <2>5. CASE StartSend(e)
    <3>1. OnlyStates
      BY <2>5, LoadStep, TypeParts DEF StartSend
    <3> QED
      BY <1>1, <2>5, <3>1, StatesNumber DEF StartSend, RemovedStays
  <2>6. CASE StartClose(e) \/ Finish(e)
    <3>1. UNCHANGED <<obj, net, packet, got, removed>>
      BY <2>6 DEF StartClose, Finish
    <3>2. OnlyStates
      BY <3>1, TypeParts DEF OnlyStates, SameContent
    <3> QED
      BY <1>1, <3>1, <3>2, StatesNumber DEF RemovedStays
  <2>7. CASE SendClose(e)
    BY <1>1, <2>7, SendCloseNumbers
  <2>8. CASE Shutdown(e)
    <3>1. OnlyStates
      BY <2>8, ShutdownStep, TypeParts
    <3>2. RemovedStays
      BY <2>8, ShutdownTypeInv
    <3> QED
      BY <1>1, <2>8, <3>1, <3>2, StatesNumber DEF Shutdown
  <2>9. CASE \/ Lose(e)
             \/ \E o \in Objects : \E p \in obj[e][o].unacked : Retransmit(e, o, p)
    <3>1. /\ UNCHANGED <<obj, packet, got, removed>>
          /\ \/ \E o \in Objects : \E p \in obj[e][o].unacked :
                  net' = [net EXCEPT ![Peer(e)] = Append(@, p)]
             \/ net[e] # <<>> /\ net' = [net EXCEPT ![e] = Tail(@)]
      BY <2>9 DEF Lose, Retransmit
    <3> QED
      BY <1>1, <3>1, NetworkNumbers, TypeParts
  <2>10. ASSUME NEW p \in {Recv(e), Handler(e)}, LoadOrStore(p) PROVE OneNumber'
    <3>1. OnlyStates
      BY <2>10, LoadOrStoreStep, TypeParts
    <3>2. UNCHANGED <<net, packet, got, removed>>
      BY <2>10 DEF LoadOrStore
    <3> QED
      BY <1>1, <3>1, <3>2, StatesNumber DEF RemovedStays
  <2> QED
    BY <1>2, <2>1, <2>2, <2>3, <2>4, <2>5, <2>6, <2>7, <2>8, <2>9, <2>10
<1> QED
  BY <1>3, <1>4

\* What OneObject says of one end.
OneObjectAt(e) ==
    /\ \A o \in Objects :
         obj[e][o].recvNext = (IF o = streams[e] THEN Len(got[e]) ELSE 0)
    /\ streams[e] = None => got[e] = <<>>
    /\ pc[Recv(e)] = "use" => held[Recv(e)] = streams[e]
    /\ pc[Recv(e)] # "removed" /\ pc[Handler(e)] # "removed"

\* No object counts a chunk in a step.
SameCounts == \A f \in End, q \in Objects : obj'[f][q].recvNext = obj[f][q].recvNext

\* A goroutine of end e goes to label l: the other end has its one object still.
LEMMA OtherEnd ==
    ASSUME TypeInv, OneObject, RemovedStays, SameCounts, UNCHANGED got,
           NEW e \in End, NEW p \in {Recv(e), Handler(e), Main(e)}, NEW l,
           pc' = [pc EXCEPT ![p] = l], \A q \in Proc : q # p => held'[q] = held[q],
           NEW f \in End, f # e, streams'[f] = streams[f], ~removed'[f]
    PROVE  OneObjectAt(f)'
<1>1. ~removed[f]
  BY DEF RemovedStays
<1>2. /\ pc'[Recv(f)] = pc[Recv(f)] /\ pc'[Handler(f)] = pc[Handler(f)]
      /\ held'[Recv(f)] = held[Recv(f)]
  BY ProcFacts, TypeParts
<1> QED
  BY <1>1, <1>2 DEF OneObjectAt, OneObject, SameCounts

\* A goroutine goes to label l and nothing is handed over or put into the map.
LEMMA ObjectKept ==
    ASSUME TypeInv, OneObject, RemovedStays, SameCounts, UNCHANGED <<streams, got>>,
           NEW e \in End, NEW p \in {Recv(e), Handler(e), Main(e)}, NEW l,
           pc' = [pc EXCEPT ![p] = l], \A q \in Proc : q # p => held'[q] = held[q],
           l # "removed", p = Recv(e) /\ l = "use" => held'[p] = streams[e]
    PROVE  OneObject'
<1>1. ASSUME NEW f \in End, ~removed'[f] PROVE OneObjectAt(f)'
  <2>1. CASE f # e
    BY <1>1, <2>1, OtherEnd
  <2>2. CASE f = e
    <3>1. ~removed[e]
      BY <1>1, <2>2 DEF RemovedStays
    <3>2. pc'[Recv(e)] # "removed" /\ pc'[Handler(e)] # "removed"
      BY <3>1, ProcFacts, TypeParts DEF OneObject
    <3>3. pc'[Recv(e)] = "use" => held'[Recv(e)] = streams[e]
      <4>1. CASE p = Recv(e)
        BY <4>1, ProcFacts, TypeParts
      <4>2. CASE p # Recv(e)
        BY <3>1, <4>2, ProcFacts, TypeParts DEF OneObject
      <4> QED
        BY <4>1, <4>2
    <3> QED
      BY <2>2, <3>1, <3>2, <3>3 DEF OneObjectAt, OneObject, SameCounts
  <2> QED
    BY <2>1, <2>2
<1> QED
  BY <1>1 DEF OneObject, OneObjectAt

\* GetOrCreateStream: the object that goes into the map has counted nothing,
\* and nothing was handed over before.
LEMMA LoadOrStoreObject ==
    ASSUME TypeInv, OneObject, NEW e \in End, NEW p \in {Recv(e), Handler(e)},
           LoadOrStore(p)
    PROVE  OneObject'
<1>1. /\ UNCHANGED <<got, removed>> /\ pc' = [pc EXCEPT ![p] = "use"]
      /\ SameCounts /\ RemovedStays /\ held[p] \in Objects /\ p \in Proc
  <2>1. OnlyStates /\ pc' = [pc EXCEPT ![p] = "use"] /\ held[p] \in Objects
    BY LoadOrStoreStep, TypeParts
  <2> QED
    BY <2>1, ProcFacts DEF LoadOrStore, SameCounts, RemovedStays, OnlyStates, SameContent
<1>2. CASE streams[e] # None
  <2>1. held' = [held EXCEPT ![p] = streams[e]] /\ UNCHANGED streams
    BY <1>2, LoadOrStoreStep, TypeParts
  <2>2. \A q \in Proc : q # p => held'[q] = held[q]
    BY <2>1, TypeParts
  <2>3. held'[p] = streams[e]
    BY <1>1, <2>1, TypeParts
  <2> QED
    BY <1>1, <2>1, <2>2, <2>3, ObjectKept
<1>3. CASE streams[e] = None
  <2>1. streams' = [streams EXCEPT ![e] = held[p]] /\ UNCHANGED held
    BY <1>3, LoadOrStoreStep, TypeParts
  <2>2. ASSUME NEW f \in End, ~removed'[f] PROVE OneObjectAt(f)'
    <3>1. CASE f # e
      <4>1. streams'[f] = streams[f]
        BY <2>1, <3>1, TypeParts
      <4> QED
        BY <1>1, <2>1, <2>2, <3>1, <4>1, OtherEnd
    <3>2. CASE f = e
      <4>1. ~removed[e] /\ streams'[e] = held[p]
        BY <1>1, <2>1, <2>2, <3>2, TypeParts
      <4>2. got[e] = <<>> /\ \A o \in Objects : obj[e][o].recvNext = 0
        BY <1>3, <4>1, NoneIsNoObject DEF OneObject
      <4>3. Len(got'[e]) = 0 /\ \A o \in Objects : obj'[e][o].recvNext = 0
        BY <1>1, <4>2 DEF SameCounts
      <4>4. pc'[Recv(e)] # "removed" /\ pc'[Handler(e)] # "removed"
        BY <1>1, <4>1, ProcFacts, TypeParts DEF OneObject
      <4>5. pc'[Recv(e)] = "use" => held'[Recv(e)] = streams'[e]
        <5>1. CASE p = Recv(e)
          BY <2>1, <4>1, <5>1
        <5>2. CASE p # Recv(e)
          <6>1. pc[Recv(e)] # "use"
            BY <1>3, <4>1, NoneIsNoObject, TypeParts DEF OneObject, ControlOK
          <6> QED
            BY <1>1, <5>2, <6>1, ProcFacts, TypeParts
        <5> QED
          BY <5>1, <5>2
      <4> QED
        BY <1>1, <3>2, <4>2, <4>3, <4>4, <4>5 DEF OneObjectAt
    <3> QED
      BY <3>1, <3>2
  <2> QED
    BY <2>2 DEF OneObject, OneObjectAt
<1> QED
  BY <1>2, <1>3

\* RemoveStream: from then on the end counts as one that removed its stream.
LEMMA RemoveObject ==
    ASSUME TypeInv, OneObject, NEW e \in End, NEW p \in {Recv(e), Handler(e)},
           NEW next \in {"idle", "done"}, RemoveStream(p, next)
    PROVE  OneObject'
<1>1. UNCHANGED got /\ SameCounts /\ RemovedStays /\ p \in Proc
  <2>1. OnlyStates
    BY RemoveStep, TypeParts
  <2>2. RemovedStays
    BY RemoveTypeInv
  <2> QED
    BY <2>1, <2>2, ProcFacts DEF RemoveStream, SameCounts, OnlyStates, SameContent
<1>2. CASE pc[p] = "remove"
  <2>1. /\ held' = [held EXCEPT ![p] = streams[e]]
        /\ streams' = [streams EXCEPT ![e] = None]
        /\ removed' = [removed EXCEPT ![e] = @ \/ streams[e] # None]
        /\ pc' = [pc EXCEPT ![p] = IF streams[e] = None THEN next ELSE "removed"]
    BY <1>2, RemoveStep, TypeParts
  <2>2. \A q \in Proc : q # p => held'[q] = held[q]
    BY <2>1, TypeParts
  <2>3. CASE streams[e] = None
    <3>1. UNCHANGED streams
      BY <2>1, <2>3, TypeParts
    <3>2. pc' = [pc EXCEPT ![p] = next] /\ next # "removed" /\ next # "use"
      BY <2>1, <2>3
    <3> QED
      BY <1>1, <2>2, <3>1, <3>2, ObjectKept
  <2>4. CASE streams[e] # None
    <3>1. removed'[e] /\ pc' = [pc EXCEPT ![p] = "removed"]
      BY <2>1, <2>4, TypeParts
    <3>2. ASSUME NEW f \in End, ~removed'[f] PROVE OneObjectAt(f)'
      <4>1. f # e /\ streams'[f] = streams[f]
        BY <2>1, <3>1, <3>2, TypeParts
      <4> QED
        BY <1>1, <2>2, <3>1, <3>2, <4>1, OtherEnd
    <3> QED
      BY <3>2 DEF OneObject, OneObjectAt
  <2> QED
    BY <2>3, <2>4
<1>3. CASE pc[p] = "removed"
  <2>1. UNCHANGED <<streams, held>> /\ pc' = [pc EXCEPT ![p] = next]
    BY <1>3, RemoveStep, TypeParts
  <2>2. next # "removed" /\ next # "use"
    OBVIOUS
  <2> QED
    BY <1>1, <2>1, <2>2, ObjectKept
<1> QED
  BY <1>2, <1>3 DEF RemoveStream

\* Receive: the object in use counts what it hands over.
LEMMA ReceiveObject ==
    ASSUME TypeInv, OneObject, NEW e \in End, Receive(e)
    PROVE  OneObject'
<1> DEFINE o == held[Recv(e)]
           r == obj[e][o]
           p == packet[e]
<1>1. /\ UNCHANGED <<streams, held, removed>> /\ pc[Recv(e)] = "use"
      /\ o \in Objects /\ r \in Object /\ p \in Packet
  BY ReceiveStep DEF Receive
<1>2. PICK t \in Object :
        /\ Wrote(e, o, t)
        /\ \/ /\ p.kind = "data" /\ t = Processed(r, p)
              /\ got' = [got EXCEPT ![e] = @ \o HandOver(r, p)]
           \/ p.kind # "data" /\ UNCHANGED got /\ t.recvNext = r.recvNext
  BY ReceiveStep
<1>3. PICK l \in {"idle", "remove"} : pc' = [pc EXCEPT ![Recv(e)] = l]
  BY ReceiveStep
<1>4. PICK h \in Seq(Nat) :
        got' = [got EXCEPT ![e] = got[e] \o h] /\ t.recvNext = r.recvNext + Len(h)
  <2>1. CASE p.kind = "data"
    <3>1. /\ HandOver(r, p) \in Seq(Nat)
          /\ Processed(r, p).recvNext = r.recvNext + Len(HandOver(r, p))
      BY <1>1, BufferBound, HandOverFacts, TypeParts
    <3> QED
      BY <1>2, <2>1, <3>1
  <2>2. CASE p.kind # "data"
    <3>1. got[e] \o <<>> = got[e] /\ r.recvNext = r.recvNext + Len(<<>>)
      BY <1>1, TypeParts DEF Object
    <3>2. got' = [got EXCEPT ![e] = got[e] \o <<>>]
      BY <1>2, <2>2, <3>1, TypeParts
    <3>3. <<>> \in Seq(Nat)
      OBVIOUS
    <3> QED
      BY <1>2, <2>2, <3>1, <3>2, <3>3
  <2> QED
    BY <2>1, <2>2
<1>5. /\ \A f \in End : f # e => got'[f] = got[f]
      /\ Len(got'[e]) = Len(got[e]) + Len(h) /\ Len(got[e]) \in Nat /\ Len(h) \in Nat
  BY <1>4, TypeParts
<1>6. ASSUME NEW f \in End, ~removed'[f] PROVE OneObjectAt(f)'
  <2>1. ~removed[f]
    BY <1>1, <1>6
  <2>2. /\ pc'[Recv(f)] = "use" => pc[Recv(f)] = "use"
        /\ pc'[Recv(f)] # "removed" /\ pc'[Handler(f)] # "removed"
    BY <1>3, <2>1, ProcFacts, TypeParts DEF OneObject
  <2>3. pc'[Recv(f)] = "use" => held'[Recv(f)] = streams'[f]
    BY <1>1, <2>1, <2>2 DEF OneObject
  <2>4. CASE f # e
    <3>1. \A q \in Objects : obj'[f][q] = obj[f][q]
      BY <1>2, <2>4 DEF Wrote
    <3> QED
      BY <1>1, <1>5, <2>1, <2>2, <2>3, <2>4, <3>1 DEF OneObjectAt, OneObject
  <2>5. CASE f = e
    <3>1. o = streams[e] /\ r.recvNext = Len(got[e])
      BY <1>1, <2>1, <2>5 DEF OneObject
    <3>2. obj'[e][o].recvNext = Len(got'[e])
      BY <1>2, <1>4, <1>5, <3>1 DEF Wrote
    <3>3. ASSUME NEW q \in Objects, q # o PROVE obj'[e][q].recvNext = 0
      BY SMTT(30), <1>2, <2>1, <2>5, <3>1, <3>3 DEF Wrote, OneObject
    <3>4. streams'[e] = o /\ streams'[e] # None
      BY <1>1, <3>1, NoneIsNoObject
    <3> QED
      BY <2>2, <2>3, <2>5, <3>2, <3>3, <3>4 DEF OneObjectAt
  <2> QED
    BY <2>4, <2>5
<1> QED
  BY <1>6 DEF OneObject, OneObjectAt

\* Every step keeps one object in use.
LEMMA NextOneObject ==
    ASSUME TypeInv, OneObject, [Next]_vars
    PROVE  OneObject'
<1>1. CASE UNCHANGED vars
  BY <1>1 DEF vars, OneObject
<1>2. CASE Next
  <2>1. PICK e \in End :
        \/ Arrive(e) \/ Receive(e) \/ RemoveStream(Recv(e), "idle")
        \/ StartSend(e) \/ Send(e) \/ StartClose(e) \/ SendClose(e)
        \/ Finish(e) \/ RemoveStream(Handler(e), "done") \/ Shutdown(e)
        \/ Lose(e)
        \/ \E p \in {Recv(e), Handler(e)} : LoadOrStore(p)
        \/ \E o \in Objects : \E p \in obj[e][o].unacked : Retransmit(e, o, p)
    BY <1>2 DEF Next
  <2>2. ASSUME NEW p \in {Recv(e), Handler(e)}, Load(p),
               UNCHANGED <<streams, got, removed>>
        PROVE  OneObject'
    <3>1. SameCounts
      <4>1. OnlyStates
        BY <2>2, LoadStep, TypeParts
      <4> QED
        BY <4>1 DEF SameCounts, OnlyStates, SameContent
    <3>2. PICK l \in {"use", "store"} :
            /\ pc' = [pc EXCEPT ![p] = l] /\ (l = "use" => held'[p] = streams[e])
            /\ \A q \in Proc : q # p => held'[q] = held[q]
      BY <2>2, LoadStep, ProcFacts, TypeParts
    <3>3. l # "removed"
      OBVIOUS
    <3> QED
      BY <2>2, <3>1, <3>2, <3>3, ObjectKept DEF RemovedStays
  <2>3. CASE Arrive(e)
    BY <2>2, <2>3 DEF Arrive
  <2>4. CASE StartSend(e)
    BY <2>2, <2>4 DEF StartSend
  <2>5. CASE Send(e)
    <3> DEFINE o == held[Handler(e)]
               r == obj[e][o]
               p == DataOf(e, r)
    <3>1. PICK l \in {"idle", "done"} : pc' = [pc EXCEPT ![Handler(e)] = l]
      BY <2>5, SendStep
    <3>2. SameCounts
      <4>1. CASE UNCHANGED obj
        BY <4>1 DEF SameCounts
      <4>2. CASE o \in Objects /\ r \in Object /\ p \in Packet /\ Wrote(e, o, Stored(r, p))
        <5>1. Stored(r, p).recvNext = r.recvNext
          BY <4>2, StoredFacts
        <5> HIDE DEF p
        <5> QED
          BY <4>2, <5>1 DEF Wrote, SameCounts
      <4> QED
        BY <2>5, <4>1, <4>2, SendStep
    <3>3. UNCHANGED <<streams, held, got, removed>>
      BY <2>5 DEF Send
    <3>4. l # "removed" /\ Handler(e) # Recv(e)
      BY ProcFacts
    <3> QED
      BY <3>1, <3>2, <3>3, <3>4, ObjectKept DEF RemovedStays
  <2>6. CASE SendClose(e)
    <3> DEFINE o == held[Handler(e)]
               r == obj[e][o]
               p == CloseOf(r)
    <3>1. pc' = [pc EXCEPT ![Handler(e)] = "idle"]
      BY <2>6, SendCloseStep
    <3>2. SameCounts
      <4>1. CASE UNCHANGED obj
        BY <4>1 DEF SameCounts
      <4>2. CASE o \in Objects /\ r \in Object /\ p \in Packet /\ Wrote(e, o, Stored(r, p))
        <5>1. Stored(r, p).recvNext = r.recvNext
          BY <4>2, StoredFacts
        <5> HIDE DEF p
        <5> QED
          BY <4>2, <5>1 DEF Wrote, SameCounts
      <4> QED
        BY <2>6, <4>1, <4>2, SendCloseStep
    <3>3. UNCHANGED <<streams, held, got, removed>>
      BY <2>6 DEF SendClose
    <3>4. "idle" # "removed" /\ Handler(e) # Recv(e)
      BY ProcFacts
    <3> QED
      BY <3>1, <3>2, <3>3, <3>4, ObjectKept DEF RemovedStays
  <2>7. CASE StartClose(e) \/ Finish(e)
    <3>1. /\ UNCHANGED <<obj, streams, got, removed>>
          /\ \E l \in {"idle", "close", "remove"} : pc' = [pc EXCEPT ![Handler(e)] = l]
          /\ \A q \in Proc : q # Handler(e) => held'[q] = held[q]
      BY <2>7, TypeParts DEF StartClose, Finish, Goto
    <3>2. PICK l \in {"idle", "close", "remove"} : pc' = [pc EXCEPT ![Handler(e)] = l]
      BY <3>1
    <3>3. l # "removed" /\ Handler(e) # Recv(e)
      BY ProcFacts
    <3> QED
      BY <3>1, <3>2, <3>3, ObjectKept DEF RemovedStays, SameCounts
  <2>8. CASE Shutdown(e)
    <3>1. OnlyStates /\ pc' = [pc EXCEPT ![Main(e)] = "done"] /\ UNCHANGED <<streams, held>>
      BY <2>8, ShutdownStep, TypeParts
    <3>2. RemovedStays
      BY <2>8, ShutdownTypeInv
    <3>3. "done" # "removed" /\ Main(e) # Recv(e) /\ UNCHANGED got
      BY <2>8, ProcFacts DEF Shutdown
    <3>4. SameCounts
      BY <3>1 DEF OnlyStates, SameContent, SameCounts
    <3> QED
      BY <3>1, <3>2, <3>3, <3>4, ObjectKept
  <2>9. CASE \/ Lose(e)
             \/ \E o \in Objects : \E p \in obj[e][o].unacked : Retransmit(e, o, p)
    <3>1. UNCHANGED <<obj, streams, pc, held, got, removed>>
      BY <2>9 DEF Lose, Retransmit
    <3> QED
      BY <3>1 DEF OneObject
  <2> QED
    BY <2>1, <2>3, <2>4, <2>5, <2>6, <2>7, <2>8, <2>9,
       ReceiveObject, RemoveObject, LoadOrStoreObject
<1> QED
  BY <1>1, <1>2

(***************************************************************************)
(* LifeInv: no object is left behind.                                      *)
(***************************************************************************)

\* LifeInv for one end, and with the receive loop and the handler as the only
\* goroutines that can own an object.
LifeAt(e) ==
    /\ \A p \in {Recv(e), Handler(e)} :
         /\ Owns(p) => held[p] # streams[e]
         /\ pc[p] = "store" => obj[e][held[p]].state = "open"
    /\ \A p, q \in {Recv(e), Handler(e)} :
         p # q /\ Owns(p) /\ Owns(q) => held[p] # held[q]
    /\ \A o \in Objects :
         obj[e][o].state = "open" =>
            streams[e] = o \/ \E p \in {Recv(e), Handler(e)} : Owns(p) /\ held[p] = o
    /\ streams[e] # None /\ pc[Main(e)] = "idle" => obj[e][streams[e]].state = "open"

\* LifeInv, end by end.
LEMMA LifeByEnd ==
    ASSUME ControlOK, LifeInv, NEW e \in End
    PROVE  LifeAt(e)
<1>1. ASSUME NEW o \in Objects, obj[e][o].state = "open", streams[e] # o
      PROVE  \E p \in {Recv(e), Handler(e)} : Owns(p) /\ held[p] = o
  <2>1. PICK p \in Proc : p[2] = e /\ held[p] = o /\ Owns(p)
    BY <1>1 DEF LifeInv, NoOrphan, Owns
  <2>2. p \in {Recv(e), Handler(e), Main(e)}
    BY <2>1, ProcCases
  <2>3. ~Owns(Main(e))
    BY DEF Owns, ControlOK
  <2> QED
    BY <2>1, <2>2, <2>3
<1> QED
  BY <1>1, ProcFacts DEF LifeAt, LifeInv, Owners, MapHoldsOpen

\* ... and back, after a step.
LEMMA LifeFromEnds ==
    ASSUME \A e \in End : LifeAt(e)'
    PROVE  LifeInv'
<1>1. Owners'
  <2>1. ASSUME NEW e \in End PROVE Recv(e) # Handler(e)
    BY ProcFacts
  <2> QED
    BY <2>1 DEF LifeAt, Owners
<1>2. NoOrphan'
  <2>1. ASSUME NEW e \in End, NEW o \in Objects, obj'[e][o].state = "open",
               streams'[e] # o
        PROVE  \E p \in Proc : p[2] = e /\ held'[p] = o /\ pc'[p] \in {"store", "removed"}
    <3>1. PICK p \in {Recv(e), Handler(e)} : Owns(p)' /\ held'[p] = o
      BY <2>1 DEF LifeAt
    <3> QED
      BY <3>1, ProcFacts DEF Owns
  <2> QED
    BY <2>1 DEF NoOrphan
<1>3. MapHoldsOpen'
  BY DEF LifeAt, MapHoldsOpen
<1> QED
  BY <1>1, <1>2, <1>3 DEF LifeInv

\* A step of a goroutine of end e is nothing to the other end.
LEMMA OtherEndLife ==
    ASSUME TypeInv, NEW e \in End, NEW p \in {Recv(e), Handler(e), Main(e)}, NEW l,
           pc' = [pc EXCEPT ![p] = l], \A q \in Proc : q # p => held'[q] = held[q],
           NEW f \in End, f # e, streams'[f] = streams[f],
           \A q \in Objects : obj'[f][q].state = obj[f][q].state, LifeAt(f)
    PROVE  LifeAt(f)'
<1>1. /\ \A q \in {Recv(f), Handler(f)} : pc'[q] = pc[q] /\ held'[q] = held[q]
      /\ pc'[Main(f)] = pc[Main(f)]
  BY ProcFacts, TypeParts
<1>2. ASSUME NEW q \in {Recv(f), Handler(f)}
      PROVE  /\ Owns(q)' <=> Owns(q)
             /\ pc[q] = "store" => obj'[f][held[q]].state = obj[f][held[q]].state
  BY <1>1, TypeParts DEF Owns, ControlOK
<1>3. streams[f] # None => obj'[f][streams[f]].state = obj[f][streams[f]].state
  BY TypeParts
<1> QED
  BY <1>1, <1>2, <1>3 DEF LifeAt

\* A goroutine that has no object of its own before the step and after it, and
\* no object opened or closed.
LEMMA LifeKept ==
    ASSUME TypeInv, NEW e \in End, NEW p \in {Recv(e), Handler(e)}, NEW l,
           pc' = [pc EXCEPT ![p] = l], \A q \in Proc : q # p => held'[q] = held[q],
           ~Owns(p), l \notin {"store", "removed"}, UNCHANGED streams,
           \A f \in End, q \in Objects : obj'[f][q].state = obj[f][q].state, LifeInv
    PROVE  LifeInv'
<1>1. ASSUME NEW f \in End PROVE LifeAt(f)'
  <2>0. LifeAt(f)
    BY LifeByEnd, TypeParts
  <2>1. CASE f # e
    BY <2>0, <2>1, OtherEndLife
  <2>2. CASE f = e
    <3>1. /\ \A q \in {Recv(e), Handler(e)} : q # p => pc'[q] = pc[q] /\ held'[q] = held[q]
          /\ pc'[Main(e)] = pc[Main(e)] /\ ~Owns(p)'
      BY ProcFacts, TypeParts DEF Owns
    <3>2. ASSUME NEW q \in {Recv(e), Handler(e)}
          PROVE  /\ Owns(q)' <=> Owns(q)
                 /\ Owns(q) => held'[q] = held[q]
                 /\ Owns(q) => pc'[q] = pc[q]
                 /\ Owns(q) => obj'[e][held[q]].state = obj[e][held[q]].state
      BY <3>1, TypeParts DEF Owns, ControlOK
    <3>3. streams[e] # None => obj'[e][streams[e]].state = obj[e][streams[e]].state
      BY TypeParts
    <3>4. ASSUME NEW q \in {Recv(e), Handler(e)}, pc'[q] = "store"
          PROVE  Owns(q) /\ pc[q] = "store" /\ held'[q] = held[q]
      BY <3>2, <3>4 DEF Owns
    <3> QED
      BY <2>0, <2>2, <3>1, <3>2, <3>3, <3>4 DEF LifeAt
  <2> QED
    BY <2>1, <2>2
<1> QED
  BY <1>1, LifeFromEnds

\* Load: a fresh object is nobody else's.
LEMMA LoadLife ==
    ASSUME TypeInv, LifeInv, NEW e \in End, NEW p \in {Recv(e), Handler(e)},
           Load(p), ~Owns(p), UNCHANGED streams
    PROVE  LifeInv'
<1>1. p \in Proc
  BY ProcFacts
<1>2. CASE streams[e] # None
  <2>1. /\ UNCHANGED obj /\ held' = [held EXCEPT ![p] = streams[e]]
        /\ pc' = [pc EXCEPT ![p] = "use"]
    BY <1>2, LoadStep, TypeParts
  <2>2. \A q \in Proc : q # p => held'[q] = held[q]
    BY <2>1, TypeParts
  <2>3. "use" \notin {"store", "removed"}
    OBVIOUS
  <2> QED
    BY <2>1, <2>2, <2>3, LifeKept
<1>3. CASE streams[e] = None
  <2>1. PICK o \in Objects :
          /\ streams[e] = None /\ obj[e][o].state = "unborn"
          /\ obj'[e][o].state = "open"
          /\ \A f \in End, q \in Objects :
               f # e \/ q # o => obj'[f][q].state = obj[f][q].state
          /\ held' = [held EXCEPT ![p] = o]
          /\ pc' = [pc EXCEPT ![p] = "store"]
    <3>1. TypeOK
      BY TypeParts
    <3> QED
      BY <1>3, <3>1, LoadStep, Zenon
  <2>2. /\ \A q \in Proc : q # p => held'[q] = held[q]
        /\ held'[p] = o /\ pc'[p] = "store"
    BY <1>1, <2>1, TypeParts
  <2>3. ASSUME NEW f \in End PROVE LifeAt(f)'
    <3>0. LifeAt(f)
      BY LifeByEnd, TypeParts
    <3>1. CASE f # e
      BY <2>1, <2>2, <3>0, <3>1, OtherEndLife
    <3>2. CASE f = e
      <4>1. ASSUME NEW q \in {Recv(e), Handler(e)}, q # p
            PROVE  /\ pc'[q] = pc[q] /\ held'[q] = held[q]
                   /\ Owns(q)' <=> Owns(q)
                   /\ Owns(q) => /\ held[q] \in Objects /\ held[q] # o
                                 /\ obj'[e][held[q]].state = obj[e][held[q]].state
        <5>1. pc'[q] = pc[q] /\ held'[q] = held[q]
          BY <2>1, <2>2, <4>1, ProcFacts, TypeParts
        <5>2. Owns(q) => held[q] \in Objects /\ obj[e][held[q]].state # "unborn"
          BY TypeParts DEF Owns, ControlOK
        <5> QED
          BY <2>1, <5>1, <5>2 DEF Owns
      <4>2. ASSUME NEW q \in {Recv(e), Handler(e)}
            PROVE  /\ Owns(q)' => held'[q] # streams'[e]
                   /\ pc'[q] = "store" => obj'[e][held'[q]].state = "open"
        <5>1. CASE q = p
          BY <1>3, <2>1, <2>2, <5>1, NoneIsNoObject
        <5>2. CASE q # p
          BY <3>0, <3>2, <4>1, <5>2 DEF LifeAt, Owns
        <5> QED
          BY <5>1, <5>2
      <4>3. ASSUME NEW q \in {Recv(e), Handler(e)}, NEW u \in {Recv(e), Handler(e)},
                   q # u, Owns(q)', Owns(u)'
            PROVE  held'[q] # held'[u]
        BY <2>2, <4>1, <4>3
      <4>4. ASSUME NEW x \in Objects, obj'[e][x].state = "open"
            PROVE  \E q \in {Recv(e), Handler(e)} : Owns(q)' /\ held'[q] = x
        <5>1. CASE x = o
          BY <2>2, <5>1 DEF Owns
        <5>2. CASE x # o
          <6>1. PICK q \in {Recv(e), Handler(e)} : Owns(q) /\ held[q] = x
            BY <1>3, <2>1, <3>0, <3>2, <4>4, <5>2, NoneIsNoObject DEF LifeAt
          <6> QED
            BY <4>1, <6>1
        <5> QED
          BY <5>1, <5>2
      <4> QED
        BY <1>3, <3>2, <4>2, <4>3, <4>4 DEF LifeAt
    <3> QED
      BY <3>1, <3>2
  <2> QED
    BY <2>3, LifeFromEnds
<1> QED
  BY <1>2, <1>3

\* LoadOrStore: the object goes into the map or is closed, and belongs to
\* nobody else.
LEMMA LoadOrStoreLife ==
    ASSUME TypeInv, LifeInv, NEW e \in End, NEW p \in {Recv(e), Handler(e)},
           LoadOrStore(p)
    PROVE  LifeInv'
<1>1. /\ p \in Proc /\ pc[p] = "store" /\ pc' = [pc EXCEPT ![p] = "use"]
      /\ held[p] \in Objects
  BY ProcFacts, LoadOrStoreStep, TypeParts
<1>2. /\ \A q \in Proc : q # p => held'[q] = held[q]
      /\ \A f \in End : f # e => streams'[f] = streams[f]
      /\ \A f \in End, q \in Objects :
           f # e \/ q # held[p] => obj'[f][q].state = obj[f][q].state
      /\ \/ streams[e] = None /\ streams'[e] = held[p] /\ UNCHANGED obj
         \/ /\ streams[e] # None /\ streams'[e] = streams[e]
            /\ obj'[e][held[p]].state = "closed"
  <2>1. CASE streams[e] = None
    <3>1. UNCHANGED <<obj, held>> /\ streams' = [streams EXCEPT ![e] = held[p]]
      BY <2>1, LoadOrStoreStep, TypeParts
    <3> QED
      BY <2>1, <3>1, TypeParts
  <2>2. CASE streams[e] # None
    <3>1. /\ UNCHANGED streams /\ held' = [held EXCEPT ![p] = streams[e]]
          /\ obj'[e][held[p]].state = "closed"
          /\ \A f \in End, q \in Objects :
               f # e \/ q # held[p] => obj'[f][q].state = obj[f][q].state
      BY <2>2, LoadOrStoreStep, TypeParts
    <3> QED
      BY <2>2, <3>1, TypeParts
  <2> QED
    BY <2>1, <2>2
<1>3. ASSUME NEW f \in End PROVE LifeAt(f)'
  <2>0. LifeAt(f)
    BY LifeByEnd, TypeParts
  <2>1. CASE f # e
    BY <1>1, <1>2, <2>0, <2>1, OtherEndLife
  <2>2. CASE f = e
    <3>1. /\ pc'[p] = "use" /\ ~Owns(p)' /\ Owns(p) /\ held[p] # streams[e]
          /\ obj[e][held[p]].state = "open" /\ pc'[Main(e)] = pc[Main(e)]
      BY <1>1, <2>0, <2>2, ProcFacts, TypeParts DEF Owns, LifeAt
    <3>2. ASSUME NEW q \in {Recv(e), Handler(e)}, q # p
          PROVE  /\ pc'[q] = pc[q] /\ held'[q] = held[q]
                 /\ Owns(q)' <=> Owns(q)
                 /\ Owns(q) => /\ held[q] \in Objects /\ held[q] # held[p]
                               /\ held[q] # streams[e]
                               /\ obj'[e][held[q]].state = obj[e][held[q]].state
      <4>1. pc'[q] = pc[q] /\ held'[q] = held[q]
        BY <1>1, <1>2, <3>2, ProcFacts, TypeParts
      <4>2. Owns(q) => held[q] \in Objects /\ held[q] # held[p] /\ held[q] # streams[e]
        BY <2>0, <2>2, <3>1, <3>2, TypeParts DEF Owns, ControlOK, LifeAt
      <4> QED
        BY <1>2, <4>1, <4>2 DEF Owns
    <3>3. ASSUME NEW q \in {Recv(e), Handler(e)}
          PROVE  /\ Owns(q)' => held'[q] # streams'[e]
                 /\ pc'[q] = "store" => obj'[e][held'[q]].state = "open"
      <4>1. CASE q = p
        BY <3>1, <4>1
      <4>2. CASE q # p
        BY <1>2, <2>0, <2>2, <3>2, <4>2 DEF LifeAt, Owns
      <4> QED
        BY <4>1, <4>2
    <3>4. ASSUME NEW q \in {Recv(e), Handler(e)}, NEW u \in {Recv(e), Handler(e)},
                 q # u, Owns(q)', Owns(u)'
          PROVE  held'[q] # held'[u]
      BY <2>0, <2>2, <3>1, <3>2, <3>4 DEF LifeAt
    <3>5. ASSUME NEW x \in Objects, obj'[e][x].state = "open", streams'[e] # x
          PROVE  \E q \in {Recv(e), Handler(e)} : Owns(q)' /\ held'[q] = x
      <4>1. x # held[p] /\ obj[e][x].state = "open" /\ streams[e] # x
        BY <1>2, <3>5, NoneIsNoObject
      <4>2. PICK q \in {Recv(e), Handler(e)} : Owns(q) /\ held[q] = x
        BY <2>0, <2>2, <4>1 DEF LifeAt
      <4> QED
        BY <3>2, <4>1, <4>2
    <3>6. streams'[e] # None /\ pc'[Main(e)] = "idle" => obj'[e][streams'[e]].state = "open"
      <4>1. streams[e] # None => streams[e] \in Objects
        BY TypeParts
      <4> QED
        BY <1>2, <2>0, <2>2, <3>1, <4>1 DEF LifeAt
    <3> QED
      BY <2>2, <3>3, <3>4, <3>5, <3>6 DEF LifeAt
  <2> QED
    BY <2>1, <2>2
<1> QED
  BY <1>3, LifeFromEnds

\* RemoveStream: the stream passes from the map into the hands of the one who
\* closes it.
LEMMA RemoveLife ==
    ASSUME TypeInv, LifeInv, NEW e \in End, NEW p \in {Recv(e), Handler(e)},
           NEW next \in {"idle", "done"}, RemoveStream(p, next)
    PROVE  LifeInv'
<1>1. p \in Proc
  BY ProcFacts
<1>2. CASE pc[p] = "remove"
  <2>1. /\ UNCHANGED obj /\ held' = [held EXCEPT ![p] = streams[e]]
        /\ streams' = [streams EXCEPT ![e] = None]
        /\ pc' = [pc EXCEPT ![p] = IF streams[e] = None THEN next ELSE "removed"]
    BY <1>2, RemoveStep, TypeParts
  <2>2. /\ \A q \in Proc : q # p => held'[q] = held[q]
        /\ held'[p] = streams[e] /\ streams'[e] = None
        /\ \A f \in End : f # e => streams'[f] = streams[f]
    BY <1>1, <2>1, TypeParts
  <2>3. ~Owns(p)
    BY <1>2 DEF Owns
  <2>4. CASE streams[e] = None
    <3>1. UNCHANGED streams
      BY <2>1, <2>4, TypeParts
    <3>2. pc' = [pc EXCEPT ![p] = next] /\ next \notin {"store", "removed"}
      BY <2>1, <2>4
    <3> QED
      BY <2>1, <2>2, <2>3, <3>1, <3>2, LifeKept
  <2>5. CASE streams[e] # None
    <3>1. pc' = [pc EXCEPT ![p] = "removed"]
      BY <2>1, <2>5
    <3>2. ASSUME NEW f \in End PROVE LifeAt(f)'
      <4>0. LifeAt(f)
        BY LifeByEnd, TypeParts
      <4>1. CASE f # e
        <5>1. \A q \in Objects : obj'[f][q].state = obj[f][q].state
          BY <2>1
        <5>2. streams'[f] = streams[f]
          BY <2>2, <4>1
        <5>3. p \in {Recv(e), Handler(e), Main(e)}
          OBVIOUS
        <5> QED
          BY <2>2, <3>1, <4>0, <4>1, <5>1, <5>2, <5>3, OtherEndLife
      <4>2. CASE f = e
        <5>1. pc'[p] = "removed" /\ Owns(p)'
          BY <1>1, <3>1, TypeParts DEF Owns
        <5>2. ASSUME NEW q \in {Recv(e), Handler(e)}, q # p
              PROVE  /\ pc'[q] = pc[q] /\ held'[q] = held[q] /\ (Owns(q)' <=> Owns(q))
                     /\ Owns(q) => held[q] # None
          <6>1. pc'[q] = pc[q]
            BY <3>1, <5>2, ProcFacts, TypeParts
          <6>2. Owns(q) => held[q] \in Objects
            BY TypeParts DEF Owns, ControlOK
          <6> QED
            BY <2>2, <5>2, <6>1, <6>2, ProcFacts, NoneIsNoObject DEF Owns
        <5>3. ASSUME NEW q \in {Recv(e), Handler(e)}
              PROVE  /\ Owns(q)' => held'[q] # streams'[e]
                     /\ pc'[q] = "store" => obj'[e][held'[q]].state = "open"
          BY <2>1, <2>2, <2>5, <4>0, <4>2, <5>1, <5>2 DEF LifeAt
        <5>4. ASSUME NEW q \in {Recv(e), Handler(e)}, NEW u \in {Recv(e), Handler(e)},
                     q # u, Owns(q)', Owns(u)'
              PROVE  held'[q] # held'[u]
          BY <2>2, <4>0, <4>2, <5>2, <5>4 DEF LifeAt
        <5>5. ASSUME NEW x \in Objects, obj'[e][x].state = "open"
              PROVE  \E q \in {Recv(e), Handler(e)} : Owns(q)' /\ held'[q] = x
          <6>1. CASE x = streams[e]
            BY <2>2, <5>1, <6>1
          <6>2. CASE x # streams[e]
            <7>1. PICK q \in {Recv(e), Handler(e)} : Owns(q) /\ held[q] = x
              BY <2>1, <4>0, <4>2, <5>5, <6>2 DEF LifeAt
            <7> QED
              BY <2>3, <5>2, <7>1
          <6> QED
            BY <6>1, <6>2
        <5> QED
          BY <2>2, <4>2, <5>3, <5>4, <5>5 DEF LifeAt
      <4> QED
        BY <4>1, <4>2
    <3> QED
      BY <3>2, LifeFromEnds
  <2> QED
    BY <2>4, <2>5
<1>3. CASE pc[p] = "removed"
  <2>1. /\ UNCHANGED <<streams, held>> /\ held[p] \in Objects
        /\ obj'[e][held[p]].state = "closed"
        /\ \A f \in End, q \in Objects :
             f # e \/ q # held[p] => obj'[f][q].state = obj[f][q].state
        /\ pc' = [pc EXCEPT ![p] = next]
    BY <1>3, RemoveStep, TypeParts
  <2>2. ASSUME NEW f \in End PROVE LifeAt(f)'
    <3>0. LifeAt(f)
      BY LifeByEnd, TypeParts
    <3>1. CASE f # e
      BY <2>1, <3>0, <3>1, OtherEndLife
    <3>2. CASE f = e
      <4>1. /\ pc'[p] = next /\ ~Owns(p)' /\ Owns(p) /\ held[p] # streams[e]
            /\ pc'[Main(e)] = pc[Main(e)]
        BY <1>1, <1>3, <2>1, <3>0, <3>2, ProcFacts, TypeParts DEF Owns, LifeAt
      <4>2. ASSUME NEW q \in {Recv(e), Handler(e)}, q # p
            PROVE  /\ pc'[q] = pc[q] /\ (Owns(q)' <=> Owns(q))
                   /\ Owns(q) => /\ held[q] \in Objects /\ held[q] # held[p]
                                 /\ obj'[e][held[q]].state = obj[e][held[q]].state
        <5>1. pc'[q] = pc[q]
          BY <2>1, <4>2, ProcFacts, TypeParts
        <5>2. Owns(q) => held[q] \in Objects /\ held[q] # held[p]
          BY <3>0, <3>2, <4>1, <4>2, TypeParts DEF Owns, ControlOK, LifeAt
        <5> QED
          BY <2>1, <5>1, <5>2 DEF Owns
      <4>3. ASSUME NEW q \in {Recv(e), Handler(e)}
            PROVE  /\ Owns(q)' => held'[q] # streams'[e]
                   /\ pc'[q] = "store" => obj'[e][held'[q]].state = "open"
        <5>1. CASE q = p
          BY <4>1, <5>1
        <5>2. CASE q # p
          BY <2>1, <3>0, <3>2, <4>2, <5>2 DEF LifeAt, Owns
        <5> QED
          BY <5>1, <5>2
      <4>4. ASSUME NEW q \in {Recv(e), Handler(e)}, NEW u \in {Recv(e), Handler(e)},
                   q # u, Owns(q)', Owns(u)'
            PROVE  held'[q] # held'[u]
        BY <2>1, <3>0, <3>2, <4>1, <4>2, <4>4 DEF LifeAt
      <4>5. ASSUME NEW x \in Objects, obj'[e][x].state = "open", streams'[e] # x
            PROVE  \E q \in {Recv(e), Handler(e)} : Owns(q)' /\ held'[q] = x
        <5>1. x # held[p] /\ obj[e][x].state = "open" /\ streams[e] # x
          BY <2>1, <4>5
        <5>2. PICK q \in {Recv(e), Handler(e)} : Owns(q) /\ held[q] = x
          BY <3>0, <3>2, <5>1 DEF LifeAt
        <5> QED
          BY <2>1, <4>2, <5>1, <5>2
      <4>6. streams'[e] # None /\ pc'[Main(e)] = "idle" => obj'[e][streams'[e]].state = "open"
        <5>1. streams[e] # None => streams[e] \in Objects
          BY TypeParts
        <5> QED
          BY <2>1, <3>0, <3>2, <4>1, <5>1 DEF LifeAt
      <4> QED
        BY <3>2, <4>3, <4>4, <4>5, <4>6 DEF LifeAt
    <3> QED
      BY <3>1, <3>2
  <2> QED
    BY <2>2, LifeFromEnds
<1> QED
  BY <1>2, <1>3 DEF RemoveStream

\* Shutdown closes what is in the map, which nobody else has in hand.
LEMMA ShutdownLife ==
    ASSUME TypeInv, LifeInv, NEW e \in End, Shutdown(e)
    PROVE  LifeInv'
<1>1. /\ UNCHANGED <<streams, held>> /\ pc' = [pc EXCEPT ![Main(e)] = "done"]
      /\ \A f \in End, q \in Objects :
           f # e \/ q # streams[e] => obj'[f][q].state = obj[f][q].state
  BY ShutdownStep, TypeParts
<1>2. ASSUME NEW f \in End PROVE LifeAt(f)'
  <2>0. LifeAt(f)
    BY LifeByEnd, TypeParts
  <2>1. CASE f # e
    BY <1>1, <2>0, <2>1, OtherEndLife
  <2>2. CASE f = e
    <3>1. pc'[Main(e)] # "idle"
      BY <1>1, ProcFacts, TypeParts
    <3>2. ASSUME NEW q \in {Recv(e), Handler(e)}
          PROVE  /\ pc'[q] = pc[q] /\ (Owns(q)' <=> Owns(q))
                 /\ Owns(q) => obj'[e][held[q]].state = obj[e][held[q]].state
      <4>1. pc'[q] = pc[q]
        BY <1>1, ProcFacts, TypeParts
      <4>2. Owns(q) => held[q] \in Objects /\ held[q] # streams[e]
        BY <2>0, <2>2, TypeParts DEF Owns, ControlOK, LifeAt
      <4> QED
        BY <1>1, <4>1, <4>2 DEF Owns
    <3>3. ASSUME NEW q \in {Recv(e), Handler(e)}, pc'[q] = "store"
          PROVE  Owns(q) /\ pc[q] = "store"
      BY <3>2, <3>3 DEF Owns
    <3>4. ASSUME NEW x \in Objects, obj'[e][x].state = "open", streams'[e] # x
          PROVE  \E q \in {Recv(e), Handler(e)} : Owns(q)' /\ held'[q] = x
      <4>1. obj[e][x].state = "open" /\ streams[e] # x
        BY <1>1, <3>4
      <4> QED
        BY <1>1, <2>0, <2>2, <3>2, <4>1 DEF LifeAt
    <3> QED
      BY <1>1, <2>0, <2>2, <3>1, <3>2, <3>3, <3>4 DEF LifeAt
  <2> QED
    BY <2>1, <2>2
<1> QED
  BY <1>2, LifeFromEnds

\* Every step leaves no object behind.
LEMMA NextLife ==
    ASSUME TypeInv, LifeInv, [Next]_vars
    PROVE  LifeInv'
<1>1. CASE UNCHANGED vars
  <2>1. UNCHANGED <<obj, streams, pc, held>>
    BY <1>1 DEF vars
  <2> QED
    BY <2>1 DEF LifeInv, Owners, Owns, NoOrphan, MapHoldsOpen
<1>2. CASE Next
  <2>1. PICK e \in End :
        \/ Arrive(e) \/ Receive(e) \/ RemoveStream(Recv(e), "idle")
        \/ StartSend(e) \/ Send(e) \/ StartClose(e) \/ SendClose(e)
        \/ Finish(e) \/ RemoveStream(Handler(e), "done") \/ Shutdown(e)
        \/ Lose(e)
        \/ \E p \in {Recv(e), Handler(e)} : LoadOrStore(p)
        \/ \E o \in Objects : \E p \in obj[e][o].unacked : Retransmit(e, o, p)
    BY <1>2 DEF Next
  <2>2. CASE Arrive(e)
    BY <2>2, LoadLife DEF Arrive, Owns
  <2>3. CASE StartSend(e)
    BY <2>3, LoadLife DEF StartSend, Active, Owns
  <2>4. CASE Receive(e)
    <3> DEFINE o == held[Recv(e)]
    <3>1. PICK l \in {"idle", "remove"} : pc' = [pc EXCEPT ![Recv(e)] = l]
      BY <2>4, ReceiveStep
    <3>2. PICK t \in Object : Wrote(e, o, t) /\ t.state = obj[e][o].state
      BY <2>4, ReceiveStep
    <3>3. \A f \in End, q \in Objects : obj'[f][q].state = obj[f][q].state
      BY <3>2 DEF Wrote
    <3>4. UNCHANGED <<streams, held>> /\ ~Owns(Recv(e)) /\ l \notin {"store", "removed"}
      BY <2>4 DEF Receive, Owns
    <3> QED
      BY <3>1, <3>3, <3>4, LifeKept
  <2>5. CASE Send(e)
    <3> DEFINE o == held[Handler(e)]
               r == obj[e][o]
               p == DataOf(e, r)
    <3>1. PICK l \in {"idle", "done"} : pc' = [pc EXCEPT ![Handler(e)] = l]
      BY <2>5, SendStep
    <3>2. \A f \in End, q \in Objects : obj'[f][q].state = obj[f][q].state
      <4>1. CASE UNCHANGED obj
        BY <4>1
      <4>2. CASE o \in Objects /\ r \in Object /\ p \in Packet /\ Wrote(e, o, Stored(r, p))
        <5>1. Stored(r, p).state = r.state
          BY <4>2, StoredFacts
        <5> HIDE DEF p
        <5> QED
          BY <4>2, <5>1 DEF Wrote
      <4> QED
        BY <2>5, <4>1, <4>2, SendStep
    <3>3. UNCHANGED <<streams, held>> /\ ~Owns(Handler(e)) /\ l \notin {"store", "removed"}
      BY <2>5 DEF Send, Owns
    <3> QED
      BY <3>1, <3>2, <3>3, LifeKept
  <2>6. CASE SendClose(e)
    <3> DEFINE o == held[Handler(e)]
               r == obj[e][o]
               p == CloseOf(r)
    <3>1. pc' = [pc EXCEPT ![Handler(e)] = "idle"]
      BY <2>6, SendCloseStep
    <3>2. \A f \in End, q \in Objects : obj'[f][q].state = obj[f][q].state
      <4>1. CASE UNCHANGED obj
        BY <4>1
      <4>2. CASE o \in Objects /\ r \in Object /\ p \in Packet /\ Wrote(e, o, Stored(r, p))
        <5>1. Stored(r, p).state = r.state
          BY <4>2, StoredFacts
        <5> HIDE DEF p
        <5> QED
          BY <4>2, <5>1 DEF Wrote
      <4> QED
        BY <2>6, <4>1, <4>2, SendCloseStep
    <3>3. UNCHANGED <<streams, held>> /\ ~Owns(Handler(e)) /\ "idle" \notin {"store", "removed"}
      BY <2>6 DEF SendClose, Owns
    <3> QED
      BY <3>1, <3>2, <3>3, LifeKept
  <2>7. CASE StartClose(e) \/ Finish(e)
    <3>1. /\ UNCHANGED <<obj, streams>> /\ ~Owns(Handler(e))
          /\ \E l \in {"idle", "close", "remove"} : pc' = [pc EXCEPT ![Handler(e)] = l]
          /\ \A q \in Proc : q # Handler(e) => held'[q] = held[q]
      BY <2>7, TypeParts DEF StartClose, Finish, Goto, Active, Owns
    <3>2. PICK l \in {"idle", "close", "remove"} : pc' = [pc EXCEPT ![Handler(e)] = l]
      BY <3>1
    <3>3. l \notin {"store", "removed"}
      OBVIOUS
    <3> QED
      BY <3>1, <3>2, <3>3, LifeKept
  <2>8. CASE \/ Lose(e)
             \/ \E o \in Objects : \E p \in obj[e][o].unacked : Retransmit(e, o, p)
    <3>1. UNCHANGED <<obj, streams, pc, held>>
      BY <2>8 DEF Lose, Retransmit
    <3> QED
      BY <3>1 DEF LifeInv, Owners, Owns, NoOrphan, MapHoldsOpen
  <2> QED
    BY <2>1, <2>2, <2>3, <2>4, <2>5, <2>6, <2>7, <2>8,
       RemoveLife, LoadOrStoreLife, ShutdownLife
<1> QED
  BY <1>1, <1>2

-----------------------------------------------------------------------------
(***************************************************************************)
(* The theorems.                                                           *)
(***************************************************************************)

\* The invariant holds at the start.
LEMMA InitInv == Init => Inv
<1> SUFFICES ASSUME Init PROVE Inv
  OBVIOUS
<1>1. Unborn \in Object /\ NoPacket \in Packet
  BY DEF Unborn, Object, NoPacket, Packet
<1>2. \A e \in End, o \in Objects : obj[e][o] = Unborn
  BY DEF Init
<1>3. TypeOK
  <2>1. obj \in [End -> [Objects -> Object]]
    BY <1>1 DEF Init
  <2>2. /\ streams \in [End -> Objects \cup {None}]
        /\ \A e \in End : streams[e] = None
    BY DEF Init
  <2>3. packet \in [End -> Packet] /\ net \in [End -> Seq(Packet)]
    BY <1>1 DEF Init
  <2>4. sent \in [End -> Nat] /\ got \in [End -> Seq(Nat)]
    BY DEF Init
  <2>5. ended \in [End -> BOOLEAN] /\ removed \in [End -> BOOLEAN]
    BY DEF Init
  <2>6. faults \in 0 .. MaxFaults
    BY TableAssumption DEF Init
  <2>7. DOMAIN pc = Proc /\ held \in [Proc -> Objects \cup {None}]
    BY DEF Init
  <2> QED
    BY <2>1, <2>2, <2>3, <2>4, <2>5, <2>6, <2>7 DEF TypeOK
<1>4. \A p \in Proc : pc[p] = "idle"
  BY DEF Init
<1>5. \A e \in End : pc[Recv(e)] = "idle" /\ pc[Handler(e)] = "idle" /\ pc[Main(e)] = "idle"
  BY <1>4, ProcFacts
<1>6. ControlOK
  BY <1>4, <1>5, <1>3 DEF ControlOK, Label, Init
<1>7. \A e \in End : \A s, c \in Nat : ~Numbered(e, s, c)
  <2>1. ASSUME NEW e \in End, NEW x \in Packet, x.kind = "data" PROVE ~OnItsWay(e, x)
    <3>1. Len(net[e]) = 0 /\ packet[e] = NoPacket /\ Peer(e) \in End
      BY EndFacts DEF Init
    <3>2. NoPacket.kind # "data" /\ Unborn.unacked = {}
      BY DEF NoPacket, Unborn
    <3>3. 1 .. Len(net[e]) = {}
      BY <3>1
    <3> QED
      BY <1>2, <2>1, <3>1, <3>2, <3>3 DEF OnItsWay
  <2>2. \A e \in End, o \in Objects : obj[e][o].outOfOrder = {}
    BY <1>2 DEF Unborn
  <2>3. \A e \in End : 1 .. Len(got[e]) = {}
    BY DEF Init
  <2> QED
    BY <2>1, <2>2, <2>3 DEF Numbered
<1>8. SentFirst
  <2>1. \A e \in End, o \in Objects : obj[e][o].sendSeq = 0 /\ sent[e] = 0
    BY <1>2 DEF Unborn, Init
  <2>2. \A e \in End, o \in Objects : obj[e][o].sendSeq <= sent[e]
    BY <2>1
  <2> QED
    BY <1>5, <1>7, <2>2 DEF SentFirst
<1>9. OneNumber
  BY <1>7 DEF OneNumber
<1>10. OneObject
  <2>1. ASSUME NEW e \in End
        PROVE  /\ \A o \in Objects : obj[e][o].recvNext = 0
               /\ streams[e] = None /\ got[e] = <<>>
    BY <1>2 DEF Unborn, Init
  <2> QED
    BY <1>5, <2>1, NoneIsNoObject DEF OneObject
<1>11. LifeInv
  <2>1. \A e \in End : streams[e] = None
    BY DEF Init
  <2>2. \A e \in End, o \in Objects : obj[e][o].state # "open"
    BY <1>2 DEF Unborn
  <2> QED
    BY <1>5, <2>1, <2>2 DEF LifeInv, Owners, Owns, NoOrphan, MapHoldsOpen
<1> QED
  BY <1>3, <1>6, <1>8, <1>9, <1>10, <1>11 DEF Inv, TypeInv

\* The invariant holds always.
LEMMA SpecInv == Spec => []Inv
<1>1. Inv /\ [Next]_vars => Inv'
  BY NextTypeInv, NextOneNumber, NextOneObject, NextLife DEF Inv
<1> QED
  BY InitInv, <1>1, PTL DEF Spec

\* The variables of ReliableManager, and of the streams in its map, keep their
\* types, however the two goroutines of an end meet in GetOrCreateStream and
\* RemoveStream.
THEOREM TypeCorrect == Spec => []TypeOK
<1>1. Inv => TypeOK
  BY DEF Inv, TypeInv
<1> QED
  BY SpecInv, <1>1, PTL

\* However the receive loop and the handler race in GetOrCreateStream and
\* RemoveStream, an object that still runs is in the map, or a goroutine is
\* about to store it or to close it: no retransmission goroutine is leaked.
THEOREM NothingLeaked == Spec => []NoOrphan
<1>1. Inv => NoOrphan
  BY DEF Inv, LifeInv
<1> QED
  BY SpecInv, <1>1, PTL

\* Until the program is shut down the map holds no closed stream, so that
\* GetOrCreateStream returns none.
THEOREM OpenInMap == Spec => []MapHoldsOpen
<1>1. Inv => MapHoldsOpen
  BY DEF Inv, LifeInv
<1> QED
  BY SpecInv, <1>1, PTL

\* For any number of chunks, objects, losses and retransmissions: an end that
\* has not removed its stream hands no chunk to its application twice, even
\* when the peer goes on with a fresh object whose numbers begin again.
THEOREM NothingTwice == Spec => []HandedOnce
<1>1. ASSUME Inv PROVE HandedOnce
  <2>0. TypeInv /\ OneNumber
    BY <1>1 DEF Inv
  <2>1. ASSUME NEW e \in End, ~removed[e],
               NEW i \in 1 .. Len(got[e]), NEW j \in 1 .. Len(got[e]),
               got[e][i] = got[e][j]
        PROVE  i = j
    <3>1. got[e] \in Seq(Nat)
      BY <2>0, TypeParts
    <3>2. i \in Nat /\ j \in Nat /\ i - 1 \in Nat /\ j - 1 \in Nat
          /\ (i - 1) + 1 = i /\ (j - 1) + 1 = j
      BY <3>1
    <3>3. got[e][i] \in Nat
      BY <3>1
    <3>4. Numbered(e, i - 1, got[e][i]) /\ Numbered(e, j - 1, got[e][i])
      BY <2>1, <3>2 DEF Numbered
    <3>5. i - 1 = j - 1
      BY <2>0, <3>2, <3>3, <3>4 DEF OneNumber
    <3> QED
      BY <3>2, <3>5
  <2> QED
    BY <2>1 DEF HandedOnce
<1> QED
  BY SpecInv, <1>1, PTL
=============================================================================
