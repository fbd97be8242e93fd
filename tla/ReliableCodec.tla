--------------------------- MODULE ReliableCodec ---------------------------
(***************************************************************************)
(* The packet format of the reliable layer (pkg/tunnel/reliable.go),       *)
(* written as GreCodec is: one number for each header field, one for each  *)
(* byte of the data.                                                       *)
(***************************************************************************)
EXTENDS GreCodec

CONSTANT MaxSackBlocks

FlagData  == 1
FlagAck   == 2
FlagClose == 4
FlagSack  == 16
ReliableHeaderSize == 3  \* StreamID, Flags and Seq
ByteSpace == 256

\* The count of blocks fits its byte.
ASSUME CodecAssumption == MaxSackBlocks \in Nat /\ MaxSackBlocks < ByteSpace

Block == [left : Nat, right : Nat]
ReliablePacket ==
    [streamID : Nat, flags : 0 .. (ByteSpace - 1), seq : Nat, ack : Nat,
     sack : Seq(Block), data : Seq(Nat)]

\* A packet as Send, SendClose and the two functions that send an ACK build
\* it: Ack and SackBlocks are only set together with their flag, and
\* buildSackBlocks makes no more than MaxSackBlocks.
Built(p) ==
    /\ Has(p.flags, FlagAck) \/ p.ack = 0
    /\ Has(p.flags, FlagSack) \/ p.sack = <<>>
    /\ Len(p.sack) <= MaxSackBlocks

BlockFields(blocks) ==
    [i \in 1 .. 2 * Len(blocks) |->
        LET b == blocks[(i + 1) \div 2]
        IN  IF i % 2 = 1 THEN b.left ELSE b.right]

\* HeaderSize, Marshal and MarshalTo.
MarshalReliable(p) ==
    <<p.streamID, p.flags, p.seq>>
    \o Field(Has(p.flags, FlagAck), <<p.ack>>)
    \o Field(Has(p.flags, FlagSack),
             <<Len(p.sack) % ByteSpace>> \o BlockFields(p.sack))
    \o p.data

\* Where the SACK count is if there is one, the number of blocks read (a
\* larger count leaves the rest to the data), and where the data begins.
CountAt(w) == ReliableHeaderSize + (IF Has(w[2], FlagAck) THEN 2 ELSE 1)
Count(w) ==
    LET n == w[CountAt(w)] IN IF n > MaxSackBlocks THEN MaxSackBlocks ELSE n

DataAt(w) ==
    CountAt(w) + (IF Has(w[2], FlagSack) THEN 1 + 2 * Count(w) ELSE 0)

\* UnmarshalReliable does not return ErrStreamTooShort.
IsReliable(w) ==
    /\ Len(w) >= ReliableHeaderSize
    /\ Len(w) >= CountAt(w) - 1
    /\ Has(w[2], FlagSack) => Len(w) >= CountAt(w)
    /\ Len(w) >= DataAt(w) - 1

\* The blocks that follow the count.
BlocksOf(w) ==
    IF ~Has(w[2], FlagSack) THEN <<>>
    ELSE [i \in 1 .. Count(w) |-> [left  |-> w[CountAt(w) + 2 * i - 1],
                                   right |-> w[CountAt(w) + 2 * i]]]

\* Mutant: Seq is read in front of Flags.
BugUnmarshalReliable(w) ==
    [streamID |-> w[1], flags |-> w[3], seq |-> w[2],
     ack      |-> IF Has(w[2], FlagAck) THEN w[ReliableHeaderSize + 1] ELSE 0,
     sack     |-> BlocksOf(w),
     data     |-> SubSeq(w, DataAt(w), Len(w))]

UnmarshalReliable(w) ==
    [streamID |-> w[1], flags |-> w[2], seq |-> w[3],
     ack      |-> IF Has(w[2], FlagAck) THEN w[ReliableHeaderSize + 1] ELSE 0,
     sack     |-> BlocksOf(w),
     data     |-> SubSeq(w, DataAt(w), Len(w))]
=============================================================================
