------------------------------ MODULE GreCodec ------------------------------
(***************************************************************************)
(* The GRE header (pkg/gre/gre.go).  A packet on the wire is a sequence of *)
(* numbers, one for each header field and one for each byte of the         *)
(* payload.  A field cut off in the middle is missing for the parser, so a *)
(* sequence of whole fields shows every case.                              *)
(***************************************************************************)
EXTENDS Integers, Sequences

FlagChecksum == 32768
FlagKey      == 8192
FlagSequence == 4096
EtherTypeTransparentEthernet == 25944
MinHeaderSize == 2  \* Flags and ProtocolType

Has(flags, flag) == (flags \div flag) % 2 = 1
Field(present, s) == IF present THEN s ELSE <<>>

\* HeaderSize and Header.Marshal.
HeaderFields(h) ==
    <<h.flags, h.protocol>>
    \o Field(Has(h.flags, FlagChecksum), <<h.checksum, h.reserved>>)
    \o Field(Has(h.flags, FlagKey), <<h.key>>)
    \o Field(Has(h.flags, FlagSequence), <<h.sequence>>)

NewPacket(key, payload) ==
    [header |-> [flags |-> FlagKey, protocol |-> EtherTypeTransparentEthernet,
                 checksum |-> 0, reserved |-> 0, key |-> key, sequence |-> 0],
     payload |-> payload]

\* Packet.Marshal and MarshalTo.
MarshalGre(p) == HeaderFields(p.header) \o p.payload

\* The position of the key, of the sequence number and of the payload, for
\* the flags in front.
KeyAt(w)      == MinHeaderSize + (IF Has(w[1], FlagChecksum) THEN 3 ELSE 1)
SequenceAt(w) == KeyAt(w) + (IF Has(w[1], FlagKey) THEN 1 ELSE 0)
PayloadAt(w)  == SequenceAt(w) + (IF Has(w[1], FlagSequence) THEN 1 ELSE 0)

\* Unmarshal returns no error: not too short, and version 0.
IsGre(w) ==
    /\ Len(w) >= MinHeaderSize
    /\ w[1] % 8 = 0
    /\ Len(w) >= PayloadAt(w) - 1

\* The Key field of Unmarshal's header, zero when the packet has none.
KeyOf(w) == IF Has(w[1], FlagKey) THEN w[KeyAt(w)] ELSE 0

\* The payload of UnmarshalPacket.
PayloadOf(w) == SubSeq(w, PayloadAt(w), Len(w))
=============================================================================
