---------------------------- MODULE MCGreTunnel ----------------------------
(***************************************************************************)
(* GreTunnel for TLC: one packet of each shape, and GRE traffic that comes *)
(* close to the tunnel's.                                                  *)
(***************************************************************************)
EXTENDS GreTunnel

Pure(flags, ack) ==
    [streamID |-> 1, flags |-> flags, seq |-> 300, ack |-> ack,
     sack |-> <<>>, data |-> <<>>]

\* Data with a piggybacked ACK and two SACK blocks; a pure ACK.
DataPacket ==
    [Pure(FlagData + FlagAck + FlagSack, 7) EXCEPT
        !.sack = <<[left |-> 9, right |-> 11], [left |-> 13, right |-> 13]>>,
        !.data = <<5, 6>>]
OneEach ==
    [h \in Host |-> {IF h = "c2" THEN Pure(FlagAck, 7) ELSE DataPacket}]

Valid == MarshalReliable(DataPacket)
From(src, dst, wire) == [src |-> src, dst |-> dst, wire |-> wire]

\* From the peer: no key but its number in the sequence field, GRE version 1,
\* another key.  From elsewhere: the right key, in front of a valid packet and
\* of one that is too short.
StrayTraffic ==
    LET proto == EtherTypeTransparentEthernet
    IN  {From("server", "c1", <<FlagSequence, proto, Key>> \o Valid),
         From("c1", "server", <<FlagKey + 1, proto, Key>> \o Valid),
         From("c1", "server", <<FlagKey, proto, Key + 1>> \o Valid),
         From("other", "c1", <<FlagKey, proto, Key>> \o Valid),
         From("other", "server", <<FlagChecksum + FlagKey, proto, 0, 0, Key, 8>>)}
=============================================================================
