------------------------------- MODULE SeqNum -------------------------------
(***************************************************************************)
(* 32-bit sequence-number arithmetic of pkg/tunnel/reliable.go.            *)
(*                                                                         *)
(* A sequence number is a uint32; the counters sendSeq and recvNext start  *)
(* at zero and are only ever incremented, so the value of a counter that   *)
(* was incremented k times is Wire(k).  Comparisons go through the signed  *)
(* difference int32(a - b), which Diff models.  HalfSpace is 2^31 in the   *)
(* program; a small value makes wraparound happen within a few packets.    *)
(***************************************************************************)
EXTENDS Integers

CONSTANT HalfSpace

ASSUME HalfSpaceAssumption == HalfSpace \in Nat \ {0}

Space == 2 * HalfSpace

SeqNums == 0 .. (Space - 1)

\* The uint32 value of a counter that was incremented k times.
Wire(k) == k % Space

\* uint32(a + k) and uint32(a - b).
Plus(a, k) == (a + k) % Space
Offset(a, b) == (a - b) % Space

\* int32(a - b): the offset, read as a two's-complement number.
Diff(a, b) == IF Offset(a, b) < HalfSpace THEN Offset(a, b)
                                          ELSE Offset(a, b) - Space

seqLess(a, b)        == Diff(a, b) < 0
seqLessOrEqual(a, b) == Diff(a, b) <= 0
seqGreater(a, b)     == Diff(a, b) > 0
=============================================================================
