-------------------------- MODULE MCReliableStream --------------------------
(***************************************************************************)
(* ReliableStream for TLC: values of MaxSend, the number of sequence       *)
(* numbers each writer may use.                                            *)
(***************************************************************************)
EXTENDS ReliableStream

Transfer(up, down) == [e \in End |-> IF e = "client" THEN up ELSE down]

Upload3 == Transfer(3, 0)
Upload9 == Transfer(9, 0)
ThreeUpOneDown == Transfer(3, 1)
=============================================================================
