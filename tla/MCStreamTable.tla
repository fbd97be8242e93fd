--------------------------- MODULE MCStreamTable ---------------------------
(***************************************************************************)
(* StreamTable for TLC: how many chunks each application sends.            *)
(***************************************************************************)
EXTENDS StreamTable

OneUpTwoDown == [e \in End |-> IF e = "client" THEN 1 ELSE 2]
=============================================================================
