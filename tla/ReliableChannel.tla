--------------------------- MODULE ReliableChannel ---------------------------
(***************************************************************************)
(* What a reliable stream promises its two applications: in each direction *)
(* the chunks written by one end are read by the other in order, each      *)
(* once, and the end of the stream is reported once, after the writer      *)
(* closed it, with nothing delivered afterwards.                           *)
(*                                                                         *)
(* It promises no more: chunks may be missing when the end is reported     *)
(* (the CLOSE packet is not ordered behind the data).                      *)
(***************************************************************************)
EXTENDS Naturals, Sequences

CONSTANTS End, Peer(_)

VARIABLES
    written,    \* number of chunks each end has written
    finished,   \* has it closed its direction?
    delivered,  \* chunks handed to each end
    eof         \* was it told that the other end closed?

cvars == <<written, finished, delivered, eof>>

Init ==
    /\ written = [e \in End |-> 0]
    /\ finished = [e \in End |-> FALSE]
    /\ delivered = [e \in End |-> <<>>]
    /\ eof = [e \in End |-> FALSE]

Write(e) ==
    /\ ~finished[e]
    /\ written' = [written EXCEPT ![e] = @ + 1]
    /\ UNCHANGED <<finished, delivered, eof>>

Finish(e) ==
    /\ ~finished[e]
    /\ finished' = [finished EXCEPT ![e] = TRUE]
    /\ UNCHANGED <<written, delivered, eof>>

\* The next chunks of the peer, as many as one call hands over.
Deliver(e) ==
    /\ ~eof[e]
    /\ \E upto \in (Len(delivered[e]) + 1) .. written[Peer(e)] :
         delivered' = [delivered EXCEPT ![e] = [i \in 1 .. upto |-> i - 1]]
    /\ UNCHANGED <<written, finished, eof>>

ReportEnd(e) ==
    /\ finished[Peer(e)] /\ ~eof[e]
    /\ eof' = [eof EXCEPT ![e] = TRUE]
    /\ UNCHANGED <<written, finished, delivered>>

Next == \E e \in End : Write(e) \/ Finish(e) \/ Deliver(e) \/ ReportEnd(e)

Spec == Init /\ [][Next]_cvars
=============================================================================
