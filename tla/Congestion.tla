----------------------------- MODULE Congestion -----------------------------
(***************************************************************************)
(* AIMD congestion control of a ReliableStream: the three fields cwnd,     *)
(* ssthresh and caAccum, and the functions that change them.  Every call   *)
(* is made with unackedMu held, so each is one atomic update.              *)
(***************************************************************************)
EXTENDS Integers

CONSTANTS
    InitialCwnd,      \* cwnd of a fresh stream (32)
    MinCwnd,          \* floor of a loss reduction (8)
    MaxCwnd,          \* hard cap (16384)
    DefaultSsthresh   \* slow-start threshold of a fresh stream (1024)

ASSUME CwndAssumption ==
    /\ MinCwnd \in Nat \ {0} /\ InitialCwnd \in Nat /\ MaxCwnd \in Nat
    /\ MinCwnd <= InitialCwnd /\ InitialCwnd <= MaxCwnd
    /\ DefaultSsthresh \in Nat \ {0}

CongestionState ==
    [cwnd : MinCwnd .. MaxCwnd, ssthresh : Nat \ {0}, caAccum : Nat]

NewCongestion ==
    [cwnd |-> InitialCwnd, ssthresh |-> DefaultSsthresh, caAccum |-> 0]

\* Mutant: the hard cap forgotten.
BugCapped(w) == w

Capped(w) == IF w > MaxCwnd THEN MaxCwnd ELSE w

\* Slow start below ssthresh, otherwise 1/cwnd per packet through caAccum.
onAckAdvance(c, pktsAcked) ==
    IF pktsAcked <= 0 THEN c
    ELSE IF c.cwnd < c.ssthresh
    THEN [c EXCEPT !.cwnd = Capped(@ + pktsAcked)]
    ELSE LET accum == c.caAccum + pktsAcked
             inc   == accum \div c.cwnd
         IN  [c EXCEPT !.caAccum = accum - (inc * c.cwnd),
                       !.cwnd = Capped(@ + inc)]

\* onLossFast and onLossRTO have the same effect on the window.  Their rate
\* limit (one reduction per smoothed RTT) is the caller's choice "cut".
onLoss(c, cut) ==
    LET half == c.cwnd \div 2
        new  == IF half < MinCwnd THEN MinCwnd ELSE half
    IN  IF cut THEN [cwnd |-> new, ssthresh |-> new, caAccum |-> 0] ELSE c
=============================================================================
