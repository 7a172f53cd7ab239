----------------------------- MODULE ApiPathMC -----------------------------
(* Model checking the message path: two nodes that are each other's peer.   *)
EXTENDS ApiPath

CONSTANTS near, far

PeerOf == [n \in {near, far} |-> IF n = near THEN far ELSE near]
=============================================================================
