----------------------------- MODULE Endpoints ------------------------------
(***************************************************************************)
(* What the tunnel is used by: the API, and the two programs that send     *)
(* through it and judge it by what returns, the echo client and the        *)
(* command-line client.  They are separate processes that share no state:  *)
(* a behaviour of one of them is one in which the others stay as they are. *)
(* part names the one that runs.                                           *)
(***************************************************************************)
EXTENDS ApiPathMC, EchoClient, ClientTool

VARIABLE part

endpointVars == <<part, apiVars, sessionVars, toolVars>>

Init == part \in {"path", "session", "tool"} /\ ApiInit /\ SessionInit /\ ToolInit

Next ==
  \/ part = "path" /\ ApiNext /\ UNCHANGED <<part, sessionVars, toolVars>>
  \/ part = "session" /\ SessionNext /\ UNCHANGED <<part, apiVars, toolVars>>
  \/ part = "tool" /\ ToolNext /\ UNCHANGED <<part, apiVars, sessionVars>>

\* Each program's fairness, when it is the one that runs.
Fairness ==
  /\ part = "session" => SessionFairness
  /\ part = "tool" => ToolFairness

Spec == Init /\ [][Next]_endpointVars /\ Fairness
-----------------------------------------------------------------------------
(* Properties. *)

\* Neither client waits for ever for replies that were lost: the echo client's
\* session ends, and the command-line client ends once its input has.
SessionsEnd == (part = "session" => SessionEnds) /\ (part = "tool" => ToolEnds)
=============================================================================
