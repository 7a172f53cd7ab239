----------------------------- MODULE EchoClient -----------------------------
(***************************************************************************)
(* A session of the echo client (echo/udp_client.c), which measures a      *)
(* tunnel: a permanent timer sends Count messages at Qps messages per      *)
(* tick, the replies are counted once each, and the session ends when all  *)
(* have returned, Timeout after the last one was sent, on an error, or     *)
(* when the user asks for it.                                              *)
(*                                                                         *)
(* One datagram can make the FEC restore several messages, and the network *)
(* and the FEC may return a message never, late or repeatedly.             *)
(* dispatcher_stop only asks the event loop to return: timers and handlers *)
(* that are due in the same round still run ("stopping").                  *)
(***************************************************************************)
EXTENDS Integers, FiniteSets

CONSTANTS Count,       \* messages to send
          Qps,         \* messages per tick
          Timeout,     \* the 2000 ms of the last timer, in ticks
          MaxElapsed,  \* bound: when the session's clock stops
          MaxDecoded,  \* bound: messages one datagram yields
          MaxOdd       \* bound: duplicated and invalid replies

ASSUME SessionAssumption ==
  /\ Count \in Nat \ {0} /\ Qps \in Nat \ {0} /\ Timeout \in Nat
  /\ MaxElapsed \in Nat /\ MaxElapsed * Qps >= Count
  /\ MaxDecoded \in Nat /\ MaxOdd \in Nat

VARIABLES elapsed,     \* time since begin_time
          sent, received, invalid, duplicated,
          responses,   \* response_map
          timer,       \* time left on the last timer, or NoTimer
          status,      \* "running", "stopping" or "stopped", the latter also for an
                       \* aborted process
          why          \* what made the session stop

sessionVars == <<elapsed, sent, received, invalid, duplicated, responses, timer, status, why>>

NoTimer == -1

SessionInit ==
  /\ elapsed = 0
  /\ sent = 0 /\ received = 0 /\ invalid = 0 /\ duplicated = 0
  /\ responses = {}
  /\ timer = NoTimer
  /\ status = "running"
  /\ why = {}

\* dispatcher_stop.
Stop(reason) == status' = "stopping" /\ why' = why \cup {reason}
Continue == UNCHANGED <<status, why>>

\* How many messages are due, of those that are left.
Batch == LET due == elapsed * Qps - sent
         IN  IF due > Count - sent THEN Count - sent ELSE due

\* udp_client_handle_write: send what is due; after the last message the
\* session's last timer is set.  (nt_fec_encode returns no error to it, because
\* on_encode returns 0 or aborts, and the timer queue has room.)
HandleWrite ==
  /\ status # "stopped"
  /\ Batch > 0
  /\ sent' = sent + Batch
  /\ timer' = IF sent' = Count THEN Timeout ELSE timer
  /\ UNCHANGED <<elapsed, received, invalid, duplicated, responses, status, why>>

\* on_encode: a message of the batch cannot be sent, ensure() aborts the process.
HandleWriteAborts ==
  /\ status # "stopped"
  /\ \E n \in 0..(Batch - 1) : sent' = sent + n
  /\ status' = "stopped" /\ why' = why \cup {"error"}
  /\ UNCHANGED <<elapsed, received, invalid, duplicated, responses, timer>>

\* response_map, a bitmap of Count bits: a key past its end is never set.
bitmap_isset(key) == key < Count /\ key \in responses
bitmap_set(keys) == responses \cup {key \in keys : key < Count}

\* Mutant: a reply is counted whenever it comes.
FreshAll(ids) == ids

\* The replies among ids that response_map has not seen.
Fresh(ids) == {id \in ids : ~bitmap_isset(id)}

\* session->received == session->count.
AllReturned(n) == n = Count

\* on_decode, called for each message in ids.
CountReplies(ids) ==
  /\ responses' = bitmap_set(ids)
  /\ received' = received + Cardinality(Fresh(ids))
  /\ duplicated' = duplicated + Cardinality(ids) - Cardinality(Fresh(ids))
  /\ duplicated' + invalid <= MaxOdd

\* udp_client_handle_read: a datagram yields the messages in ids, then the
\* session stops if all have returned.
HandleRead(ids) ==
  /\ status # "stopped"
  /\ CountReplies(ids)
  /\ IF AllReturned(received') THEN Stop("returned") ELSE Continue
  /\ UNCHANGED <<elapsed, sent, invalid, timer>>

\* on_decode finds a message that is none of the session's.
HandleReadInvalid ==
  /\ status # "stopped"
  /\ duplicated + invalid < MaxOdd
  /\ invalid' = invalid + 1
  /\ IF AllReturned(received) THEN Stop("returned") ELSE Continue
  /\ UNCHANGED <<elapsed, sent, received, duplicated, responses, timer>>

\* Receiving or decoding fails, the latter perhaps after some messages.
HandleReadError(ids) ==
  /\ status # "stopped"
  /\ CountReplies(ids)
  /\ Stop("error")
  /\ UNCHANGED <<elapsed, sent, invalid, timer>>

\* timer_callback: "Time is out."
TimerCallback ==
  /\ status # "stopped"
  /\ timer = 0
  /\ timer' = NoTimer
  /\ Stop("timeout")
  /\ UNCHANGED <<elapsed, sent, received, invalid, duplicated, responses>>

\* stdin_callback, for 'q'.
Quit ==
  /\ status # "stopped"
  /\ Stop("quit")
  /\ UNCHANGED <<elapsed, sent, received, invalid, duplicated, responses, timer>>

\* dispatcher_run returns.
Return ==
  /\ status = "stopping"
  /\ status' = "stopped"
  /\ UNCHANGED <<elapsed, sent, received, invalid, duplicated, responses, timer, why>>

Tick ==
  /\ status # "stopped"
  /\ elapsed < MaxElapsed
  /\ elapsed' = elapsed + 1
  /\ timer' = IF timer > 0 THEN timer - 1 ELSE timer
  /\ UNCHANGED <<sent, received, invalid, duplicated, responses, status, why>>

\* The clock's bound is reached: only the last timer still runs down.
LateTick ==
  /\ status # "stopped"
  /\ elapsed = MaxElapsed /\ timer > 0
  /\ timer' = timer - 1
  /\ UNCHANGED <<elapsed, sent, received, invalid, duplicated, responses, status, why>>

SessionNext ==
  \/ HandleWrite \/ HandleWriteAborts \/ HandleReadInvalid \/ TimerCallback \/ Quit
  \/ Return \/ Tick \/ LateTick
  \/ \E ids \in SUBSET (0..(sent - 1)) :
       Cardinality(ids) <= MaxDecoded /\ (HandleRead(ids) \/ HandleReadError(ids))
  \/ status = "stopped" /\ UNCHANGED sessionVars

(***************************************************************************)
(* Time goes on, the dispatcher runs its timers (module Dispatcher,        *)
(* TimersFire) and returns once it is asked to stop (StopIsHonoured).      *)
(* Nothing obliges replies to arrive or the user to quit.                  *)
(***************************************************************************)
SessionFairness ==
  /\ WF_sessionVars(Tick \/ LateTick)
  /\ WF_sessionVars(HandleWrite) /\ WF_sessionVars(TimerCallback) /\ WF_sessionVars(Return)

SessionSpec == SessionInit /\ [][SessionNext]_sessionVars /\ SessionFairness
-----------------------------------------------------------------------------
(* Properties. *)

\* The reported packet loss is honest: received counts the messages that
\* returned, each once, and only messages that were sent; and a session that
\* was neither interrupted nor failed reports only after it has sent everything
\* and not while replies may still count: all have returned or the last timer
\* has fired.
ReportIsHonest ==
  /\ received = Cardinality(responses) /\ responses \subseteq 0..(sent - 1)
  /\ status # "running" /\ why \cap {"error", "quit"} = {}
     => sent = Count /\ (received = Count \/ "timeout" \in why)

\* The session ends, even if no message ever returns.
SessionEnds == <>(status = "stopped")


-----------------------------------------------------------------------------
(* What ReportIsHonest needs in order to be inductive. *)

\* Type invariant.
SessionTypeOK ==
  /\ elapsed \in Nat
  /\ sent \in 0..Count
  /\ received \in Nat /\ invalid \in Nat /\ duplicated \in Nat
  /\ responses \in SUBSET (0..(Count - 1))
  /\ timer \in Nat \cup {NoTimer}
  /\ status \in {"running", "stopping", "stopped"}
  /\ why \in SUBSET {"returned", "timeout", "error", "quit"}

\* The last timer is set after the last message, and each reason to stop has
\* its condition, which stays true while the last round of events is handled.
SessionInv ==
  /\ SessionTypeOK
  /\ received = Cardinality(responses) /\ responses \subseteq 0..(sent - 1)
  /\ timer # NoTimer => sent = Count
  /\ "timeout" \in why => sent = Count
  /\ "returned" \in why => received = Count
  /\ status # "running" => why # {}
=============================================================================
