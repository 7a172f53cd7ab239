----------------------------- MODULE ClientTool -----------------------------
(***************************************************************************)
(* The command-line client (tools/nt_client_main.c): it sends every line   *)
(* of its standard input, directly or through a tunnel, prints what comes  *)
(* back, and after the end of its input waits until as much has come back  *)
(* as was sent, or for two seconds.  Its exit status says which it was.    *)
(*                                                                         *)
(* The event loop is that of module Dispatcher, reduced to what matters    *)
(* here: dispatcher_stop is looked at once per round, so timers and        *)
(* handlers of the same round may still run after it, and change error.    *)
(* The network may lose, delay and repeat replies.                         *)
(***************************************************************************)
EXTENDS Naturals, Sequences, SequencesExt

CONSTANTS MaxLines,    \* bound: lines of input
          MaxReplies   \* bound: datagrams that arrive

ASSUME ToolAssumption == MaxLines \in Nat /\ MaxReplies \in Nat

VARIABLES context,  \* context_t: sent, received, to_close
          input,    \* what can be read from stdin: "none", "line" or "eof"
          watched,  \* stdin's handler is registered
          inbox,    \* datagrams in the socket's buffer
          arrived,  \* datagrams that have arrived altogether
          alarm,    \* the timer: "none", "set" or "due"
          round,    \* where dispatcher_run is
          batch,    \* the events reported and not handled yet
          to_stop, error

toolVars ==
  <<context, input, watched, inbox, arrived, alarm, round, batch, to_stop, error>>

\* main.
ToolInit ==
  /\ context = [sent |-> 0, received |-> 0, to_close |-> FALSE]
  /\ input = "none" /\ watched = TRUE
  /\ inbox = 0 /\ arrived = 0
  /\ alarm = "none"
  /\ round = "top" /\ batch = <<>>
  /\ to_stop = FALSE /\ error = 0

dispatcher_stop(e) == to_stop' = TRUE /\ error' = e
GoOn == UNCHANGED <<to_stop, error>>

\* An ensure() fails.
Abort == round' = "aborted"

Handling(fd) == round = "events" /\ batch # <<>> /\ Head(batch) = fd

-----------------------------------------------------------------------------
\* stdin_handle_read: the message is sent with one of the functions of
\* nt_client.c, or with udp_sendto.
SendLine ==
  /\ Handling("stdin") /\ input = "line"
  /\ context' = [context EXCEPT !.sent = @ + 1]
  /\ input' = "none"
  /\ batch' = Tail(batch)
  /\ GoOn
  /\ UNCHANGED <<watched, inbox, arrived, alarm, round>>

SendFails ==
  /\ Handling("stdin") /\ input = "line"
  /\ Abort
  /\ UNCHANGED <<context, input, watched, inbox, arrived, alarm, batch, to_stop, error>>

\* Mutant: without its timer.
InputEndsUntimed ==
  /\ Handling("stdin") /\ input = "eof"
  /\ IF context.received = context.sent
     THEN dispatcher_stop(0) /\ UNCHANGED <<context, watched>>
     ELSE GoOn /\ watched' = FALSE /\ context' = [context EXCEPT !.to_close = TRUE]
  /\ batch' = Tail(batch)
  /\ UNCHANGED <<input, inbox, arrived, alarm, round>>

\* stdin_handle_read at the end of the input.
InputEnds ==
  /\ Handling("stdin") /\ input = "eof"
  /\ IF context.received = context.sent
     THEN dispatcher_stop(0) /\ UNCHANGED <<context, alarm, watched>>
     ELSE /\ GoOn
          /\ alarm' = "set" /\ watched' = FALSE
          /\ context' = [context EXCEPT !.to_close = TRUE]
  /\ batch' = Tail(batch)
  /\ UNCHANGED <<input, inbox, arrived, round>>

\* Mutant: whether the input has ended is not asked.
AllAnsweredAnyTime(c) == c.received = c.sent

AllAnswered(c) == c.to_close /\ c.received = c.sent

\* udp_handle_read.
PrintReply ==
  /\ Handling("udp")
  /\ context' = [context EXCEPT !.received = @ + 1]
  /\ inbox' = inbox - 1
  /\ IF AllAnswered(context') THEN dispatcher_stop(0) ELSE GoOn
  /\ batch' = Tail(batch)
  /\ UNCHANGED <<input, watched, arrived, alarm, round>>

\* The socket reports an error, or udp_recvfrom_tunnel finds that the
\* datagram is no message of version 1: the ensure() ends the process.
ReceiveFails ==
  /\ Handling("udp")
  /\ Abort
  /\ UNCHANGED <<context, input, watched, inbox, arrived, alarm, batch, to_stop, error>>

\* timer_callback: "Time is out."
TimeIsOut ==
  /\ round = "timers" /\ alarm = "due"
  /\ alarm' = "none"
  /\ dispatcher_stop(1)
  /\ UNCHANGED <<context, input, watched, inbox, arrived, round, batch>>

-----------------------------------------------------------------------------
(* dispatcher_run. *)

RoundBegins ==
  /\ round = "top"
  /\ round' = IF to_stop THEN "returned" ELSE "timers"
  /\ UNCHANGED <<context, input, watched, inbox, arrived, alarm, batch, to_stop, error>>

TimersDone ==
  /\ round = "timers" /\ alarm # "due"
  /\ round' = "wait"
  /\ UNCHANGED <<context, input, watched, inbox, arrived, alarm, batch, to_stop, error>>

Ready == {fd \in {"stdin", "udp"} :
            IF fd = "stdin" THEN watched /\ input # "none" ELSE inbox > 0}

\* epoll_wait reports what is ready, in some order, or times out.
EpollWait ==
  /\ round = "wait"
  /\ batch' \in SetToSeqs(Ready)
  /\ round' = "events"
  /\ UNCHANGED <<context, input, watched, inbox, arrived, alarm, to_stop, error>>

RoundEnds ==
  /\ round = "events" /\ batch = <<>>
  /\ round' = "top"
  /\ UNCHANGED <<context, input, watched, inbox, arrived, alarm, batch, to_stop, error>>

-----------------------------------------------------------------------------
(* The user, the network and the clock. *)

Running == round \notin {"returned", "aborted"}

Input(what) ==
  /\ Running /\ input = "none"
  /\ what = "line" => context.sent < MaxLines
  /\ input' = what
  /\ UNCHANGED <<context, watched, inbox, arrived, alarm, round, batch, to_stop, error>>

\* A datagram arrives: a reply to anything sent before, the first or not.
Arrive ==
  /\ Running /\ context.sent > 0 /\ arrived < MaxReplies
  /\ inbox' = inbox + 1
  /\ arrived' = arrived + 1
  /\ UNCHANGED <<context, input, watched, alarm, round, batch, to_stop, error>>

Expire ==
  /\ Running /\ alarm = "set"
  /\ alarm' = "due"
  /\ UNCHANGED <<context, input, watched, inbox, arrived, round, batch, to_stop, error>>

ToolLoop ==
  \/ RoundBegins \/ TimeIsOut \/ TimersDone \/ EpollWait \/ RoundEnds
  \/ SendLine \/ InputEnds \/ PrintReply

ToolNext ==
  \/ ToolLoop \/ SendFails \/ ReceiveFails \/ Arrive \/ Expire
  \/ \E what \in {"line", "eof"} : Input(what)
  \/ ~Running /\ UNCHANGED toolVars

\* The loop goes on (module Dispatcher) and so does time.  Nothing obliges
\* replies to arrive or the user to type.
ToolFairness == WF_toolVars(ToolLoop) /\ WF_toolVars(Expire)

ToolSpec == ToolInit /\ [][ToolNext]_toolVars /\ ToolFairness
-----------------------------------------------------------------------------
(* Properties. *)

\* The exit status can be relied on: 0 only if at least as much came back as
\* was sent, 1 only if the counts differ.  A timer and a last reply, or the
\* end of the input and a reply, may meet in one round of the event loop, in
\* either order.  (A repeated reply counts like any other: it can make up for
\* a lost one, or keep the counts from ever being equal.)
ToolExitIsHonest ==
  round = "returned" =>
    \/ error = 0 /\ context.received >= context.sent
    \/ error = 1 /\ context.received # context.sent

\* Once its input has ended the tool ends, even if no reply ever arrives.
ToolEnds == input = "eof" ~> ~Running


-----------------------------------------------------------------------------
(* What ToolExitIsHonest needs in order to be inductive. *)

\* Type invariant.
ToolTypeOK ==
  /\ context \in [sent : Nat, received : Nat, to_close : BOOLEAN]
  /\ input \in {"none", "line", "eof"}
  /\ alarm \in {"none", "set", "due"}
  /\ round \in {"top", "timers", "wait", "events", "returned", "aborted"}
  /\ to_stop \in BOOLEAN
  /\ error \in {0, 1}

\* Everything is sent before the tool waits or stops; the timer runs only
\* while the tool waits; once the counts are equal the tool stops before timers
\* run again; and a stop that was asked for stays justified by the counts.
ToolInv ==
  /\ ToolTypeOK
  /\ to_stop \/ context.to_close => input = "eof"
  /\ alarm # "none" \/ error = 1 => context.to_close
  /\ context.to_close /\ context.received = context.sent =>
       to_stop /\ error = 0 /\ round \notin {"timers", "wait"}
  /\ to_stop => \/ error = 0 /\ context.received >= context.sent
                \/ error = 1 /\ context.received # context.sent
  /\ round = "returned" => to_stop
=============================================================================
