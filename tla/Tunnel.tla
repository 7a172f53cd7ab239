------------------------------- MODULE Tunnel -------------------------------
(***************************************************************************)
(* The threads of a tunnel node (tunnel/main.c) and the buffers they pass  *)
(* to each other: the API listener and the TUN listener, each with a pool  *)
(* of mq_capacity receive buffers (tunnel/nt_listener.c), and the FEC      *)
(* processors, each one thread with an encoder worker fed by the API       *)
(* listener and a decoder worker fed by the TUN listener                   *)
(* (tunnel/nt_fec_processor.c).                                            *)
(*                                                                         *)
(* A worker is the mailbox of module Mailbox, with mq_capacity slots.      *)
(* What encoding and decoding do is the matter of modules RsFec and        *)
(* DupFec; here a processor handles a message and gives its buffer back.   *)
(***************************************************************************)
EXTENDS Naturals, Sequences, FiniteSets, SequencesExt

CONSTANTS ProcessorNum,  \* processor_num
          Buffers,       \* the receive buffers of one listener's pool
          NoBuffer,      \* a NULL buffer
          MaxBlockId     \* bound: block ids of packets from the tunnel

ASSUME ProcessorAssumption == ProcessorNum \in Nat \ {0}
ASSUME BuffersAssumption == IsFiniteSet(Buffers) /\ NoBuffer \notin Buffers
ASSUME MaxBlockAssumption == MaxBlockId \in Nat

Listener == {"api", "tun"}
Processor == 0..(ProcessorNum - 1)
BlockId == 0..MaxBlockId

\* mq_capacity: of each listener's pool and of each worker.
Capacity == Cardinality(Buffers)

VARIABLES free,    \* free[l], the free buffers of listener l's pool
          lpc,     \* where listener l is in its handle_read
          lbuf,    \* the buffer it has taken
          lproc,   \* the processor it has chosen for it
          last,    \* last_processor of the API listener
          stay,    \* it kept the last processor because its encoder was idle
          queue,   \* queue[l][p], the worker of processor p that l feeds
          credit,  \* credit[l][p], the free message slots of that worker
          ppc,     \* where the thread of processor p is
          pjob,    \* the listener whose worker it is running
          pbuf,    \* the buffer it is handling
          block,   \* block[b], the block id the packet in TUN buffer b came with
          header   \* header[b], the block id its header has now

listenVars == <<free, lpc, lbuf, lproc, last, stay, block, header>>
workVars   == <<queue, credit, ppc, pjob, pbuf>>
vars == <<listenVars, workVars>>

\* nt_fec_processor_init starts each processor with two empty workers, nt_listener_init
\* each listener with a full pool, nt_fec_listener_context_init with last_processor 0.
Init ==
  /\ free = [l \in Listener |-> Buffers]
  /\ lpc = [l \in Listener |-> "idle"]
  /\ lbuf = [l \in Listener |-> NoBuffer]
  /\ lproc = [l \in Listener |-> 0]
  /\ last = 0
  /\ stay = FALSE
  /\ queue = [l \in Listener |-> [p \in Processor |-> <<>>]]
  /\ credit = [l \in Listener |-> [p \in Processor |-> Capacity]]
  /\ ppc = [p \in Processor |-> "idle"]
  /\ pjob = [p \in Processor |-> "api"]
  /\ pbuf = [p \in Processor |-> NoBuffer]
  /\ block = [b \in Buffers |-> 0]
  /\ header = [b \in Buffers |-> 0]

-----------------------------------------------------------------------------
(* The listeners: nt_api_handle_read and nt_tun_handle_read. *)

\* pool_new.  When the pool is empty the handler returns without reading, and
\* the socket, which is watched level-triggered, stays readable.
TakeBuffer(l) ==
  /\ lpc[l] = "idle"
  /\ \E b \in free[l] :
       /\ free' = [free EXCEPT ![l] = @ \ {b}]
       /\ lbuf' = [lbuf EXCEPT ![l] = b]
  /\ lpc' = [lpc EXCEPT ![l] = "read"]
  /\ UNCHANGED <<lproc, last, stay, block, header, workVars>>

\* What a free buffer holds is of no interest, and is set to zero.
Forget(l, b) ==
  /\ block' = IF l = "tun" THEN [block EXCEPT ![b] = 0] ELSE block
  /\ header' = IF l = "tun" THEN [header EXCEPT ![b] = 0] ELSE header

\* The handler returns; its local variables are no more.
Return(l) ==
  /\ lbuf' = [lbuf EXCEPT ![l] = NoBuffer]
  /\ lproc' = [lproc EXCEPT ![l] = 0]
  /\ stay' = (stay /\ l # "api")
  /\ lpc' = [lpc EXCEPT ![l] = "idle"]

\* pool_free(buffer) and return.
GiveBack(l) ==
  /\ free' = [free EXCEPT ![l] = @ \cup {lbuf[l]}]
  /\ Forget(l, lbuf[l])
  /\ Return(l)

\* recv_failure: the receive failed or the packet is malformed, or no
\* processors are configured.
Reject(l) ==
  /\ lpc[l] = "read"
  /\ GiveBack(l)
  /\ UNCHANGED <<last, workVars>>

\* Mutant: an encoder with a single message waiting passes for idle.
RouteApiTolerant ==
  /\ lpc["api"] = "read"
  /\ LET idle == Len(queue["api"][last]) <= 1
         p == IF idle THEN last ELSE (last + 1) % ProcessorNum
     IN  /\ last' = p
         /\ stay' = idle
         /\ lproc' = [lproc EXCEPT !["api"] = p]
  /\ lpc' = [lpc EXCEPT !["api"] = "send"]
  /\ UNCHANGED <<free, lbuf, block, header, workVars>>

\* An API message goes to the last encoder when it is idle and to the next
\* one otherwise.  The queue's length is read here, before the send.
RouteApi ==
  /\ lpc["api"] = "read"
  /\ LET idle == Len(queue["api"][last]) = 0
         p == IF idle THEN last ELSE (last + 1) % ProcessorNum
     IN  /\ last' = p
         /\ stay' = idle
         /\ lproc' = [lproc EXCEPT !["api"] = p]
  /\ lpc' = [lpc EXCEPT !["api"] = "send"]
  /\ UNCHANGED <<free, lbuf, block, header, workVars>>

\* Mutant: the remainder is written over the id instead of the quotient.
RouteTunRemainder(id) ==
  /\ lpc["tun"] = "read"
  /\ lproc' = [lproc EXCEPT !["tun"] = id % ProcessorNum]
  /\ block' = [block EXCEPT ![lbuf["tun"]] = id]
  /\ header' = [header EXCEPT ![lbuf["tun"]] = id % ProcessorNum]
  /\ lpc' = [lpc EXCEPT !["tun"] = "send"]
  /\ UNCHANGED <<free, lbuf, last, stay, workVars>>

\* A packet of block id goes to decoder id % processor_num, with the quotient
\* written over the id in its header.
RouteTun(id) ==
  /\ lpc["tun"] = "read"
  /\ lproc' = [lproc EXCEPT !["tun"] = id % ProcessorNum]
  /\ block' = [block EXCEPT ![lbuf["tun"]] = id]
  /\ header' = [header EXCEPT ![lbuf["tun"]] = id \div ProcessorNum]
  /\ lpc' = [lpc EXCEPT !["tun"] = "send"]
  /\ UNCHANGED <<free, lbuf, last, stay, workVars>>

\* worker_send reserves a message slot ...
Reserve(l) ==
  /\ lpc[l] = "send"
  /\ credit[l][lproc[l]] > 0
  /\ credit' = [credit EXCEPT ![l][lproc[l]] = @ - 1]
  /\ lpc' = [lpc EXCEPT ![l] = "push"]
  /\ UNCHANGED <<free, lbuf, lproc, last, stay, block, header, queue, ppc, pjob, pbuf>>

\* Mutant: the refused packet's buffer is not given back.
BusyDropLeaks(l) ==
  /\ lpc[l] = "send"
  /\ credit[l][lproc[l]] = 0
  /\ Return(l)
  /\ UNCHANGED <<free, last, block, header, workVars>>

\* ... or finds none: ENCODER_BUSY or DECODER_BUSY is counted, the packet dropped.
BusyDrop(l) ==
  /\ lpc[l] = "send"
  /\ credit[l][lproc[l]] = 0
  /\ GiveBack(l)
  /\ UNCHANGED <<last, workVars>>

\* The message is queued and the processor woken; the handler returns.
Enqueue(l) ==
  /\ lpc[l] = "push"
  /\ queue' = [queue EXCEPT ![l][lproc[l]] = Append(@, lbuf[l])]
  /\ Return(l)
  /\ UNCHANGED <<free, last, block, header, credit, ppc, pjob, pbuf>>

-----------------------------------------------------------------------------
(* The processors: one thread runs the callbacks of both workers. *)

Dequeue(l, p) ==
  /\ ppc[p] = "idle"
  /\ queue[l][p] # <<>>
  /\ pbuf' = [pbuf EXCEPT ![p] = Head(queue[l][p])]
  /\ pjob' = [pjob EXCEPT ![p] = l]
  /\ queue' = [queue EXCEPT ![l][p] = Tail(@)]
  /\ ppc' = [ppc EXCEPT ![p] = "handle"]
  /\ UNCHANGED <<listenVars, credit>>

\* Mutant: the handler's buffer is not given back.
HandleLeaks(p) ==
  /\ ppc[p] = "handle"
  /\ pbuf' = [pbuf EXCEPT ![p] = NoBuffer]
  /\ ppc' = [ppc EXCEPT ![p] = "release"]
  /\ UNCHANGED <<free, lpc, lbuf, lproc, last, stay, block, header, queue, credit, pjob>>

\* encoder_on_message or decoder_on_message, then msg->free(msg->data): the
\* buffer returns to the pool of the listener it came from.
Handle(p) ==
  /\ ppc[p] = "handle"
  /\ free' = [free EXCEPT ![pjob[p]] = @ \cup {pbuf[p]}]
  /\ Forget(pjob[p], pbuf[p])
  /\ pbuf' = [pbuf EXCEPT ![p] = NoBuffer]
  /\ ppc' = [ppc EXCEPT ![p] = "release"]
  /\ UNCHANGED <<lpc, lbuf, lproc, last, stay, queue, credit, pjob>>

\* Mutant: the message slot is lost.
ReleaseLeaks(p) ==
  /\ ppc[p] = "release"
  /\ ppc' = [ppc EXCEPT ![p] = "idle"]
  /\ UNCHANGED <<listenVars, queue, credit, pjob, pbuf>>

\* pool_free(msg): the message slot is free again.
Release(p) ==
  /\ ppc[p] = "release"
  /\ credit' = [credit EXCEPT ![pjob[p]][p] = @ + 1]
  /\ ppc' = [ppc EXCEPT ![p] = "idle"]
  /\ pjob' = [pjob EXCEPT ![p] = "api"]
  /\ UNCHANGED <<listenVars, queue, pbuf>>

-----------------------------------------------------------------------------
Route(l) == \/ l = "api" /\ RouteApi
            \/ l = "tun" /\ \E id \in BlockId : RouteTun(id)

ListenerStep(l) == Reject(l) \/ Route(l) \/ Reserve(l) \/ BusyDrop(l) \/ Enqueue(l)

Next ==
  \/ \E l \in Listener : TakeBuffer(l) \/ ListenerStep(l)
  \/ \E p \in Processor : Handle(p) \/ Release(p) \/ \E l \in Listener : Dequeue(l, p)

(***************************************************************************)
(* A handler runs to its end once it has started.  A processor's epoll_wait *)
(* reports both workers' eventfds when both are readable, and a callback   *)
(* handles no more messages than its eventfd announced, so neither worker  *)
(* of a thread can starve the other: each is served again and again.       *)
(* Nothing obliges packets to arrive.                                      *)
(***************************************************************************)
Fairness ==
  /\ \A l \in Listener : WF_vars(ListenerStep(l))
  /\ \A p \in Processor : WF_vars(Handle(p)) /\ WF_vars(Release(p))
  /\ \A p \in Processor, l \in Listener : SF_vars(Dequeue(l, p))

Spec == Init /\ [][Next]_vars /\ Fairness

-----------------------------------------------------------------------------
(* Properties. *)

Queued(l, p) == ToSet(queue[l][p])
Handled(l, p) == IF ppc[p] = "handle" /\ pjob[p] = l THEN {pbuf[p]} ELSE {}
InHand(l) == IF lpc[l] = "idle" THEN {} ELSE {lbuf[l]}

\* Type invariant.
TypeOK ==
  /\ free \in [Listener -> SUBSET Buffers]
  /\ lpc \in [Listener -> {"idle", "read", "send", "push"}]
  /\ lbuf \in [Listener -> Buffers \cup {NoBuffer}]
  /\ lproc \in [Listener -> Processor]
  /\ last \in Processor
  /\ stay \in BOOLEAN
  /\ queue \in [Listener -> [Processor -> Seq(Buffers)]]
  /\ credit \in [Listener -> [Processor -> 0..Capacity]]
  /\ ppc \in [Processor -> {"idle", "handle", "release"}]
  /\ pjob \in [Processor -> Listener]
  /\ pbuf \in [Processor -> Buffers \cup {NoBuffer}]
  /\ block \in [Buffers -> BlockId]
  /\ header \in [Buffers -> BlockId]

\* Every receive buffer of a listener is in exactly one place: its pool, the
\* listener's hands, one position of one worker's queue, or the hands of one
\* processor.  Whatever path a packet takes (malformed, refused as busy,
\* handled), its buffer is given back, once.
BufferInOnePlace ==
  \A l \in Listener : \A b \in Buffers :
    Cardinality({<<"pool">> : x \in free[l] \cap {b}}
                \cup {<<"listener">> : x \in InHand(l) \cap {b}}
                \cup {<<"processor", p>> : p \in {q \in Processor : b \in Handled(l, q)}}
                \cup UNION {{<<"queue", p, i>> : i \in {j \in DOMAIN queue[l][p] : queue[l][p][j] = b}}
                            : p \in Processor}) = 1

\* ENCODER_BUSY and DECODER_BUSY: a listener has as many buffers as a worker
\* has message slots, so worker_send can fail only in the short interval in
\* which the processor has given back a buffer and not yet its slot, and then
\* only when every other buffer of the listener is queued at that worker.
BusyOnlyWhileReleasing ==
  \A l \in Listener :
    lpc[l] = "send" /\ credit[l][lproc[l]] = 0
    => /\ ppc[lproc[l]] = "release" /\ pjob[lproc[l]] = l
       /\ Queued(l, lproc[l]) = Buffers \ {lbuf[l]}

\* "Our strategy is to dispatch messages to the last encoder when it's idle"
\* (nt_listener.c, line 90): the emptiness seen by worker_message_count still
\* holds when the message is queued, because nobody else sends to an encoder: a
\* message that goes to the encoder of the one before finds its queue empty.  (The
\* message that was taken from it last may still be in the processor's hands, and
\* a message that goes to the next encoder may find others queued there.)
SameEncoderOnlyWhenIdle ==
  lpc["api"] \in {"send", "push"} /\ stay => queue["api"][lproc["api"]] = <<>>

AtDecoder(b, p) == b \in Queued("tun", p) \cup Handled("tun", p)

\* The decoders can trust the rewritten ids: two packets that are on their
\* way through the decoders have the same decoder and the same id there
\* exactly when they came with the same block id.
BlocksKeptApart ==
  \A b, c \in Buffers : \A p, q \in Processor :
    AtDecoder(b, p) /\ AtDecoder(c, q)
    => (block[b] = block[c] <=> p = q /\ header[b] = header[c])

\* No buffer is lost to a stuck handler or a starved worker: every buffer a
\* listener takes returns to its pool, so reading always resumes.
BuffersReturn ==
  \A l \in Listener : \A b \in Buffers : b \notin free[l] ~> b \in free[l]

-----------------------------------------------------------------------------
(* What the invariants need in order to be inductive. *)

\* Who has a buffer at hand: a listener inside its handler, a processor inside
\* a callback.
ControlConsistent ==
  /\ \A l \in Listener : lpc[l] # "idle" => lbuf[l] \in Buffers
  /\ \A p \in Processor : ppc[p] = "handle" => pbuf[p] \in Buffers

\* The places of BufferInOnePlace as sets: no queue has a buffer twice, they
\* are disjoint, and they exhaust the pool's buffers.
QueuesInjective == \A l \in Listener, p \in Processor : IsInjective(queue[l][p])

PlacesDisjoint ==
  \A l \in Listener, p, q \in Processor :
    /\ free[l] \cap InHand(l) = {}
    /\ free[l] \cap Queued(l, p) = {} /\ free[l] \cap Handled(l, p) = {}
    /\ InHand(l) \cap Queued(l, p) = {} /\ InHand(l) \cap Handled(l, p) = {}
    /\ Queued(l, p) \cap Handled(l, q) = {}
    /\ p # q => Queued(l, p) \cap Queued(l, q) = {} /\ Handled(l, p) \cap Handled(l, q) = {}

PlacesExhaust ==
  \A l \in Listener, b \in Buffers :
    b \in free[l] \cup InHand(l) \/ \E p \in Processor : b \in Queued(l, p) \cup Handled(l, p)

\* The message slots of a worker: free, reserved by the listener, queued, or
\* in the hands of the processor until pool_free(msg).
Reserved(l, p)  == IF lpc[l] = "push" /\ lproc[l] = p THEN 1 ELSE 0
InService(l, p) == IF ppc[p] # "idle" /\ pjob[p] = l THEN 1 ELSE 0

SlotsAccounted ==
  \A l \in Listener, p \in Processor :
    credit[l][p] + Reserved(l, p) + Len(queue[l][p]) + InService(l, p) = Capacity

\* A packet the TUN listener has routed carries the quotient of its block id
\* and is, or is about to be, at the decoder that is the remainder.
Routed(b, p) == p = block[b] % ProcessorNum /\ header[b] = block[b] \div ProcessorNum

RoutedByBlock ==
  /\ lpc["tun"] \in {"send", "push"} => Routed(lbuf["tun"], lproc["tun"])
  /\ \A b \in Buffers, p \in Processor : AtDecoder(b, p) => Routed(b, p)

IndInv ==
  /\ TypeOK
  /\ ControlConsistent
  /\ QueuesInjective /\ PlacesDisjoint /\ PlacesExhaust
  /\ SlotsAccounted
  /\ RoutedByBlock
  /\ SameEncoderOnlyWhenIdle
=============================================================================
