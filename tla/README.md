# TLA+ models of nettle

nettle is a UDP tunnel written in C. Programs hand their messages to a tunnel
node, the node protects them with forward error correction (FEC), sends the
encoded packets to a peer node over several paths, and the peer restores the
messages and sends them to their destinations. This directory models the parts
of nettle that carry that logic, checks them with TLC on small instances, and
proves their safety properties, except that of the Reed-Solomon code's arithmetic,
with TLAPS for every value of the constants.

Paths below are relative to `src/main/` of the repository.

## 1. The system

### Threads and data flow

A tunnel node (`tunnel/main.c`) runs these threads, each around one
`dispatcher_t` (an epoll loop with a timer queue):

    client --UDP--> API listener --encoder worker--> processor 0..n-1 --UDP--> peer
    peer   --UDP--> TUN listener --decoder worker--> processor 0..n-1 --UDP--> destination
                    echo listener, reporter

* A **listener** takes a buffer from its pool, receives a packet into it,
  validates it, chooses a processor and sends the buffer to one of the
  processor's two **workers**. A worker is a mutex-protected queue of message
  slots plus an eventfd; whoever sends pushes a slot and increments the eventfd,
  the owning thread's dispatcher is woken, reads the count and pops that many.
* A **processor** encodes what its encoder worker gets (encrypting first, if the
  message asks for it) and sends the packets over the paths the **distributor**
  selects; it decodes what its decoder worker gets and sends restored messages
  to their destinations. After that it frees the listener's buffer and the slot.
* The **FEC** is Reed-Solomon (`nt_rs_fec.c` over `rs/`) or, for K = 1, plain
  duplication with deduplication (`nt_dup_fec.c`). All encoders of a node share
  one generator of block ids; a decoder keeps its blocks in a cache with
  expiry and eviction (`utils/lrumap.c` over `utils/hashmap.c`).

### Inventory

| Component | State | Operations | What is hard | Correct when |
|---|---|---|---|---|
| worker (`dispatcher/worker.c`, `pool.c`, `utils/conqueue.c`) | queue, slot pool, eventfd | `worker_send`, `callback`, `worker_destroy` | two sides interleave between push, notify, read and pop | nothing is lost, forgotten, freed twice or reordered; no `ensure()` fails |
| tunnel threads (`nt_listener.c`, `nt_fec_processor.c`) | buffer pools, `last_processor`, two workers per processor | the two `handle_read`s, the two `on_message`s | buffers cross threads; a busy window; routing reads stale counts | every buffer returns; blocks meet at one decoder |
| Reed-Solomon FEC (`nt_rs_fec.c`) | block being encoded, decode buffer cache | encode, decode | loss, repetition, reordering, expiry, eviction, restarts | a block is delivered once, intact, from any K packets |
| duplicating FEC (`nt_dup_fec.c`) | cache of ids with timestamps | encode, decode | what is forgotten when | repetitions are dropped exactly while remembered |
| RS code (`rs/`) | field tables, checks, syndromes, mask | init, encode, decode, results | erasures, sizes, stripped zeros, bit widths | any K of N packets restore the block |
| dispatcher (`dispatcher/dispatcher.c`) | timer queue, `to_stop`, epoll set | add timer, add and remove handler, stop, run, destroy | timers added and handlers removed in callbacks, slow callbacks, a full queue, interrupted waits | no sleep past a deadline, no lost timer, no call of a removed handler, stop honoured |
| heap, queue, lrumap, hashmap (`utils/`) | arrays and intrusive lists | the usual ones | long operation sequences, limits, growth | they implement their abstract data types |
| echo listener (`nt_echo_listener.c`) | cache whose keys live in pool buffers | `handle_read` | key lifetime | keys live as long as their entries |
| distributor (`nt_distributor.c`) | table of paths | init, select | the table's end | a packet takes every path of its row, and only configured ones |
| API messages (`nt_proto*.c`, `nt_fec_processor.c`) | headers of two versions | receive, encrypt, convert, send | conversion between versions | what arrives is what was sent |
| client library (`nt_client.c`), proxy (`proxy/nt-proxy.c`), echo server (`echo/udp_server.c`) | none of their own | send, receive, relay, return | what a header cannot express | messages reach the named destination, and answers their sender |
| command-line client (`tools/nt_client_main.c`) | sent, received, to_close, one timer | read a line, print a reply, time out | end of input, last reply and timer in one round | honest exit status, termination |
| latency statistics (`utils/metric.c`) | circular buffer | record, percentile | selection reorders the buffer that goes on being filled | exact statistics |
| echo client (`echo/udp_client.c`) | session counters, response map, last timer | send batch, receive, time out, quit | late, repeated, lost replies | honest counts, termination |
| forwarder, reporter, monitor, counters, sockets, configuration, text utilities | none of their own, or counters | | pure I/O, formatting or dead code | not modelled, see section 7 |

`PROJECT.json` lists the components, the hazards with their source lines, and
for every definition the lines it models.

## 2. Modules

| Module | Models | Abstraction |
|---|---|---|
| `Worker` | `worker.c` with its pool and queue | every call of a thread-safe operation is one action; the pool hands out any free slot |
| `Mailbox` | what a worker promises: a bounded FIFO mailbox with reserved slots | abstract specification; `Worker` implements it (`ImplementsMailbox`) |
| `Tunnel` | listeners and processors over shared buffers | a worker is used through its promise, handling a message is one step |
| `RsFec` | sender, network, receiver of the RS FEC | payloads are identified with packets; K packets of one block restore it, packets of two blocks mixed yield garbage or make restoring fail at any message; time is the age of a buffer |
| `DupFec` | sender, network, receiver of the duplicating FEC | the N copies of a block are alike |
| `Lru` | operators for the order a cache keeps | `LruMap` shows that `lrumap.c` provides it |
| `EchoListener` | the echo listener's cache | a header is its key |
| `Galois`, `RsCode`, `Rs` | `galois.c`, `rscode.c`, `rs.c`, with the code's arithmetic | the size takes one column of symbols instead of four of bytes |
| `Bitmap256` | the mask of received degrees, with the widths of the C expression | a word is the set of its bits |
| `Dispatcher` | the event loop, timers, handlers, epoll | time in ticks; the heap is a set ordered by deadline; a callback may add timers, remove its handler and stop the loop |
| `Heap`, `PriorityQueue` | `heap.c` and what it implements | arrays are sequences from 1; an iteration of `shift_up` or `shift_down` is a step |
| `RingQueue`, `BoundedQueue` | `queue.c` and what it implements | |
| `LruMap`, `LruSpec` | `lrumap.c` and what it implements | the hash table is a function |
| `HashMap`, `Dictionary` | `hashmap.c` and what it implements | keys are their own hashes; a chain is a sequence of entries; `hashmap_grow` copies one entry per step |
| `Containers` | the four containers together | |
| `Distributor` | start-up validation and the sending loop of `on_encode` | parsing yields any table of the given size |
| `ApiPath` | one API message, from a client, any program or a proxy's device, through nodes to a destination, a proxy or an echo server, and the answer back | the tunnel either carries a message or loses it; an IP packet is its protocol, destination and payload |
| `EchoClient` | the session of the echo client | time in ticks; `Qps` messages per tick |
| `ClientTool` | the command-line client with the rounds of its event loop | a reply is counted, its text left out; a line or the end of the input is ready or not |
| `Metric` | recording and percentiles of `metric.c` | ratios in percent; an iteration of `nth_min`'s loop is a step, and so is what follows the loop, whose recursive calls are its last act |
| `Endpoints` | `ApiPath`, `EchoClient` and `ClientTool` side by side | separate processes; one of them runs |
| `Parts` | the sequential parts above (containers, RS code, mask, echo listener, distributor, statistics) side by side | they share no state; one of them runs, the others stay as they are |
| `ApiPathMC` | the two peers of the message path, for TLC | |
| `SequenceFacts` | lemmas about sequences used as queues, lists and caches | |
| `WorkerProofs`, `TunnelProofs`, `RsFecProofs`, `DupFecProofs`, `DispatcherProofs` | theorems about the module of that name | |
| `EndpointsProofs` | theorems about `ApiPath`, `EchoClient`, `ClientTool` | |
| `PartsProofs` | theorems about `Containers` and its modules, `Bitmap256`, `Distributor`, `EchoListener`, `Metric` | |

The pieces fit together as follows. `HashMap` shows the dictionary that `LruMap`
assumes; `LruMap` shows the order that `Lru` gives to `RsFec`, `DupFec` and
`EchoListener`; `RingQueue` shows the bounded queue that `Worker` uses for both
its queue and its pool; `Worker` shows the mailbox that `Tunnel` uses; `Heap`
shows the priority queue that `Dispatcher` uses; `Rs` shows the rule "any K of N
packets restore the block" on which `RsFec` rests, and `Bitmap256` the exactness
of the mask both use; `Dispatcher` shows `TimersFire` and `StopIsHonoured`, on
which the fairness of `EchoClient` and `ClientTool` rests.

In each module a definition keeps the name of the C function where it has one
(`lrumap_put`, `build_redundant`) and otherwise the name of the step it models,
with the function in the comment. Definitions marked *Mutant* are wrong versions
of the definition after them: with the mutant in its place, TLC finds the
property named in `PROJECT.json` violated.

## 3. Runs

Run them with `tlc -config X.cfg Module`.

| Run | Configuration | Shows | Distinct states |
|---|---|---|---|
| `worker` | `Worker` | slots and messages have one owner, wake-ups match messages, no failed `ensure()`; queued messages are handled and freed; `Worker` implements `Mailbox` | 29,446 |
| `tunnel` | `Tunnel` | buffers have one owner and return to their pools; the busy case is one short window; the encoder-idle test is not stale; blocks are kept apart | 61,946 |
| `rs_fec` | `RsFec` | delivery once and intact, cache integrity, counters, no eviction of live blocks, with a restart of either side or a rejected packet, and restoring that may fail after the sender's | 295,088 |
| `rs_fec_restart` | `RsFecRestart` | *violation*: packets dropped as processed after a sender restart | |
| `rs_fec_oversize` | `RsFecOversize` | *violation*: `rs_encode` can fail | |
| `dup_fec` | `DupFec` | exactly which repetitions are dropped | 141,199 |
| `dispatcher` | `Dispatcher` | timers have one owner and fire, no sleep past a deadline, no call of a removed handler, stop and descriptors are served | 139,514 |
| `parts` | `Parts` | the containers implement their abstract data types; any K packets, in any order, restore a block; the mask is exact for low halves; key buffers and deduplication of the echo listener; a packet takes the paths of its row in an accepted distributor table; statistics are exact | 167,313 |
| `bitmap256_wide` | `Bitmap256Wide` | *violation*: the mask is not exact beyond | |
| `endpoints` | `Endpoints` | messages arrive intact, there and back; the echo client's report and the command-line client's exit status are honest; both end | 20,864 |
| `api_path_ttl` | `ApiPathTtl` | *violation*: hops beyond the ttl | |
| `api_path_proxy` | `ApiPathProxy` | *violation*: a packet for an IPv6 host is delivered elsewhere | |

`RsFec.cfg` switches the deadlock check off: a node that has aborted on an
`ensure()` really stops.

### Where the code and its comments disagree

1. `nt_rs_fec.c:70` takes every packet of a complete block for one of an already
   processed block. Block ids start at 0 in every process (`main.c:126`), so for
   `decode_timeout` after the sender's restart new messages can be dropped, or
   mixed with old ones. When K packets of two blocks meet in a buffer, the size
   restored for a missing message is garbage and may exceed `max_fec_data_size`:
   `rs_decode_result`, which "should not fail" (`nt_rs_fec.c:127`), fails
   (`rs.c:231`), and that message and the ones after it are not delivered.
2. `nt_rs_fec.c:29` says that `rs_encode` should not fail. It fails for messages
   longer than `max_fec_data_size`, and the API listener's limit is
   `max_udp_buffer_size`.
3. `rs.h:28` calls the mask a simple bitmap; `1 << m` is an `int` shift
   (`rs.c:20`, `rs.c:26`), so the mask confuses degrees from 32 on.
4. `nt_proto2.h:26` says that the ttl prevents endless sending; the conversion to
   version 1 (`nt_fec_processor.c:99`) loses it.
5. `README.md:11` calls the proxy transparent. It takes IPv6 packets
   (`proxy/nt-proxy.c:34`), but a message has room for an IPv4 address only and
   `address_get_addr4` (`dispatcher/common.c:58`) makes 0.0.0.0 of any other: the far
   node sends the packet to its own machine.

### Bounds

Bounds are constants, named in each module, and appear in guards only.

* `Worker`: 2 senders, 2 slots and 3 sends each. Total sends exceed slots, so full
  pools, reuse of slots and refusals happen, and both senders race each other and
  the consumer. The theorems remove these bounds.
* `Tunnel`: 2 processors, 2 buffers per pool, block ids 0..2: one processor gets
  two blocks, a pool can be used up by one worker, and both workers of a processor
  compete for its thread.
* `RsFec`: (N, K) = (3, 2) with two encoders, and two decode buffers for three ids,
  so eviction and refusal happen; timeout 1, so a block can be fresh, at the limit
  and expired; `MaxFaults` restarts and rejected packets in total, here one, at any
  moment. A packet that was sent stays in `net` and may arrive any number of times
  and at any time. `OnlySentMessagesDelivered` holds up to the sender's first
  restart (finding 1) and `BlockCountersBalance` up to the first rejected packet
  (section 7). Of `BlockDeliveredOnce`, that no message is delivered twice and none
  that arrived is missing holds throughout; that a complete buffer has delivered all
  messages holds up to the sender's first restart, and after it for the buffers whose
  packets are of one block. The other properties hold throughout.
* `DupFec`, `EchoListener`: more ids than the cache holds, timeout 1.
* `Rs`: (N, K) = (6, 3), messages of 0 to 2 symbols from {0, 143}: zero symbols,
  trailing zeros and empty messages occur, and every subset and order of packets.
  The code is linear over the field, so two symbols tell most of what more would.
* `Dispatcher`: at most two events per wait (ten in the code) with three descriptors,
  so a batch has several events and leaves some out; three timers, one of them
  permanent, for a queue of two, so that an add can be refused, and the `ensure()` of
  `dispatcher.c:153` aborts when a permanent timer's callback has filled the queue;
  callbacks of up to one tick, timers up to one tick late.
* `Heap` up to 5 entries (both children, one child, equal keys), every iteration of a shift; `RingQueue`
  capacity 3 (wrap-around at every offset); `LruMap` capacity 3 with 4 keys;
  `HashMap` grows from 2 to 8 entries with keys that collide in each size. The theorems
  of section 4 remove these bounds.
* `Distributor`: all 256 tables of 2 x 2 entries from -1 to 2 over two paths; among
  them those the check refuses, and those without a row, on which the modulo of
  `nt_distributor_select` traps (`SelectTraps`).
* `ApiPath`: two nodes; a client, an echo server, a proxy and an IPv6 host; both
  versions, ttl 0..2, three hops in each direction.
* `EchoClient`: 4 messages, 2 per tick, last timer of 2 ticks.
* `ClientTool`: three lines and five replies: fewer, as many and more than were sent.
* `Metric`: a buffer of 4, six records over three times, percentiles between and after
  them: wrap-around after a reordering, equal times, ranks at both ends.

No run uses symmetry.

### Fairness

* `Worker`: weak fairness of the consumer's callback and of a sender inside
  `worker_send`. The dispatcher polls level-triggered, so a readable eventfd is
  reported until it is read; a sender waits only for mutexes held for bounded time.
  Nobody is obliged to send or to destroy.
* `Tunnel`: handlers run to their end (weak), and each worker of a processor is
  served again and again (strong), because one `epoll_wait` reports both eventfds
  and a callback handles no more than its eventfd announced (module `Dispatcher`,
  `ReadyIsReported`). Packets need not arrive.
* `Dispatcher`: the loop goes on; time goes on (strong, because callbacks come
  between); `epoll_wait` returns what is ready again and again, although signals may
  interrupt some waits. The assumption
  `TimersAreQuick`, that the callbacks of the other timers take less time than a timer's
  delay, holds of the programs of the repository and is needed: with slower ones due
  timers would keep the loop (`dispatcher.c:139`) from polling descriptors or looking at
  a stop. No property is about that case.
* `EchoClient`: time goes on, the write handler, timer and return of the loop
  happen. Replies need not arrive, the user need not quit.
* `ClientTool`: the loop of the dispatcher goes on and the timer expires. Replies need
  not arrive, the user need not type.
* All other modules state safety only.

## 4. Proofs

`tlapm XProofs.tla` checks the proofs of one module, `tlapm SequenceFacts.tla` those
of the lemmas they share. Every theorem is about the same definitions that TLC runs
check, and about every value of the constants that satisfies the assumptions of the
component's module; the bounds that make a state space finite (`MaxSends`, `MaxId`,
`MaxHops`, ...) are constants too and are only assumed to be natural numbers, or, in
`RsFec`, large enough for the initial state.

Where a property is not inductive by itself, the component's module ends with a
section that defines what has to be added; TLC has checked those invariants on the
instances of section 3 before they were proved. Each proof has one lemma or step per
action, and the temporal theorem puts the steps together.

| Module | Theorem | Property |
|---|---|---|
| `WorkerProofs` | `WorkerTypeCorrect`, `WorkerEnsuresHold`, `WorkerSlotOwnership`, `WorkerWakeups`, `WorkerMessageOwnership` | `TypeOK`, `EnsuresHold`, `SlotInOnePlace`, `WakeupsMatchMessages`, `MessageHasOneOwner` |
| | `WorkerRefinesMailbox` | `Box!SafeSpec`, the safety part of `ImplementsMailbox` |
| `TunnelProofs` | `ReceiveBuffersAreConserved`, `BusyIsTransient`, `IdleEncoderStaysIdle`, `BlockIdsSurviveRouting` | `BufferInOnePlace`, `BusyOnlyWhileReleasing`, `SameEncoderOnlyWhenIdle`, `BlocksKeptApart` |
| `RsFecProofs` | `CacheKeepsItsBuffers`, `ErasuresAlwaysFit`, `BlocksAreDeliveredOnce`, `RestoredMessagesWereSent`, `BlockCountersAgree`, `LiveBlocksAreKept` | `CacheHoldsAllBuffers`, `ErasuresFitTheCode`, `BlockDeliveredOnce`, `OnlySentMessagesDelivered`, `BlockCountersBalance`, `LiveBlockNeverDropped` |
| `DupFecProofs` | `DupFecDeduplicates` | `DeduplicatesExactly` |
| `DispatcherProofs` | `TimersHaveOneOwner`, `DispatcherNeverOversleeps`, `RemovedHandlersAreNotCalled` | `TimerHasOneOwner`, `NeverSleepsPastDeadline`, `RemovedIsNotCalled` |
| `EndpointsProofs` | `MessagesArriveIntact`, `EchoReportIsHonest`, `ToolExitStatusIsHonest` | `ArrivesIntact`, `ReportIsHonest`, `ToolExitIsHonest` |
| `PartsProofs` | `RingIsAQueue`, `LruMapIsAnLruOrder`, `HeapIsAPriorityQueue`, `HashMapIsADictionary` | the refinements `ImplementsQueue`, `ImplementsLru`, `ImplementsPriorityQueue`, `ImplementsDictionary` |
| | `MaskExactInLowHalf`, `PacketsHaveTheirPaths`, `KeyBuffersAreConserved`, `EchoDeduplicates` | `MaskIsExact`, `EveryPacketHasItsPaths`, `KeyBufferInOnePlace`, `EchoedOncePerTimeout` |
| | `HeapStaysOrdered`, `LruEntriesArePartitioned`, `ChainsStayConsistent`, and with them `ContainersStayConsistent` | `HeapOrder`, `EntriesPartitioned`, `ChainsMatchEntries`, and their conjunction `ContainersConsistent` |
| | `LruMapInvariant`, `HeapInvariant`, `HashMapInvariant`, `MetricInvariant` | the inductive invariants `LruMapInv`, `HeapInv`, `HashMapInv`, `MetricInv` |
| | `StatisticsStayExact` | `StatisticsAreExact` |

**Worker.** Assumptions: senders and slots are finite sets, `NoSlot` is no slot.
`EnsuresHold` says that no `ensure()` has failed; that the next one will not fail
needs two arguments:

* `conqueue_push` finds room because the pushed slot is not queued and no slot is
  queued twice (`SlotInOnePlace`), so the queue is shorter than the number of slots
  (lemma `MissingElementBoundsLength`);
* `conqueue_pop` finds a message because wake-ups that were read or counted, plus
  those that senders still owe, equal the messages queued (`WakeupsMatchMessages`).

Both need `ControlConsistent`: a thread holds a slot exactly at the program points
where the code has one in a local variable. `IndInv` is the conjunction of the five.
`MessageHasOneOwner` needs `MessagesAccounted` besides: the messages handed over so
far are those in slots somebody still has to free, each in one slot, those freed and
those refused. For the refinement, the mailbox's queue is the sequence of queued
messages and its `busy` the number of slots neither free nor queued; `SlotInOnePlace`
gives the arithmetic that the capacity is never exceeded.

**Tunnel.** Assumptions: at least one processor, finitely many buffers.
`PlacesDisjoint`, `PlacesExhaust` and `QueuesInjective` say with sets what
`BufferInOnePlace` says by counting, and are preserved action by action. A refusal is
transient because of `SlotsAccounted`: the free, reserved, queued and served slots of
a worker are as many as the pool has buffers; the listener has one buffer in its hands,
so the worker can be out of slots only if a slot is in service whose buffer is already
free. `RoutedByBlock` says that a packet at a decoder carries the quotient of its
block id, of which the decoder is the remainder.

**RsFec.** Assumptions: 1 <= K < N <= 32, at least one encoder, at least two decode
buffers (a hash table of capacity 1 has no bucket). `IdsUnique`: within one
incarnation of the sender no two encoders ever use the same id, including ids in
packets that are still on the way. `CacheFull`: the order of the cache has all buffers
without repetition. `BuffersSound`: a buffer consists of one packet per degree of its
mask, all with its id; what it has delivered is determined by them, except for the
missing messages of a buffer completed by packets of several blocks, of which the code
may deliver any first part. From these follow the number of erasures, that all packets
of a buffer come from one block as long as there was one incarnation (`OneBlock`), and
delivery once: a buffer's `out` counts are 0 or 1, 1 for what arrived, and 1 throughout
when it is complete and its packets are of one block. `BlockCountersBalance` counts blocks in
use before and after a step. `LiveBlockNeverDropped` is an action property: what a
decode step evicts is complete, empty or expired.

**DupFec and EchoListener.** Both caches forget by time and by age, and the property
says exactly when. The invariant connects the order of the cache with the history:
an entry that comes before another (`Before`) was used after it (`Forgotten`), so when
the last of a full cache is dropped, as many others as the cache has room for have
been used since. For the echo listener `KeysOnce` adds that the buffers are either
free or keys of different entries, and `EntriesDated` that an entry is as old as the
last return of its message. Cache size 1 is excluded, as above.

**Dispatcher.** The deadline property needs the exact relation between the timeout
computed before the wait and the queue at that time; that no removed handler is called
needs `ReportedOnce`: what one `epoll_wait` reported has every descriptor once and,
except for the handler that runs, only registered ones. The assumption
`TimersAreQuick` is not used in any proof.

**ApiPath, EchoClient, ClientTool.** `OnItsWay` describes the message in every stage of
its way, whichever version it has been converted to. It allows for what the findings
say: a destination that IPv4 cannot express becomes `INADDR_ANY` (finding 5), and
`ArrivesIntact` is about the destinations it can express. `SessionInv` and `ToolInv` relate the counters, the
timer and the reasons to stop; the hard case is a round of events in which the last
reply, the end of the input and the timer meet.

**RingQueue and LruMap.** The ring buffer implements `BoundedQueue` through the
sequence of the entries from `head` to `tail`. `lrumap.c` implements `LruSpec` through
the sequence of the keys of the used entries; the invariant `LruMapInv` says that
pool and queue split the entries and that table and entries lead to each other. The
number of keys is then the length of the queue (`LruMapSize`, by a bijection), so
`lrumap_put` finds a free entry whenever the map is not full.

**Heap.** Assumptions: keys are integers, the capacity is a natural number. A loop
over the array is an action per iteration, so that what it computes is an invariant
instead of an induction: `AlmostOrdered` says that while `shift_up` or `shift_down`
runs, only the entry it moves may be out of order, with its parent or with its
children, and that its parent and its children are in order with each other, so that
the exchange leaves one such entry again (lemmas `UpStep` and `DownStep`). When the loop
ends, the heap is ordered. That the first entry then has the least key
(`TopIsLeast`), which no invariant about neighbours says, is shown with the least index
of an entry with a lesser key: its parent would be one too. The entries are a set for
`PriorityQueue`, so the refinement needs `ValuesDiffer`: no timer is in the heap twice;
an exchange keeps the set (`SwapEntries`), and a push or pop changes it by one entry.

**HashMap.** Assumptions: keys are natural numbers, the initial capacity is at least 2.
`TableSound` says what a table is between operations: keys differ, each used entry is in
the chain of its key once and in no other, size counts the used entries and never exceeds the
number of buckets. There are always fewer buckets than entries (`BucketNumber`), so a
free entry is left (`FreeEntryLeft`), and the probe, which visits the entries
cyclically, reaches it (`ProbeFindsFree`). `GrowthSound` describes the table while it
grows: it holds the entries of the snapshot below `copied` and no others, the snapshot's
keys differ, and the key whose put made it grow is none of them. From that follows what
`hashmap_grow` takes for granted (`GrowthFits`): `hashmap_put` meets no key twice, and,
because the new table has half as many buckets again as the snapshot had entries, it
never has to grow within growing. The lemmas are about values, not variables (`Sound`,
`Chained`, `InsertSound`, `RemoveSound`, ...), so that they serve every operation. For
the refinement the dictionary is what `hashmap_get` returns; each operation changes the
set of pairs as `Dictionary` says, growing does not, and the put takes effect when the
growth it waited for is over.

**Metric.** Assumptions: times are natural numbers, the capacity is positive, percentiles
are between 50 and 99 (the echo client prints 90 and 99; one below 50, of two times,
would ask `nth_min` for the zeroth). `RankInWindow`: the part of the buffer that
`nth_min` still searches holds the time of the rank asked for, because nothing before
it is greater and nothing after it less; `Partitioned`: the loop has put the entries
less than the pivot first. An exchange within that part keeps the first
(`OutsideExchange`), the loop the second (`LoopExchanges`, `LoopPasses`), and after the
pivot has been placed the search goes on before or after it (`SearchBefore`,
`SearchAfter`) or ends with an entry whose place is its rank (`RankOfPlace`).
`NoneTooOften` counts occurrences: an exchange keeps them (`ExchangeOccurrences`, by a
bijection), and recording over an old entry adds at most one where one was recorded
(`RecordOccurrences`), wherever the reordering has moved the others.

**Distributor.** `RowsInUse`: after the validation, every row below `seq_num` has a
first path and names only existing ones.

**Bitmap256.** `MaskExactInLowHalf`: for every set of degrees whose remainder modulo
64 is below 32, in spite of the sign extension at 31; lemma `BitsDiffer` says that the
bits which two such degrees test never meet. `RsFec` and `Rs` assume N <= 32 on these
grounds; beyond, the run `bitmap256_wide` shows a violation.

## 5. What is only model-checked

* Liveness: `QueuedIsEventuallyFreed` and the fairness part of `ImplementsMailbox`,
  `BuffersReturn`, `TimersFire`, `StopIsHonoured`, `ReadyIsReported`, `SessionsEnd`.
  Temporal proofs under fairness are out of the prover's reach.
* `Rs`, `RsCode` and `Galois` are written with recursion over their data, as the code
  has loops over symbols, polynomials and field tables: what they compute for every input
  needs induction over data and the algebra of the field, which the prover does not
  support. This concerns `AnyKPacketsRestoreTheBlock`.
* Termination of the loops of `Heap`, `HashMap` and `Metric`: their modules state safety
  only. The theorems say that every state between two iterations is sound, and what holds when
  they end.
* The compositions `Parts` and `Endpoints`: their parts share no state and the
  theorems are about each part on its own.

## 6. Plan

The modelling is complete as far as the code has state or decisions of its own
(section 7 says what is left out and why), and every safety property the runs check is
proved, except the one of section 5. Left for later: the Reed-Solomon code with its loops
as steps, like the heap's, for the parts that need no field algebra (degrees and counts
of the packets received, sizes), and the wrap-around of block ids.

## 7. What is not modelled, and why

* Sockets, tun devices, address formatting, configuration and text parsing, logging:
  pure I/O and formatting. Where another part depends on the result (the distributor's
  table, the IPv4 address of a destination) the result is in the model.
* The performance counters as such; those for decoder blocks are `RsFec`'s
  `balance`. When `rs_decode` rejects a packet, the counters count its block again
  with the next packet; the balance is stated up to the first such packet.
* The forwarder (`nt_forwarder.c`): dead code. `main` initialises it, but nothing calls
  `nt_forwarder_send` or `nt_forwarder_receive`, and `enable_direct` has no effect.
* The reporter: text once per interval, from a permanent timer (`Dispatcher`).
  `nt_monitor.c` is unfinished and called by nothing; the monitor tool is the echo
  client with other output.
* Mean and standard deviation of `metric.c`: arithmetic of doubles without effect on
  the buffer.
* Encryption: an external library of which the repository has only a header. In
  `tunnel/main.c` its initialisation is commented out; `ApiPath` models nodes with
  and without it, as `encoder_on_message` and `on_decode` handle both.
* Hash tables of capacity 1, on which the code divides by zero: the modules'
  assumptions exclude them.
* What a node sends whose distributor table was refused: `tunnel/main.c:133` ignores
  the result, so it depends on uninitialised memory. The tools check it.
* An encode error reported to the echo client (`udp_client.c:194`): `on_encode` returns 0
  or aborts, so there is none; the abort is an action (`HandleWriteAborts`). Likewise
  FEC packets with another tag, N or K: both decoders return before they look at
  anything (`nt_rs_fec.c:57`, `nt_dup_fec.c:23`), which changes nothing.
* A handler that removes another one while the loop runs (`dispatcher.c:170`): its event
  may have been reported already. In this repository a handler removes none but itself.
* Storage duration: the echo listener lives in an inner block of `main` while its
  thread runs on (`tunnel/main.c:214`).
* Wrap-around of the 32-bit block id.
