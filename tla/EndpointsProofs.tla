-------------------------- MODULE EndpointsProofs ---------------------------
(***************************************************************************)
(* What the users of the tunnel can rely on, for every set of addresses    *)
(* and payloads, every number of messages and every rate: messages arrive  *)
(* intact (ApiPath), the echo client's report is honest (EchoClient), and  *)
(* so is the exit status of the command-line client (ClientTool).          *)
(***************************************************************************)
EXTENDS ApiPath, EchoClient, ClientTool, FiniteSetTheorems, TLAPS

(* The command-line client. *)

\* The tool starts with nothing sent and nothing to wait for.
LEMMA ToolInitInv == ToolInit => ToolInv
<1> SUFFICES ASSUME ToolInit PROVE ToolInv
  OBVIOUS
<1>1. ToolTypeOK
  BY DEF ToolInit, ToolTypeOK
<1> QED
  BY <1>1 DEF ToolInit, ToolInv

\* Every step of the tool's loop, of its user and of the network keeps the
\* invariant.
LEMMA ToolNextInv == ToolInv /\ [ToolNext]_toolVars => ToolInv'
<1> SUFFICES ASSUME ToolInv, [ToolNext]_toolVars PROVE ToolInv'
  OBVIOUS
<1> USE DEF ToolInv, ToolTypeOK
<1>1. CASE SendLine
  <2>1. /\ context' = [context EXCEPT !.sent = @ + 1] /\ input = "line" /\ input' = "none"
        /\ UNCHANGED <<alarm, round, to_stop, error>>
    BY <1>1 DEF SendLine, GoOn
  <2>2. ~to_stop /\ ~context.to_close /\ alarm = "none" /\ error = 0
    BY <2>1
  <2> QED
    BY <2>1, <2>2
<1>2. CASE SendFails \/ ReceiveFails
  BY <1>2 DEF SendFails, ReceiveFails, Abort
<1>3. CASE InputEnds
  <2>1. input = "eof" /\ UNCHANGED <<input, round>> /\ round = "events"
    BY <1>3 DEF InputEnds, Handling
  <2>2. CASE context.received = context.sent
    <3>1. to_stop' = TRUE /\ error' = 0 /\ UNCHANGED <<context, alarm>>
      BY <1>3, <2>2 DEF InputEnds, dispatcher_stop
    <3> QED
      BY <2>1, <2>2, <3>1
  <2>3. CASE context.received # context.sent
    <3>1. /\ UNCHANGED <<to_stop, error>> /\ alarm' = "set"
          /\ context' = [context EXCEPT !.to_close = TRUE]
      BY <1>3, <2>3 DEF InputEnds, GoOn
    <3> QED
      BY <2>1, <2>3, <3>1
  <2> QED
    BY <2>2, <2>3
<1>4. CASE PrintReply
  <2>1. /\ context' = [context EXCEPT !.received = @ + 1]
        /\ UNCHANGED <<input, alarm, round>> /\ round = "events"
    BY <1>4 DEF PrintReply, Handling
  <2>2. /\ context' \in [sent : Nat, received : Nat, to_close : BOOLEAN]
        /\ context'.sent = context.sent /\ context'.received = context.received + 1
        /\ context'.to_close = context.to_close
    BY <2>1
  <2>3. CASE AllAnswered(context')
    <3>1. to_stop' = TRUE /\ error' = 0
      BY <1>4, <2>3 DEF PrintReply, dispatcher_stop
    <3> QED
      BY <2>1, <2>2, <2>3, <3>1 DEF AllAnswered
  <2>4. CASE ~AllAnswered(context')
    <3>1. UNCHANGED <<to_stop, error>>
      BY <1>4, <2>4 DEF PrintReply, GoOn
    <3> QED
      BY <2>1, <2>2, <2>4, <3>1 DEF AllAnswered
  <2> QED
    BY <2>3, <2>4
<1>5. CASE TimeIsOut
  BY <1>5 DEF TimeIsOut, dispatcher_stop
<1>6. CASE RoundBegins
  BY <1>6 DEF RoundBegins
<1>7. CASE TimersDone
  BY <1>7 DEF TimersDone
<1>8. CASE EpollWait \/ RoundEnds
  BY <1>8 DEF EpollWait, RoundEnds
<1>9. CASE Arrive \/ Expire
  BY <1>9 DEF Arrive, Expire
<1>10. ASSUME NEW what \in {"line", "eof"}, Input(what) PROVE ToolInv'
  BY <1>10 DEF Input
<1>11. CASE UNCHANGED toolVars
  BY <1>11 DEF toolVars
<1> QED
  BY <1>1, <1>2, <1>3, <1>4, <1>5, <1>6, <1>7, <1>8, <1>9, <1>10, <1>11 DEF ToolNext, ToolLoop

\* The exit status of the command-line client can be relied on, in whatever
\* order timer, replies and the end of the input meet in a round of the loop.
THEOREM ToolExitStatusIsHonest == ToolSpec => []ToolExitIsHonest
<1>1. ToolInv => ToolExitIsHonest
  BY DEF ToolInv, ToolTypeOK, ToolExitIsHonest
<1> QED
  BY <1>1, ToolInitInv, ToolNextInv, PTL DEF ToolSpec

-----------------------------------------------------------------------------
(* The echo client. *)

\* A session starts with nothing sent.
LEMMA SessionInitInv == SessionInit => SessionInv
<1> SUFFICES ASSUME SessionInit PROVE SessionInv
  OBVIOUS
<1>1. SessionTypeOK
  BY SessionAssumption DEF SessionInit, SessionTypeOK
<1> QED
  BY <1>1, FS_EmptySet DEF SessionInit, SessionInv

\* What response_map counts: the replies that are counted are the ones it has
\* not seen, and never more than were sent.
LEMMA RepliesCountedOnce ==
  ASSUME SessionInv, NEW ids \in SUBSET (0..(sent - 1))
  PROVE  /\ bitmap_set(ids) = responses \cup ids
         /\ Cardinality(bitmap_set(ids)) = Cardinality(responses) + Cardinality(Fresh(ids))
         /\ Cardinality(bitmap_set(ids)) <= sent
         /\ Cardinality(Fresh(ids)) \in Nat /\ Cardinality(ids) \in Nat
         /\ Cardinality(Fresh(ids)) <= Cardinality(ids)
<1>0. SessionTypeOK /\ responses \subseteq 0..(sent - 1)
  BY DEF SessionInv
<1>1. sent \in Nat /\ sent <= Count /\ Count \in Nat
  BY <1>0, SessionAssumption DEF SessionTypeOK
<1>2. \A k \in 0..(sent - 1) : k < Count
  BY <1>1
<1>3. bitmap_set(ids) = responses \cup ids /\ Fresh(ids) = ids \ responses
  BY <1>2 DEF bitmap_set, Fresh, bitmap_isset
<1>4. IsFiniteSet(0..(sent - 1)) /\ Cardinality(0..(sent - 1)) = sent
  BY <1>1, FS_Interval
<1>5. IsFiniteSet(responses) /\ IsFiniteSet(ids)
  BY <1>0, <1>4, FS_Subset
<1>6. /\ IsFiniteSet(ids \ responses)
      /\ Cardinality(ids \ responses) <= Cardinality(ids)
  BY <1>5, FS_Subset
<1>7. responses \cup ids = responses \cup (ids \ responses) /\ responses \cap (ids \ responses) = {}
  OBVIOUS
<1>8. Cardinality(responses \cup (ids \ responses)) =
        Cardinality(responses) + Cardinality(ids \ responses) - Cardinality({})
  BY <1>5, <1>6, <1>7, FS_Union
<1>9. Cardinality({}) = 0 /\ Cardinality(responses) \in Nat /\ Cardinality(ids) \in Nat
      /\ Cardinality(ids \ responses) \in Nat
  BY <1>5, <1>6, FS_EmptySet, FS_CardinalityType
<1>10. Cardinality(responses \cup ids) <= sent
  <2>1. responses \cup ids \in SUBSET (0..(sent - 1))
    BY <1>0
  <2> QED
    BY <2>1, <1>4, FS_Subset
<1>11. Cardinality(responses \cup ids) = Cardinality(responses) + Cardinality(ids \ responses)
  <2>1. Cardinality(responses \cup ids) = Cardinality(responses \cup (ids \ responses))
    BY <1>7, Zenon
  <2> QED
    BY <2>1, <1>8, <1>9
<1> QED
  BY <1>3, <1>6, <1>9, <1>10, <1>11

\* When all messages have returned, all have been sent.
LEMMA AllReturnedAllSent ==
  ASSUME SessionInv, received = Count
  PROVE  sent = Count
<1>1. responses \in SUBSET (0..(sent - 1)) /\ received = Cardinality(responses) /\ sent \in 0..Count
  BY DEF SessionInv, SessionTypeOK
<1>a. sent \in Nat /\ 0 \in Int /\ sent - 1 \in Int
  BY <1>1
<1>2. IsFiniteSet(0..(sent - 1)) /\ Cardinality(0..(sent - 1)) = sent
  BY <1>a, FS_Interval
<1>3. Cardinality(responses) <= sent
  BY <1>1, <1>2, FS_Subset
<1> QED
  BY <1>1, <1>3, SessionAssumption

\* The ids of the messages sent so far stay ids of messages sent.
LEMMA EarlierIds ==
  ASSUME NEW m \in Int, NEW n \in Int, m <= n
  PROVE  0..(m - 1) \subseteq 0..(n - 1)
  OBVIOUS

\* Every step of the session, its network and its user keeps the invariant.
LEMMA SessionNextInv == SessionInv /\ [SessionNext]_sessionVars => SessionInv'
<1> SUFFICES ASSUME SessionInv, [SessionNext]_sessionVars PROVE SessionInv'
  OBVIOUS
<1>0. SessionTypeOK
  BY DEF SessionInv
<1>1. CASE HandleWrite
  <2>1. /\ sent' = sent + Batch /\ Batch > 0
        /\ timer' = IF sent' = Count THEN Timeout ELSE timer
        /\ UNCHANGED <<elapsed, received, invalid, duplicated, responses, status, why>>
    BY <1>1 DEF HandleWrite
  <2>2. Batch \in Int /\ Batch <= Count - sent
    <3>1. elapsed * Qps \in Int /\ sent \in Int /\ Count \in Int
      BY <1>0, SessionAssumption DEF SessionTypeOK
    <3> QED
      BY <3>1 DEF Batch
  <2>3. sent' \in 0..Count /\ sent < sent' /\ sent < Count
    BY <1>0, <2>1, <2>2, SessionAssumption DEF SessionTypeOK
  <2>4. timer = NoTimer /\ "timeout" \notin why
    BY <2>3, <1>0 DEF SessionInv, SessionTypeOK
  <2>5. SessionTypeOK'
    BY <1>0, <2>1, <2>3, SessionAssumption DEF SessionTypeOK
  <2>6. responses' \subseteq 0..(sent' - 1)
    BY <1>0, <2>1, <2>3 DEF SessionInv, SessionTypeOK
  <2> QED
    BY <2>1, <2>3, <2>4, <2>5, <2>6 DEF SessionInv
<1>2. ASSUME NEW ids \in SUBSET (0..(sent - 1)), HandleRead(ids) \/ HandleReadError(ids)
      PROVE  SessionInv'
  <2>1. /\ responses' = bitmap_set(ids)
        /\ received' = received + Cardinality(Fresh(ids))
        /\ duplicated' = duplicated + Cardinality(ids) - Cardinality(Fresh(ids))
        /\ UNCHANGED <<elapsed, sent, invalid, timer>>
    BY <1>2 DEF HandleRead, HandleReadError, CountReplies
  <2>2. received = Cardinality(responses) /\ responses \subseteq 0..(sent - 1)
    BY DEF SessionInv
  <2>3. received' = Cardinality(responses') /\ responses' \subseteq 0..(sent - 1) /\ received' <= sent
    BY <2>1, <2>2, RepliesCountedOnce
  <2>4. received' \in Nat /\ received <= received' /\ duplicated' \in Nat
    BY <1>0, <2>1, RepliesCountedOnce DEF SessionTypeOK
  <2>5. received = Count => received' = Count
    BY <1>0, <2>3, <2>4, SessionAssumption DEF SessionTypeOK
  <2>6. CASE HandleRead(ids) /\ received' = Count
    <3>1. status' = "stopping" /\ why' = why \cup {"returned"}
      BY <2>6 DEF HandleRead, AllReturned, Stop
    <3>2. SessionTypeOK'
      BY <1>0, <2>1, <2>3, <2>4, <3>1, SessionAssumption DEF SessionTypeOK
    <3> QED
      BY <2>1, <2>3, <2>6, <3>1, <3>2 DEF SessionInv
  <2>7. CASE HandleRead(ids) /\ received' # Count
    <3>1. UNCHANGED <<status, why>>
      BY <2>7 DEF HandleRead, AllReturned, Continue
    <3>2. SessionTypeOK'
      BY <1>0, <2>1, <2>3, <2>4, <3>1, SessionAssumption DEF SessionTypeOK
    <3> QED
      BY <2>1, <2>3, <2>5, <3>1, <3>2 DEF SessionInv
  <2>8. CASE HandleReadError(ids)
    <3>1. status' = "stopping" /\ why' = why \cup {"error"}
      BY <2>8 DEF HandleReadError, Stop
    <3>2. SessionTypeOK'
      BY <1>0, <2>1, <2>3, <2>4, <3>1, SessionAssumption DEF SessionTypeOK
    <3> QED
      BY <2>1, <2>3, <2>5, <3>1, <3>2 DEF SessionInv
  <2> QED
    BY <1>2, <2>6, <2>7, <2>8
<1>3. CASE HandleReadInvalid
  <2>1. /\ invalid' = invalid + 1
        /\ UNCHANGED <<elapsed, sent, received, duplicated, responses, timer>>
        /\ \/ received = Count /\ status' = "stopping" /\ why' = why \cup {"returned"}
           \/ UNCHANGED <<status, why>>
    BY <1>3 DEF HandleReadInvalid, AllReturned, Stop, Continue
  <2>2. SessionTypeOK'
    <3>1. why' \in SUBSET {"returned", "timeout", "error", "quit"}
      BY <1>0, <2>1 DEF SessionTypeOK
    <3>2. status' \in {"running", "stopping", "stopped"}
      BY <1>0, <2>1 DEF SessionTypeOK
    <3> QED
      BY <1>0, <2>1, <3>1, <3>2 DEF SessionTypeOK
  <2> QED
    BY <2>1, <2>2 DEF SessionInv
<1>4. CASE Quit
  <2>1. /\ UNCHANGED <<elapsed, sent, received, invalid, duplicated, responses, timer>>
        /\ status' = "stopping" /\ why' = why \cup {"quit"}
    BY <1>4 DEF Quit, Stop
  <2>2. SessionTypeOK'
    <3>1. why' \in SUBSET {"returned", "timeout", "error", "quit"}
      BY <1>0, <2>1 DEF SessionTypeOK
    <3> QED
      BY <1>0, <2>1, <3>1 DEF SessionTypeOK
  <2> QED
    BY <2>1, <2>2 DEF SessionInv
<1>5. CASE TimerCallback
  <2>1. /\ UNCHANGED <<elapsed, sent, received, invalid, duplicated, responses>>
        /\ timer = 0 /\ timer' = NoTimer /\ status' = "stopping" /\ why' = why \cup {"timeout"}
    BY <1>5 DEF TimerCallback, Stop
  <2>2. sent = Count
    BY <2>1 DEF SessionInv, NoTimer
  <2>3. SessionTypeOK'
    BY <1>0, <2>1 DEF SessionTypeOK
  <2> QED
    BY <2>1, <2>2, <2>3 DEF SessionInv
<1>6. CASE Return
  BY <1>6 DEF Return, SessionInv, SessionTypeOK
<1>7. CASE Tick \/ LateTick
  <2>1. /\ elapsed' \in Nat /\ (timer' = timer \/ (timer > 0 /\ timer' = timer - 1))
        /\ UNCHANGED <<sent, received, invalid, duplicated, responses, status, why>>
    BY <1>0, <1>7 DEF Tick, LateTick, SessionTypeOK
  <2>2. timer' \in Nat \cup {NoTimer} /\ (timer' # NoTimer => timer # NoTimer)
    BY <1>0, <2>1 DEF SessionTypeOK, NoTimer
  <2>3. SessionTypeOK'
    BY <1>0, <2>1, <2>2 DEF SessionTypeOK
  <2> QED
    BY <2>1, <2>2, <2>3 DEF SessionInv
<1>8. CASE UNCHANGED sessionVars
  BY <1>8 DEF sessionVars, SessionInv, SessionTypeOK
<1>9. CASE HandleWriteAborts
  <2>1. \E n \in 0..(Batch - 1) : sent' = sent + n
    BY <1>9 DEF HandleWriteAborts
  <2>2. /\ status' = "stopped" /\ why' = why \cup {"error"}
        /\ UNCHANGED <<elapsed, received, invalid, duplicated, responses, timer>>
    BY <1>9 DEF HandleWriteAborts
  <2>3. Batch \in Int /\ Batch <= Count - sent
    <3>1. elapsed * Qps \in Int /\ sent \in Int /\ Count \in Int
      BY <1>0, SessionAssumption DEF SessionTypeOK
    <3> QED
      BY <3>1 DEF Batch
  <2>4. sent' \in 0..Count /\ sent <= sent' /\ sent < Count
    BY <1>0, <2>1, <2>3, SessionAssumption DEF SessionTypeOK
  <2>5. timer = NoTimer /\ "timeout" \notin why
    BY <2>4, <1>0 DEF SessionInv, SessionTypeOK
  <2>6. SessionTypeOK'
    BY <1>0, <2>2, <2>4 DEF SessionTypeOK
  <2>7. responses' \subseteq 0..(sent' - 1)
    <3>1. responses \subseteq 0..(sent - 1) /\ sent \in Int /\ sent' \in Int /\ sent <= sent'
      BY <1>0, <2>4, SessionAssumption DEF SessionInv, SessionTypeOK
    <3>2. 0..(sent - 1) \subseteq 0..(sent' - 1)
      BY <3>1, EarlierIds
    <3> QED
      BY <2>2, <3>1, <3>2, Zenon
  <2> QED
    BY <2>2, <2>5, <2>6, <2>7 DEF SessionInv
<1> QED
  BY <1>1, <1>2, <1>3, <1>4, <1>5, <1>6, <1>7, <1>8, <1>9 DEF SessionNext

\* What the echo client reports is what happened, for every number of messages
\* and every rate, whatever the network loses, delays or repeats.
THEOREM EchoReportIsHonest == SessionSpec => []ReportIsHonest
<1>1. SessionInv => ReportIsHonest
  <2> SUFFICES ASSUME SessionInv PROVE ReportIsHonest
    OBVIOUS
  <2>1. ASSUME status # "running", why \cap {"error", "quit"} = {}
        PROVE  "timeout" \in why \/ "returned" \in why
    BY <2>1 DEF SessionInv, SessionTypeOK
  <2> QED
    BY <2>1, AllReturnedAllSent DEF SessionInv, ReportIsHonest
<1> QED
  BY <1>1, SessionInitInv, SessionNextInv, PTL DEF SessionSpec


-----------------------------------------------------------------------------
(* The way of an API message. *)

\* Another source address leaves the rest of a message alone.
LEMMA SourceReplaced ==
  ASSUME NEW m \in Message, NEW a \in Address
  PROVE  /\ [m EXCEPT !.src = a] \in Message
         /\ [m EXCEPT !.src = a].src = a
         /\ [m EXCEPT !.src = a].dst = m.dst
         /\ [m EXCEPT !.src = a].valid = m.valid
         /\ [m EXCEPT !.src = a].payload = m.payload
<1>1. CASE m \in V1
  BY <1>1 DEF V1, Message
<1>2. CASE m \in V2
  BY <1>2 DEF V2, Message
<1> QED
  BY <1>1, <1>2 DEF Message

\* What the encoder hands to the FEC: the message with its payload encrypted.
LEMMA PayloadEncrypted ==
  ASSUME NEW m \in V2, NEW p \in Payloads, m.payload = Plain(p)
  PROVE  /\ Encrypted(m) \in V2
         /\ Encrypted(m).payload = Cipher(p)
         /\ Encrypted(m).src = m.src /\ Encrypted(m).dst = m.dst
         /\ Encrypted(m).valid = m.valid /\ Encrypted(m).encrypt = m.encrypt
<1>1. Plain(p).data = p
  BY DEF Plain
<1>2. Encrypted(m) = [m EXCEPT !.payload = Cipher(p)]
  BY <1>1 DEF Encrypted
<1>3. Cipher(p) \in {Cipher(q) : q \in Payloads}
  OBVIOUS
<1> QED
  BY <1>2, <1>3 DEF V2

\* A message of the client library names its destination, if that has an IPv4
\* address.
LEMMA LibraryMessages ==
  ASSUME NEW p \in Payloads, NEW a \in Address \cup Hosts6, NEW e \in {"NONE", "KC"}
  PROVE  /\ udp_sendto_tunnel(Plain(p), a) \in V1
         /\ udp_sendto_tunnel(Plain(p), a).payload = Plain(p)
         /\ udp_sendto_tunnel(Plain(p), a).dst = address_get_addr4(a)
         /\ udp_sendto_tunnel2(Plain(p), a, e, MaxTtl) \in V2
         /\ udp_sendto_tunnel2(Plain(p), a, e, MaxTtl).payload = Plain(p)
         /\ udp_sendto_tunnel2(Plain(p), a, e, MaxTtl).dst = address_get_addr4(a)
         /\ address_get_addr4(a) \in Address
<1>1. address_get_addr4(a) \in Address /\ INADDR_ANY \in Address
  BY DEF address_get_addr4, Address
<1>2. Plain(p) \in {Plain(q) : q \in Payloads}
  OBVIOUS
<1>3. MaxTtl \in 0..MaxTtl
  BY TtlAssumption
<1>4. udp_sendto_tunnel(Plain(p), a) \in V1
  BY <1>1, <1>2 DEF udp_sendto_tunnel, V1
<1>5. udp_sendto_tunnel2(Plain(p), a, e, MaxTtl) \in V2
  BY <1>1, <1>2, <1>3 DEF udp_sendto_tunnel2, V2
<1> QED
  BY <1>1, <1>4, <1>5 DEF udp_sendto_tunnel, udp_sendto_tunnel2

\* Nothing is on its way before anything is sent.
LEMMA ApiInitInv == ApiInit => OnItsWay
<1> SUFFICES ASSUME ApiInit PROVE OnItsWay
  OBVIOUS
<1>1. place = [at |-> INADDR_ANY, stage |-> "none"] /\ hops = 0 /\ INADDR_ANY \in Address
  BY DEF ApiInit, Address
<1>2. place.stage = "none"
  BY <1>1
<1> QED
  BY <1>1, <1>2 DEF OnItsWay, AtDestination

\* A message that was sent is in the socket of a node, and says what its sender
\* meant.
LEMMA SentMessage ==
  ASSUME NEW h \in Hosts, NEW n \in Nodes, NEW m \in Message, NEW p \in Payloads,
         m.payload = Plain(p), hops \in Nat, Appear(h, m, n, "socket")
  PROVE  OnItsWay'
<1> DEFINE t == IF m.version = 2 THEN m.ttl ELSE MaxHops
<1>1. /\ msg' = m /\ from' = h /\ hops' = hops
      /\ orig' = [src |-> h, dst |-> m.dst, payload |-> m.payload, ttl |-> t]
      /\ place' = [at |-> n, stage |-> "socket"]
  BY DEF Appear, Move
<1>2. t \in Nat
  BY TtlAssumption DEF Message, V1, V2
<1>3. m.dst \in Address /\ n \in Address /\ m.payload \in {Plain(q) : q \in Payloads}
  BY DEF Message, V1, V2, Address
<1> HIDE DEF t
<1>4. /\ orig'.src = h /\ orig'.dst = m.dst /\ orig'.payload = m.payload
      /\ place'.at = n /\ place'.stage = "socket"
  BY <1>1
<1>5. orig' \in [src : Hosts, dst : Address \cup Hosts6, payload : {Plain(q) : q \in Payloads}, ttl : Nat]
  BY <1>1, <1>2, <1>3
<1>6. place' \in [at : Address, stage : {"none", "device", "socket", "encoder", "tunnel",
                                         "arrived", "written", "dropped"}]
  BY <1>1, <1>3
<1>7. InTransit(orig.payload)' /\ FromSender(msg, from)'
  BY <1>1, <1>4 DEF InTransit, ForDestination, FromSender
<1> QED
  BY <1>1, <1>4, <1>5, <1>6, <1>7 DEF OnItsWay, AtDestination

\* A message that is dropped is nobody's concern any more.
LEMMA DroppedMessage ==
  ASSUME OnItsWay, NEW n \in Address, place.stage # "none", Drop(n)
  PROVE  OnItsWay'
<1>1. place' = [at |-> n, stage |-> "dropped"] /\ UNCHANGED <<msg, from, orig, hops>>
  BY DEF Drop, Move
<1>2. place'.stage = "dropped"
  BY <1>1
<1> QED
  BY <1>1, <1>2 DEF OnItsWay, AtDestination


\* The client library, other programs, and the proxy sending what it has read.
LEMMA SendStep ==
  ASSUME OnItsWay, NEW h \in Hosts, NEW n \in Nodes,
         ClientSends(h, n) \/ AnyoneSends(h, n) \/ TunTapHandleRead(h, n)
  PROVE  OnItsWay'
<1>0. hops \in Nat
  BY DEF OnItsWay
<1>1. CASE ClientSends(h, n)
  <2>1. PICK p \in Payloads, dst \in Nodes \cup Hosts :
          \/ Appear(h, udp_sendto_tunnel(Plain(p), dst), n, "socket")
          \/ \E encrypt \in {"NONE", "KC"} :
               Appear(h, udp_sendto_tunnel2(Plain(p), dst, encrypt, MaxTtl), n, "socket")
    BY <1>1 DEF ClientSends
  <2>2. dst \in Address \cup Hosts6 /\ "NONE" \in {"NONE", "KC"}
    BY DEF Address
  <2>3. CASE Appear(h, udp_sendto_tunnel(Plain(p), dst), n, "socket")
    <3>1. udp_sendto_tunnel(Plain(p), dst) \in Message /\ udp_sendto_tunnel(Plain(p), dst).payload = Plain(p)
      BY <2>2, LibraryMessages DEF Message
    <3> QED
      BY <1>0, <2>3, <3>1, SentMessage
  <2>4. ASSUME NEW e \in {"NONE", "KC"},
               Appear(h, udp_sendto_tunnel2(Plain(p), dst, e, MaxTtl), n, "socket")
        PROVE  OnItsWay'
    <3>1. /\ udp_sendto_tunnel2(Plain(p), dst, e, MaxTtl) \in Message
          /\ udp_sendto_tunnel2(Plain(p), dst, e, MaxTtl).payload = Plain(p)
      BY <2>2, LibraryMessages DEF Message
    <3> QED
      BY <1>0, <2>4, <3>1, SentMessage
  <2> QED
    BY <2>1, <2>3, <2>4
<1>2. CASE AnyoneSends(h, n)
  <2>1. PICK m \in V1 \cup V2 : ~m.payload.secret /\ Appear(h, m, n, "socket")
    BY <1>2 DEF AnyoneSends
  <2>2. m.payload \in {Plain(p) : p \in Payloads} \cup {Cipher(p) : p \in Payloads}
    BY DEF V1, V2
  <2>3. \A p \in Payloads : Cipher(p).secret
    BY DEF Cipher
  <2>4. PICK p \in Payloads : m.payload = Plain(p)
    BY <2>1, <2>2, <2>3
  <2> QED
    BY <1>0, <2>1, <2>4, SentMessage DEF Message
<1>3. CASE TunTapHandleRead(h, n)
  <2>1. /\ place.stage = "device" /\ msg' = udp_sendto_tunnel(msg.payload, msg.dst)
        /\ place' = [at |-> n, stage |-> "socket"] /\ UNCHANGED <<from, orig, hops>>
    BY <1>3 DEF TunTapHandleRead, At, Move
  <2>2. /\ orig \in [src : Hosts, dst : Address \cup Hosts6,
                     payload : {Plain(p) : p \in Payloads}, ttl : Nat]
        /\ from \in Nodes \cup Hosts
        /\ from = orig.src /\ msg.dst = orig.dst /\ msg.payload = orig.payload
    BY <2>1 DEF OnItsWay
  <2>3. PICK p \in Payloads : orig.payload = Plain(p)
    BY <2>2
  <2>4. orig.dst \in Address \cup Hosts6 /\ "NONE" \in {"NONE", "KC"}
    BY <2>2
  <2>5. msg' \in Message /\ msg'.payload = orig.payload /\ msg'.dst = address_get_addr4(orig.dst)
    BY <2>1, <2>2, <2>3, <2>4, LibraryMessages DEF Message
  <2>6. place'.at = n /\ place'.stage = "socket" /\ n \in Address
    BY <2>1 DEF Address
  <2>7. InTransit(orig.payload)' /\ FromSender(msg, from)'
    BY <2>1, <2>2, <2>5, <2>6 DEF InTransit, ForDestination, FromSender, address_get_addr4
  <2>8. place' \in [at : Address, stage : {"none", "device", "socket", "encoder", "tunnel",
                                           "arrived", "written", "dropped"}]
    BY <2>1, <2>6
  <2> QED
    BY <1>0, <2>1, <2>2, <2>6, <2>7, <2>8 DEF OnItsWay, AtDestination
<1> QED
  BY <1>1, <1>2, <1>3

\* The device of a proxy has a packet.
LEMMA DeviceStep ==
  ASSUME OnItsWay, NEW h \in Hosts, DeviceReady(h)
  PROVE  OnItsWay'
<1>0. hops \in Nat
  BY DEF OnItsWay
<1>1. PICK m \in IpPacket : Appear(h, m, h, "device")
  BY DEF DeviceReady
<1> DEFINE t == IF m.version = 2 THEN m.ttl ELSE MaxHops
<1>2. /\ msg' = m /\ from' = h /\ hops' = hops
      /\ orig' = [src |-> h, dst |-> m.dst, payload |-> m.payload, ttl |-> t]
      /\ place' = [at |-> h, stage |-> "device"]
  BY <1>1 DEF Appear, Move
<1>3. t \in Nat
  BY TtlAssumption DEF IpPacket
<1>4. m.dst \in Address \cup Hosts6 /\ h \in Address /\ m.payload \in {Plain(q) : q \in Payloads}
  BY DEF IpPacket, Address
<1> HIDE DEF t
<1>5. /\ orig'.src = h /\ orig'.dst = m.dst /\ orig'.payload = m.payload
      /\ place'.at = h /\ place'.stage = "device"
  BY <1>2
<1>6. orig' \in [src : Hosts, dst : Address \cup Hosts6, payload : {Plain(q) : q \in Payloads}, ttl : Nat]
  BY <1>2, <1>3, <1>4
<1>7. place' \in [at : Address, stage : {"none", "device", "socket", "encoder", "tunnel",
                                         "arrived", "written", "dropped"}]
  BY <1>2, <1>4
<1> QED
  BY <1>0, <1>2, <1>5, <1>6, <1>7 DEF OnItsWay, AtDestination

\* nt_api_handle_read puts the address of the sender into the message.
LEMMA ReceiveStep ==
  ASSUME OnItsWay, NEW n \in Nodes, ApiReceive(n)
  PROVE  OnItsWay'
<1>1. /\ place.stage = "socket" /\ msg.valid /\ msg' = [msg EXCEPT !.src = from]
      /\ place' = [at |-> n, stage |-> "encoder"] /\ UNCHANGED <<from, orig, hops>>
  BY DEF ApiReceive, At, Move
<1>2. /\ orig \in [src : Hosts, dst : Address \cup Hosts6,
                   payload : {Plain(p) : p \in Payloads}, ttl : Nat]
      /\ from \in Nodes \cup Hosts /\ from \in Address /\ hops \in Nat
      /\ InTransit(orig.payload) /\ FromSender(msg, from)
  BY <1>1 DEF OnItsWay, Address
<1>3. /\ msg' \in Message /\ msg'.src = from /\ msg'.dst = msg.dst /\ msg'.valid
      /\ msg'.payload = msg.payload
  BY <1>1, <1>2, SourceReplaced DEF InTransit
<1>4. place'.at = n /\ place'.stage = "encoder" /\ n \in Address
  BY <1>1 DEF Address
<1>5. InTransit(orig.payload)' /\ FromSender(msg, msg.src)'
  BY <1>1, <1>2, <1>3, <1>4 DEF InTransit, FromSender, ForDestination
<1>6. place' \in [at : Address, stage : {"none", "device", "socket", "encoder", "tunnel",
                                         "arrived", "written", "dropped"}]
  BY <1>1, <1>4
<1> QED
  BY <1>1, <1>2, <1>3, <1>4, <1>5, <1>6 DEF OnItsWay, AtDestination

\* encoder_on_message encrypts the payload and nothing else, if asked to.
LEMMA EncodeStep ==
  ASSUME OnItsWay, NEW n \in Nodes, EncoderOnMessage(n)
  PROVE  OnItsWay'
<1>1. /\ place.stage = "encoder" /\ place' = [at |-> Peer[n], stage |-> "tunnel"]
      /\ UNCHANGED <<from, orig, hops>>
      /\ IF msg.version = 2 /\ msg.encrypt = "KC" THEN msg' = Encrypted(msg) ELSE msg' = msg
  BY DEF EncoderOnMessage, At, Move
<1>2. /\ orig \in [src : Hosts, dst : Address \cup Hosts6,
                   payload : {Plain(p) : p \in Payloads}, ttl : Nat]
      /\ from \in Nodes \cup Hosts /\ hops \in Nat
      /\ InTransit(orig.payload) /\ FromSender(msg, msg.src) /\ msg.valid
  BY <1>1 DEF OnItsWay
<1>3. PICK p \in Payloads : orig.payload = Plain(p)
  BY <1>2
<1>4. msg \in Message /\ msg.payload = Plain(p)
  BY <1>2, <1>3 DEF InTransit
<1>5. /\ msg' \in Message /\ msg'.src = msg.src /\ msg'.dst = msg.dst /\ msg'.valid
      /\ msg'.payload = OnTheWire(msg')
  <2>1. CASE msg.version = 2 /\ msg.encrypt = "KC"
    <3>1. msg \in V2
      BY <1>4, <2>1 DEF Message, V1
    <3>2. msg' = Encrypted(msg)
      BY <1>1, <2>1
    <3>3. /\ msg' \in V2 /\ msg'.payload = Cipher(p) /\ msg'.src = msg.src /\ msg'.dst = msg.dst
          /\ msg'.valid = msg.valid /\ msg'.encrypt = msg.encrypt
      BY <1>4, <3>1, <3>2, PayloadEncrypted
    <3>4. msg'.version = 2 /\ orig.payload.data = p
      BY <1>3, <3>3 DEF V2, Plain
    <3> QED
      BY <1>2, <2>1, <3>3, <3>4 DEF Message, OnTheWire
  <2>2. CASE ~(msg.version = 2 /\ msg.encrypt = "KC")
    BY <1>1, <1>2, <1>3, <1>4, <2>2 DEF OnTheWire
  <2> QED
    BY <2>1, <2>2
<1>6. place'.at = Peer[n] /\ place'.stage = "tunnel" /\ Peer[n] \in Nodes /\ Peer[n] \in Address
  BY <1>1, NodesAssumption DEF Address
<1>7. ForDestination(msg)' /\ FromSender(msg, msg.src)'
  BY <1>1, <1>2, <1>5 DEF InTransit, FromSender, ForDestination
<1>8. OnTheWire(msg)' = OnTheWire(msg')
  BY <1>1 DEF OnTheWire
<1>9. InTransit(OnTheWire(msg))'
  BY <1>5, <1>6, <1>7, <1>8 DEF InTransit
<1>10. place' \in [at : Address, stage : {"none", "device", "socket", "encoder", "tunnel",
                                          "arrived", "written", "dropped"}]
  BY <1>1, <1>6
<1> QED
  BY <1>1, <1>2, <1>5, <1>6, <1>7, <1>9, <1>10 DEF OnItsWay, AtDestination

\* on_decode decrypts the payload and sends the message on as one of version 1,
\* to its destination or into the tunnel again.
LEMMA DecodeStep ==
  ASSUME OnItsWay, NEW n \in Nodes, OnDecode(n)
  PROVE  OnItsWay'
<1> DEFINE m == IF msg.version = 2 THEN HeaderFrom(msg) ELSE msg
<1>1. /\ place.stage = "tunnel" /\ msg' = m /\ from' = n /\ hops' = hops + 1 /\ orig' = orig
      /\ place' = [at |-> m.dst, stage |-> IF m.dst \in Nodes THEN "socket" ELSE "arrived"]
  BY DEF OnDecode, SendTo, At, Move
<1>2. /\ orig \in [src : Hosts, dst : Address \cup Hosts6,
                   payload : {Plain(p) : p \in Payloads}, ttl : Nat]
      /\ hops \in Nat
      /\ InTransit(OnTheWire(msg)) /\ FromSender(msg, msg.src) /\ msg.valid
  BY <1>1 DEF OnItsWay
<1>3. PICK p \in Payloads : orig.payload = Plain(p)
  BY <1>2
<1>4. msg \in Message /\ msg.payload = OnTheWire(msg) /\ Plain(p).data = p /\ Cipher(p).data = p
  BY <1>2 DEF InTransit, Plain, Cipher
<1>5. m \in V1 /\ m.src = msg.src /\ m.dst = msg.dst /\ m.valid = TRUE /\ m.payload = Plain(p)
  <2>1. CASE msg.version = 2
    <3>1. msg \in V2
      BY <1>4, <2>1 DEF Message, V1
    <3>2. Decrypted(msg) = Plain(p)
      BY <1>3, <1>4, <2>1 DEF Decrypted, OnTheWire
    <3>3. Plain(p) \in {Plain(q) : q \in Payloads} /\ msg.src \in Address /\ msg.dst \in Address
      BY <3>1 DEF V2
    <3>4. m = [version |-> 1, src |-> msg.src, dst |-> msg.dst, valid |-> TRUE, payload |-> Plain(p)]
      BY <2>1, <3>2 DEF HeaderFrom
    <3> HIDE DEF m
    <3>5. m.src = msg.src /\ m.dst = msg.dst /\ m.valid = TRUE /\ m.payload = Plain(p)
      BY <3>4
    <3>6. m \in V1
      BY <3>3, <3>4 DEF V1
    <3> QED
      BY <3>5, <3>6
  <2>2. CASE msg.version # 2
    <3>1. msg \in V1
      BY <1>4, <2>2 DEF Message, V2
    <3>2. m = msg /\ msg.payload = Plain(p) /\ msg.valid \in BOOLEAN
      BY <1>3, <1>4, <2>2, <3>1 DEF OnTheWire, V1
    <3> QED
      BY <1>2, <3>1, <3>2
  <2> QED
    BY <2>1, <2>2
<1> HIDE DEF m
<1>6. /\ place'.at = m.dst /\ place'.stage = (IF m.dst \in Nodes THEN "socket" ELSE "arrived")
      /\ m.dst \in Address
  BY <1>1, <1>5 DEF V1
<1>7. ForDestination(msg)' /\ FromSender(msg, msg.src)'
  BY <1>1, <1>2, <1>5 DEF InTransit, FromSender, ForDestination
<1>8. place' \in [at : Address, stage : {"none", "device", "socket", "encoder", "tunnel",
                                         "arrived", "written", "dropped"}]
  BY <1>1, <1>6
<1>9. CASE m.dst \in Nodes
  <2>1. InTransit(orig.payload)' /\ FromSender(msg, from)'
    BY <1>1, <1>3, <1>5, <1>6, <1>7, <1>9 DEF InTransit, FromSender, Message
  <2> QED
    BY <1>1, <1>2, <1>6, <1>8, <1>9, <2>1 DEF OnItsWay, AtDestination
<1>10. CASE m.dst \notin Nodes
  <2>1. msg'.src = orig'.src
    BY <1>1, <1>5, <1>7, <1>10 DEF FromSender
  <2> QED
    BY <1>1, <1>2, <1>3, <1>5, <1>6, <1>7, <1>8, <1>10, <2>1 DEF OnItsWay, AtDestination
<1> QED
  BY <1>9, <1>10

\* An echo server sends the message back: it is then its own message, for the
\* one that had sent it.
LEMMA EchoStep ==
  ASSUME OnItsWay, NEW h \in Hosts, EchoServer(h)
  PROVE  OnItsWay'
<1>1. place = [at |-> h, stage |-> "arrived"]
  BY DEF EchoServer, At
<1>2. place.at = h /\ AtDestination /\ place.stage # "none"
  BY <1>1 DEF AtDestination
<1>3. /\ msg \in V1 /\ msg.valid /\ from \in Nodes /\ msg.dst = h
      /\ ForDestination(msg) /\ msg.src = orig.src /\ msg.payload = orig.payload
      /\ orig \in [src : Hosts, dst : Address \cup Hosts6,
                   payload : {Plain(p) : p \in Payloads}, ttl : Nat]
  BY <1>2 DEF OnItsWay
<1>4. orig.dst = h
  BY <1>3, NodesAssumption DEF ForDestination
<1>5. udp_recvfrom_tunnel(msg) # {}
  BY <1>3 DEF udp_recvfrom_tunnel, V1
<1>6. /\ msg' = [msg EXCEPT !.src = msg.dst, !.dst = msg.src]
      /\ from' = h /\ hops' = 0
      /\ place' = [at |-> from, stage |-> "socket"]
      /\ orig' = [orig EXCEPT !.src = orig.dst, !.dst = orig.src, !.ttl = MaxHops]
  BY <1>5 DEF EchoServer, Move
<1>7. orig.src \in Hosts /\ orig.src \in Address /\ h \in Address /\ from \in Address
  BY <1>3 DEF Address
<1>8. /\ msg' \in V1 /\ msg'.src = h /\ msg'.dst = orig.src /\ msg'.payload = orig.payload
  BY <1>3, <1>6, <1>7 DEF V1
<1>9. /\ orig' \in [src : Hosts, dst : Address \cup Hosts6,
                    payload : {Plain(p) : p \in Payloads}, ttl : Nat]
      /\ orig'.src = h /\ orig'.dst = orig.src /\ orig'.payload = orig.payload
  BY <1>3, <1>4, <1>6, <1>7, TtlAssumption
<1>10. place'.at = from /\ place'.stage = "socket"
  BY <1>6
<1>11. InTransit(orig.payload)' /\ FromSender(msg, from)'
  BY <1>3, <1>6, <1>8, <1>9, <1>10 DEF InTransit, FromSender, ForDestination, Message
<1>12. place' \in [at : Address, stage : {"none", "device", "socket", "encoder", "tunnel",
                                          "arrived", "written", "dropped"}]
  BY <1>6, <1>7
<1> QED
  BY <1>6, <1>9, <1>10, <1>11, <1>12 DEF OnItsWay, AtDestination

\* A proxy writes what arrives to its device.
LEMMA WriteStep ==
  ASSUME OnItsWay, NEW h \in Hosts, ProxyHandleRead(h)
  PROVE  OnItsWay'
<1>1. place = [at |-> h, stage |-> "arrived"] /\ place' = [at |-> h, stage |-> "written"]
      /\ UNCHANGED <<msg, from, orig, hops>> /\ h \in Address
  BY DEF ProxyHandleRead, At, Move, Address
<1>2. place.at = h /\ place'.at = h /\ place.stage = "arrived" /\ place'.stage = "written"
  BY <1>1
<1>3. place' \in [at : Address, stage : {"none", "device", "socket", "encoder", "tunnel",
                                         "arrived", "written", "dropped"}]
  BY <1>1
<1> QED
  BY <1>1, <1>2, <1>3 DEF OnItsWay, AtDestination, ForDestination

\* Every step keeps the message on its way.
LEMMA ApiNextInv == OnItsWay /\ [ApiNext]_apiVars => OnItsWay'
<1> SUFFICES ASSUME OnItsWay, [ApiNext]_apiVars PROVE OnItsWay'
  OBVIOUS
<1>1. ASSUME NEW n \in Nodes,
             ApiRefuse(n) \/ EncryptError(n) \/ TunnelLoss(n) \/ TtlDrop(n) \/ DecodeError(n)
      PROVE  OnItsWay'
  <2>1. place.stage # "none" /\ Drop(n) /\ n \in Address
    BY <1>1 DEF ApiRefuse, EncryptError, TunnelLoss, TtlDrop, DecodeError, At, Address
  <2> QED
    BY <2>1, DroppedMessage
<1>2. ASSUME NEW h \in Hosts, TunTapRefuse(h) PROVE OnItsWay'
  <2>1. place.stage # "none" /\ Drop(h) /\ h \in Address
    BY <1>2 DEF TunTapRefuse, At, Address
  <2> QED
    BY <2>1, DroppedMessage
<1>3. CASE UNCHANGED apiVars
  BY <1>3 DEF apiVars, OnItsWay, AtDestination, InTransit, ForDestination, FromSender, OnTheWire
<1> QED
  BY <1>1, <1>2, <1>3, SendStep, DeviceStep, ReceiveStep, EncodeStep, DecodeStep, EchoStep, WriteStep
  DEF ApiNext

\* What arrives is what was sent, by whom it was sent and for whom, there and
\* back, for every topology of nodes, every set of hosts and every payload.
THEOREM MessagesArriveIntact == ApiSpec => []ArrivesIntact
<1>1. OnItsWay => ArrivesIntact
  <2> SUFFICES ASSUME OnItsWay, AtDestination, {orig.src, orig.dst} \cap Hosts6 = {}
               PROVE  /\ place.at = orig.dst
                      /\ udp_recvfrom_tunnel(msg) = {[src |-> orig.src, payload |-> orig.payload]}
    BY DEF ArrivesIntact
  <2>1. /\ msg \in V1 /\ msg.valid /\ place.at = msg.dst /\ ForDestination(msg)
        /\ msg.src = orig.src /\ msg.payload = orig.payload
    BY DEF OnItsWay
  <2>2. msg.dst = orig.dst
    BY <2>1 DEF ForDestination
  <2> QED
    BY <2>1, <2>2 DEF udp_recvfrom_tunnel, V1
<1> QED
  BY <1>1, ApiInitInv, ApiNextInv, PTL DEF ApiSpec
=============================================================================
