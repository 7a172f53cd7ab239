------------------------------ MODULE ApiPath ------------------------------
(***************************************************************************)
(* The way of an API message through tunnel nodes.  A client (nt_client.c, *)
(* or any other program) or a proxy (proxy/nt-proxy.c) sends it to the API *)
(* address of a node, whose listener accepts it (nt_api_handle_read); an   *)
(* encoder encrypts it if asked to (encoder_on_message), it crosses the    *)
(* tunnel, and the other node decrypts it and sends it to its destination  *)
(* as a message of version 1 (on_decode), whatever version it was.  When   *)
(* the destination is the API address of a node, the message enters the    *)
(* tunnel again; an echo server (echo/udp_server.c) sends it back the way  *)
(* it came, and a proxy writes it to its device.                           *)
(*                                                                         *)
(* FEC, queues and buffers are the matter of other modules: here a message *)
(* arrives over the tunnel or is lost.  ka_encryptor (keycenter/) is       *)
(* external: it returns the encrypted payload, and back, or NULL.          *)
(***************************************************************************)
EXTENDS Naturals

CONSTANTS Nodes,      \* tunnel nodes; Peer[n] is where the paths of n lead
          Peer,
          Hosts,      \* other addresses
          Hosts6,     \* IPv6 addresses, for which a message has no room
          INADDR_ANY, \* 0.0.0.0, which is the sending node's own machine
          Servers,    \* the hosts that run an echo server
          Proxies,    \* the hosts that run a proxy
          Encryptors, \* the nodes that have an encryptor
          Payloads,
          MaxTtl,     \* the largest ttl clients set
          MaxHops     \* bound: hops that are followed

ASSUME NodesAssumption ==
  /\ Peer \in [Nodes -> Nodes] /\ Encryptors \subseteq Nodes
  /\ Nodes \cap Hosts = {} /\ Hosts6 \cap (Nodes \cup Hosts) = {}
  /\ INADDR_ANY \notin Nodes \cup Hosts \cup Hosts6
  /\ Servers \subseteq Hosts /\ Proxies \subseteq Hosts /\ Servers \cap Proxies = {}
ASSUME TtlAssumption == MaxTtl \in Nat /\ MaxHops \in Nat

VARIABLES msg,    \* the message as it is now
          from,   \* the address the datagram it is in came from
          orig,   \* what was to be sent: from whom, to whom, and which payload
          place,  \* where it is: with whom, and in which stage (a proxy's device,
                  \* a socket, an encoder, the tunnel, a destination)
          hops    \* how often it was sent to a destination by a node

apiVars == <<msg, from, orig, place, hops>>

Address == Nodes \cup Hosts \cup {INADDR_ANY}

\* A payload as the client sees it, and what ka_encryptor makes of it.
Plain(p) == [data |-> p, secret |-> FALSE]
Cipher(p) == [data |-> p, secret |-> TRUE]

\* nt_api_header_t and nt_api2_header_t.  A message of version 1 has neither
\* encrypt_type nor ttl.  valid: the size in the header is that received.
V1 == [version : {1}, src : Address, dst : Address, valid : BOOLEAN,
       payload : {Plain(p) : p \in Payloads}]
V2 == [version : {2}, src : Address, dst : Address, valid : BOOLEAN,
       payload : {Plain(p) : p \in Payloads} \cup {Cipher(p) : p \in Payloads},
       encrypt : {"NONE", "KC"}, ttl : 0..MaxTtl]

\* An IP packet that a proxy reads from its device.
IpPacket == [version : {0}, proto : {"IP", "IPV6", "other"}, dst : Hosts \cup Hosts6,
             payload : {Plain(p) : p \in Payloads}]

\* address_get_addr4.
address_get_addr4(a) == IF a \in Hosts6 THEN INADDR_ANY ELSE a

\* The message udp_sendto_tunnel sends.
udp_sendto_tunnel(payload, dst) ==
  [version |-> 1, src |-> INADDR_ANY, dst |-> address_get_addr4(dst), valid |-> TRUE,
   payload |-> payload]

\* The message udp_sendto_tunnel2 sends.
udp_sendto_tunnel2(payload, dst, encrypt, ttl) ==
  [version |-> 2, src |-> INADDR_ANY, dst |-> address_get_addr4(dst), valid |-> TRUE,
   payload |-> payload, encrypt |-> encrypt, ttl |-> ttl]

\* What udp_recvfrom_tunnel makes of a datagram: E_API_INVALID_HEADER, or the
\* source in the header and the payload.
udp_recvfrom_tunnel(m) ==
  IF m.version = 1 /\ m.valid THEN {[src |-> m.src, payload |-> m.payload]} ELSE {}

\* Nothing has been sent yet.
ApiInit ==
  /\ msg = [version |-> 0] /\ orig = [version |-> 0]
  /\ from = INADDR_ANY
  /\ place = [at |-> INADDR_ANY, stage |-> "none"]
  /\ hops = 0

At(n, stage) == place = [at |-> n, stage |-> stage]
Move(n, stage) == place' = [at |-> n, stage |-> stage]
Drop(n) == Move(n, "dropped") /\ UNCHANGED <<msg, from, orig, hops>>

-----------------------------------------------------------------------------
(* Clients, the proxy and the echo server. *)

\* Message or packet m appears at h: in a datagram for node n, or in a device.
Appear(h, m, n, stage) ==
  /\ msg' = m
  /\ from' = h
  /\ orig' = [src |-> h, dst |-> m.dst, payload |-> m.payload,
              ttl |-> IF m.version = 2 THEN m.ttl ELSE MaxHops]
  /\ Move(n, stage)
  /\ UNCHANGED hops

\* A client on h sends a message to the API address of a node: with the client
\* library, ...
ClientSends(h, n) ==
  /\ place.stage = "none"
  /\ \E p \in Payloads, dst \in Nodes \cup Hosts :
       \/ Appear(h, udp_sendto_tunnel(Plain(p), dst), n, "socket")
       \/ \E encrypt \in {"NONE", "KC"} :
            Appear(h, udp_sendto_tunnel2(Plain(p), dst, encrypt, MaxTtl), n, "socket")

\* ... or, since any program may use the API, with whatever header.
AnyoneSends(h, n) ==
  /\ place.stage = "none"
  /\ \E m \in V1 \cup V2 : ~m.payload.secret /\ Appear(h, m, n, "socket")

\* The device of a proxy has a packet.
DeviceReady(h) ==
  /\ place.stage = "none" /\ h \in Proxies
  /\ \E m \in IpPacket :
       (m.proto = "IPV6" <=> m.dst \in Hosts6) /\ Appear(h, m, h, "device")

\* tun_tap_handle_read: the packet is sent to node n, the tunnel of the
\* configuration, for the host it is addressed to.
TunTapHandleRead(h, n) ==
  /\ At(h, "device") /\ msg.proto \in {"IP", "IPV6"}
  /\ msg' = udp_sendto_tunnel(msg.payload, msg.dst)
  /\ Move(n, "socket")
  /\ UNCHANGED <<from, orig, hops>>

\* Another protocol, a packet that was cut, or an error of the socket.
TunTapRefuse(h) == At(h, "device") /\ Drop(h)

\* udp_handle_read of the proxy: the payload is written to the device.
ProxyHandleRead(h) ==
  /\ At(h, "arrived") /\ h \in Proxies
  /\ udp_recvfrom_tunnel(msg) # {}
  /\ Move(h, "written")
  /\ UNCHANGED <<msg, from, orig, hops>>

\* udp_server_handle_read: source and destination change places in a message
\* of version 1, and the datagram goes back to where it came from.
EchoServer(h) ==
  /\ At(h, "arrived") /\ h \in Servers
  /\ msg' = IF udp_recvfrom_tunnel(msg) # {}
            THEN [msg EXCEPT !.src = msg.dst, !.dst = msg.src]
            ELSE msg
  /\ from' = h
  /\ Move(from, "socket")
  /\ orig' = [orig EXCEPT !.src = orig.dst, !.dst = orig.src, !.ttl = MaxHops]
  /\ hops' = 0

-----------------------------------------------------------------------------
\* Mutant: the source the client wrote is trusted.
ApiReceiveAsIs(n) ==
  /\ At(n, "socket") /\ msg.valid
  /\ Move(n, "encoder")
  /\ UNCHANGED <<msg, from, orig, hops>>

\* nt_api_handle_read: the source in the header is replaced by the address
\* the datagram came from.
ApiReceive(n) ==
  /\ At(n, "socket") /\ msg.valid
  /\ msg' = [msg EXCEPT !.src = from]
  /\ Move(n, "encoder")
  /\ UNCHANGED <<from, orig, hops>>

\* COUNTER_API_RECEIVE_ERROR, COUNTER_ENCODER_BUSY.
ApiRefuse(n) == At(n, "socket") /\ Drop(n)

\* The message that goes to the FEC when its payload is encrypted.
Encrypted(m) == [m EXCEPT !.payload = Cipher(m.payload.data)]

\* encoder_on_message.
EncoderOnMessage(n) ==
  /\ At(n, "encoder")
  /\ IF msg.version = 2 /\ msg.encrypt = "KC"
     THEN n \in Encryptors /\ msg' = Encrypted(msg)
     ELSE UNCHANGED msg
  /\ Move(Peer[n], "tunnel")
  /\ UNCHANGED <<from, orig, hops>>

\* COUNTER_ENCRYPT_ERROR: there is no encryptor, or it fails.
EncryptError(n) == At(n, "encoder") /\ msg.version = 2 /\ msg.encrypt = "KC" /\ Drop(n)

TunnelLoss(n) == At(n, "tunnel") /\ Drop(n)

\* What ka_encryptor_decrypt returns.
Decrypted(m) == IF m.encrypt = "KC" THEN Plain(m.payload.data) ELSE m.payload

\* nt_api_header_from, with the payload on_decode found.
HeaderFrom(m) ==
  [version |-> 1, src |-> m.src, dst |-> m.dst, valid |-> TRUE, payload |-> Decrypted(m)]

\* header->ttl <= 0.
TtlExceeded(m) == m.version = 2 /\ m.ttl = 0

\* udp_sendto(api_udp, ...): the datagram's source is the sending node.
SendTo(n, m) ==
  /\ msg' = m
  /\ from' = n
  /\ Move(m.dst, IF m.dst \in Nodes THEN "socket" ELSE "arrived")
  /\ hops < MaxHops
  /\ hops' = hops + 1
  /\ UNCHANGED orig

\* on_decode: version 1 is sent on as it is, version 2 as version 1 with the
\* decrypted payload; the ttl counts down but has no place in version 1.
OnDecode(n) ==
  /\ At(n, "tunnel")
  /\ ~TtlExceeded(msg)
  /\ msg.version = 2 /\ msg.encrypt = "KC" => n \in Encryptors
  /\ SendTo(n, IF msg.version = 2 THEN HeaderFrom(msg) ELSE msg)

\* COUNTER_TTL_EXCEEDED.
TtlDrop(n) == At(n, "tunnel") /\ TtlExceeded(msg) /\ Drop(n)

\* COUNTER_DECRYPT_ERROR, COUNTER_API_SEND_ERROR.  (What the FEC restores is
\* intact, so COUNTER_CORRUPT_DECODED_DATA does not count it.)
DecodeError(n) == At(n, "tunnel") /\ ~TtlExceeded(msg) /\ Drop(n)

ApiDone ==
  \/ place.stage \in {"written", "dropped"} \/ hops = MaxHops
  \/ place.stage = "arrived" /\ place.at \notin Servers \cup Proxies

ApiNext ==
  \/ \E n \in Nodes :
       \/ ApiReceive(n) \/ ApiRefuse(n) \/ EncoderOnMessage(n) \/ EncryptError(n)
       \/ TunnelLoss(n) \/ OnDecode(n) \/ TtlDrop(n) \/ DecodeError(n)
  \/ \E h \in Hosts :
       \/ DeviceReady(h) \/ TunTapRefuse(h) \/ ProxyHandleRead(h) \/ EchoServer(h)
       \/ \E n \in Nodes :
            ClientSends(h, n) \/ AnyoneSends(h, n) \/ TunTapHandleRead(h, n)
  \/ ApiDone /\ UNCHANGED apiVars

ApiSpec == ApiInit /\ [][ApiNext]_apiVars
-----------------------------------------------------------------------------
(* Properties. *)

AtDestination == place.stage \in {"arrived", "written"}

\* What arrives is what was sent, there and back: encrypted on the way or
\* not, of version 1 or 2, from a client or a proxy, the destination that was
\* named, and no other, gets the payload that was sent, in the clear and with
\* its sender as source, whatever source the sender wrote into it; and what an
\* echo server answers reaches that sender with the server as source.
ArrivesIntact ==
  AtDestination /\ {orig.src, orig.dst} \cap Hosts6 = {} =>
    /\ place.at = orig.dst
    /\ udp_recvfrom_tunnel(msg) = {[src |-> orig.src, payload |-> orig.payload]}

\* README.md, line 11: the proxy is a transparent proxy, so every packet that
\* it takes and that arrives somewhere arrives where it is addressed to.
ProxyIsTransparent == AtDestination => place.at = orig.dst

\* nt_proto2.h, line 26: the ttl is there to prevent messages from being sent
\* around inside for ever, so no message makes more hops than its ttl.
HopsWithinTtl == hops > 0 => hops <= orig.ttl


-----------------------------------------------------------------------------
(* What ArrivesIntact needs in order to be inductive. *)

Message == V1 \cup V2

\* Only the encoder makes a payload unreadable, and only when it is asked to.
OnTheWire(m) ==
  IF m.version = 2 /\ m.encrypt = "KC" THEN Cipher(orig.payload.data) ELSE orig.payload

\* m is for whom it was meant for; a host that has no IPv4 address is not
\* named, and its message is for INADDR_ANY.
ForDestination(m) ==
  \/ m.dst = orig.dst
  \/ orig.dst \in Hosts6 /\ m.dst = INADDR_ANY

\* a is the sender.  (A message for a node that enters the tunnel again comes
\* from the other node, but never arrives anywhere.)
FromSender(m, a) == m.dst \in Nodes \/ a = orig.src

InTransit(payload) ==
  /\ msg \in Message /\ place.at \in Nodes
  /\ ForDestination(msg) /\ msg.payload = payload

\* The message in each stage of its way.
OnItsWay ==
  /\ place \in [at : Address, stage : {"none", "device", "socket", "encoder", "tunnel",
                                       "arrived", "written", "dropped"}]
  /\ hops \in Nat
  /\ place.stage # "none" =>
       /\ orig \in [src : Hosts, dst : Address \cup Hosts6,
                    payload : {Plain(p) : p \in Payloads}, ttl : Nat]
       /\ from \in Nodes \cup Hosts
  /\ place.stage = "device" =>
       /\ msg \in IpPacket
       /\ from = orig.src /\ msg.dst = orig.dst /\ msg.payload = orig.payload
  /\ place.stage = "socket" => InTransit(orig.payload) /\ FromSender(msg, from)
  /\ place.stage = "encoder" =>
       InTransit(orig.payload) /\ FromSender(msg, msg.src) /\ msg.valid
  /\ place.stage = "tunnel" =>
       InTransit(OnTheWire(msg)) /\ FromSender(msg, msg.src) /\ msg.valid
  /\ AtDestination =>
       /\ msg \in V1 /\ msg.valid /\ from \in Nodes
       /\ place.at = msg.dst /\ msg.dst \notin Nodes
       /\ ForDestination(msg) /\ msg.src = orig.src /\ msg.payload = orig.payload
=============================================================================
