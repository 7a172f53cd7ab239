SPECIFICATION Spec
CONSTANTS
  near = near
  far = far
  Nodes = {near, far}
  Peer <- PeerOf
  Hosts = {client, server, proxy}
  Hosts6 = {v6}
  INADDR_ANY = INADDR_ANY
  Servers = {server}
  Proxies = {proxy}
  Encryptors = {near, far}
  Payloads = {p1, p2}
  MaxTtl = 2
  MaxHops = 3
  Count = 4
  Qps = 2
  Timeout = 2
  MaxElapsed = 3
  MaxDecoded = 2
  MaxOdd = 2
  MaxLines = 3
  MaxReplies = 5
INVARIANTS
  ArrivesIntact
  ReportIsHonest
  ToolExitIsHonest
PROPERTIES
  SessionsEnd
