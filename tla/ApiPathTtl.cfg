SPECIFICATION ApiSpec
CONSTANTS
  near = near
  far = far
  Nodes = {near, far}
  Peer <- PeerOf
  Hosts = {client, server, proxy}
  Hosts6 = {v6}
  INADDR_ANY = INADDR_ANY
  Servers = {server}
  Proxies = {proxy}
  Encryptors = {near, far}
  Payloads = {p1, p2}
  MaxTtl = 2
  MaxHops = 3
INVARIANT
  HopsWithinTtl
