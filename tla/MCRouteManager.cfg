\* The route manager: two workers, two callers, one IPv4 and one IPv6 address,
\* one network of the configuration, a queue of one, a name server of the VPN
\* and one that the user has as well; destruction and one crash at any time.
SPECIFICATION FairRouteSpec
CONSTANTS
  w1 = w1 w2 = w2 sup = sup app = app d4 = d4 d6 = d6 n = n own = own both = both vpn = vpn
  Workers = {w1, w2}
  Callers = {sup, app}
  Ipv4 = {d4}
  Ipv6 = {d6}
  QueueMax = 1
  Networks = {n}
  OwnServers = {own, both}
  VpnServers = {both, vpn}
  MaxCrashes = 1
  PacketCrashes = 0
INVARIANTS NotedIsRouted OnlyRacedRoutesLeft
PROPERTIES DestructionEnds
