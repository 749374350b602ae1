\* Safety of the NAT table: three connections, two sessions, two IPv4
\* addresses and one IPv6 address, so that addresses are reused and run out.
SPECIFICATION NatSpec
CONSTANTS
  c1 = c1 c2 = c2 c3 = c3 c4 = c4
  s1 = s1 s2 = s2 u1 = u1 u2 = u2
  a1 = a1 a2 = a2 b1 = b1 b2 = b2
  Clients = {c1, c2, c3}
  Sessions = {s1, s2}
  Users = {u1, u2}
  Requests <- MCRequests
  Ipv4 = {a1, a2}
  Ipv6 = {b1}
  None = None
SYMMETRY Symmetry
INVARIANTS TableConsistent AddressesConserved ClientsPlaced
PROPERTIES LeaseSpec
