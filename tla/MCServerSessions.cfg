\* The server: two connections, two sessions of one user, two threads; every
\* order of connecting, expiring, failing and stopping.  No symmetry: the
\* properties include liveness.
SPECIFICATION FairServerSpec
CONSTANTS
  c1 = c1 c2 = c2 s1 = s1 s2 = s2 u1 = u1 a1 = a1 b1 = b1 b2 = b2
  Clients = {c1, c2}
  Sessions = {s1, s2}
  Users = {u1}
  Requests <- MCRequests
  Ipv4 = {a1}
  Ipv6 = {b1, b2}
  MaxActive = 1
  Threads = 2
  None = None
INVARIANTS RegistrationsAgree NoneOpenAfterSweep
PROPERTIES ExpiredAreClosed StopReturns
