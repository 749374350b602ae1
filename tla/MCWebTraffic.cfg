\* The way to a client: two connections, of one session or of two that hold
\* the address one after the other; channels of one batch, frames of two
\* packets.  The answers of other sites: three calls, a name beside the
\* default domain.  A server may have nothing to do.
SPECIFICATION TrafficSpec
CONSTANTS
  Halves = {"packets", "answers"}
  Clients = {c1, c2}
  Sessions = {s1, s2}
  OldProtocol = {s1}
  Addresses = {a1}
  Threads = {t1}
  MaxTake = 3
  ChannelSize = 1
  MaxBatchSize = 2
  MaxPackets = 3
  None = None
  Calls = {k1, k2, k3}
  Names = {site, default}
  Default = default
  Ttl = 2
  MaxTime = 5
  NoAnswer = NoAnswer
INVARIANTS PacketsStayInSession WrittenInOrder
PROPERTIES TakenIsWritten AnswersAreDue
CHECK_DEADLOCK FALSE
