\* A tick is five seconds for the rolling tunnels, and about a second of the
\* mimicry's, whose lives and roles are shortened.
SPECIFICATION FairSpec
CONSTANTS
  Kinds = {"single", "dual", "triple", "mimicry", "client"}
  Lifetime = 120
  Lead = 12
  ConnectMax = 2
  RollingIds = {1, 2, 3, 4, 5, 6, 7}
  Stagger1 = 6
  Stagger2 = 3
  PerType = 1
  MaxPool = 3
  Ttls = {5}
  SendTimes = {3}
  MinSending = 1
  MimicryLead = 2
  MimicryMax = 1
  MimicryIds = {1, 2, 3, 4, 5, 6}
  MaxFailed = 1
  MaxLost = 1
  MaxQueue = 2
INVARIANTS OpenAreOwned DeadlinesApart StartedIsServed
PROPERTIES NoGap PoolFills ClientEnds
CHECK_DEADLOCK FALSE
