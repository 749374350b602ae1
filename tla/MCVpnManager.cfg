\* The VPN manager: one attempt per window, two full restarts; every order of
\* the supervisor, the worker, the packet paths, the network and the user.
SPECIFICATION FairVpnSpec
CONSTANTS
  MaxReconnections = 2
  MaxRestarts = 2
INVARIANTS SupervisedWhileStarted RoutesFollowConnection NoUseAfterReset
PROPERTIES StrategyKept LossAnswered StopEndsOrSpins
