\* Stop must complete: refuted by a stop between the check and the launch.
SPECIFICATION FairCmSpec
CONSTANT MaxReconnections = 2
PROPERTIES CallReturns
