\* The tray: four servers, so that two of them race; two error boxes.
SPECIFICATION FairTraySpec
CONSTANTS
  Servers = {a, b, c, d}
  Slow = {a, b}
  Vpns = {t1, t2}
  MaxBoxes = 2
  None = None
INVARIANTS TunnelOwned
PROPERTIES TokenForItsServer AttemptEnds DeathReported
