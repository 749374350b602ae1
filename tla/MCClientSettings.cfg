\* The settings: two services, two versions of a token, two settings; saves
\* fail, and the process is restarted, at any time.  The scan: two workers
\* and three names.
SPECIFICATION WindowSpec
CONSTANTS
  Names = {a, b}
  Tokens = {1, 2}
  Values = {0, 1}
  Default = 0
  MaxHandlers = 2
  MaxServices = 2
  Scans = {1}
  PerScan = 2
  NameCount = 3
  Fronts = {"page", "dialog"}
INVARIANTS ListsAgree SavedWhenClosed PendingCountsPings
PROPERTIES VerdictsAreSound ScanEnds
CHECK_DEADLOCK FALSE
