SPECIFICATION FairSpec
CONSTANTS
  Runs = {r1, r2}
  Sessions = {s1, s2}
  NoRun = NoRun
  NoSession = NoSession
  MaxPending = 1
  MaxSteps = 1
  MaxChildDepth = 1
  MaxDescendants = 1
  MaxActive = 1
  MaxChildren = 1
  Slices <- LiveSlices
  MaxRoots = 1
  MaxCrashes = 0
PROPERTIES
  CancelledSettle
  ShutdownCloses
  PromptsSettle
CHECK_DEADLOCK FALSE
