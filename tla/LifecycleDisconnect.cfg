SPECIFICATION FairSpec
CONSTANTS
  Runs = {r1, r2}
  Sessions = {s1}
  NoRun = NoRun
  NoSession = NoSession
  MaxPending = 2
  MaxSteps = 1
  MaxChildDepth = 0
  MaxDescendants = 1
  MaxActive = 1
  MaxChildren = 1
  Slices <- DisconnectSlices
  MaxRoots = 1
  MaxCrashes = 0
PROPERTIES
  PromptsSettle
CHECK_DEADLOCK FALSE
