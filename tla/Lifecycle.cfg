SPECIFICATION Spec
CONSTANTS
  Runs = {r1, r2, r3}
  Sessions = {s1, s2}
  NoRun = NoRun
  NoSession = NoSession
  MaxPending = 1
  MaxSteps = 1
  MaxChildDepth = 1
  MaxDescendants = 1
  MaxActive = 1
  MaxChildren = 1
  Slices <- SafetySlices
  MaxRoots = 1
  MaxCrashes = 1
INVARIANTS
  ExecutorOwnsRun
  NoSignalLost
  ChildrenEndFirst
  ClosedIsQuiet
PROPERTIES
  ImplementsStore
CHECK_DEADLOCK FALSE
