SPECIFICATION RestoreSpec
CONSTANTS
  Runs = {r1, r2, r3}
  Sessions = {s1, s2}
  NoRun = NoRun
  NoSession = NoSession
  MaxPending = 2
  MaxSteps = 0
  MaxChildDepth = 1
  MaxDescendants = 1
  w1 = w1
  w2 = w2
  c1 = c1
  c2 = c2
  Workspaces = {w1, w2}
  Nested <- Subdirectory
  NoDir = NoDir
  Commands = {c1, c2}
  NoCommand = NoCommand
  Slices <- RecoverySlices
SYMMETRY Symmetry
PROPERTIES
  QueuedWorkSurvives
CHECK_DEADLOCK FALSE
