SPECIFICATION RestoreSpec
CONSTANTS
  Runs = {r1, r2, r3}
  Sessions = {s1, s2, s3}
  NoRun = NoRun
  NoSession = NoSession
  MaxPending = 2
  MaxSteps = 1
  MaxChildDepth = 2
  MaxDescendants = 2
  w1 = w1
  w2 = w2
  c1 = c1
  c2 = c2
  Workspaces = {w1, w2}
  Nested <- Subdirectory
  NoDir = NoDir
  Commands = {c1, c2}
  NoCommand = NoCommand
  Slices <- StoreSlices
SYMMETRY Symmetry
INVARIANTS
  StoreTypeOK
  SlotsConsistent
  QueueCountExact
  OneAtATime
  TreeCancelled
  NothingDangles
  RestoreIsAlone
  RewoundIsOver
  ForkedOnce
PROPERTIES
  AnswersArrive
  SettledForever
  CancellationWins
  SweepSparesSessions
CHECK_DEADLOCK FALSE
