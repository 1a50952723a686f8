SPECIFICATION Spec
CONSTANTS
  w1 = w1
  w2 = w2
  c1 = c1
  c2 = c2
  Workspaces = {w1}
  Clients = {c1, c2}
  ClientWs <- OneWorkspace
  NotifyIds = {n1, n2}
  Sizes = {1, 2}
  FeedCapacity = 2
  FeedBytes = 2
  PageLimit = 2
  JournalRows = 3
  JournalBytes = 4
  GroupLimit = 2
  MaxJobEvents = 2
  MaxEvents = 3
  NoRing = NoRing
  NoNotify = NoNotify
SYMMETRY Symmetry
INVARIANTS
  PublishedIsCommitted
  AckedIsDurable
  ReceiverHasItsRing
PROPERTIES
  StreamHasNoGaps
  ExpiredOnlyIfPruned
