SPECIFICATION FairSpec
CONSTANTS
  w1 = w1
  w2 = w2
  c1 = c1
  c2 = c2
  Workspaces = {w1}
  Clients = {c1}
  ClientWs <- OneWorkspace
  NotifyIds = {n1}
  Sizes = {1}
  FeedCapacity = 1
  FeedBytes = 2
  PageLimit = 1
  JournalRows = 2
  JournalBytes = 4
  GroupLimit = 2
  MaxJobEvents = 2
  MaxEvents = 3
  NoRing = NoRing
  NoNotify = NoNotify
PROPERTIES
  EveryEventArrives
