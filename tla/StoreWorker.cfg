SPECIFICATION StoreSpec
CONSTANTS
  write = write
  read = read
  after = after
  out = out
  Jobs = {write, read, after, out}
  Priority <- Priorities1
  Joins <- Joins1
  Repeated = {read}
  ControlSlots = 2
  OutputSlots = 1
  SideWaiters = 1
  BurstLimit = 2
  GroupLimit = 2
  MaxFaults = 1
  NoJob = NoJob
CHECK_DEADLOCK FALSE
PROPERTIES
  ImplementsAtomicStore
  ReadsSeeTheDurableState
  QueuedIsAnswered
