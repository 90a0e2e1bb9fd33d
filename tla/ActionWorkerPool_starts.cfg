\* A cap of two, so queued roots share one slot: they start without a deadline.
CONSTANTS
  w1 = w1  w2 = w2  w3 = w3  w4 = w4  r1 = r1  r2 = r2  c1 = c1
  NoJob = NoJob
  Workers <- TwoSlots
  Roots <- TwoRoots
  Calls <- OneCall
  MaxWorkers = 2
  WarmSize = 1
  MaxUses = 2
  MaxRestarts = 0
SPECIFICATION FairSpec
PROPERTIES QueuedRootsStart
CHECK_DEADLOCK FALSE
