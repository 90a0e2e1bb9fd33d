\* A cap of three: one slot for queued roots, two reserved; one warm worker
\* that serves two runs, and one restart of the pool.
CONSTANTS
  w1 = w1  w2 = w2  w3 = w3  w4 = w4  r1 = r1  r2 = r2  c1 = c1
  NoJob = NoJob
  Workers <- FourSlots
  Roots <- TwoRoots
  Calls <- OneCall
  MaxWorkers = 3
  WarmSize = 1
  MaxUses = 2
  MaxRestarts = 1
SYMMETRY Symmetric
SPECIFICATION Spec
INVARIANTS TypeOK CapRespected WarmIsSpare EveryRunHasAWorker NoLostWakeup QueueKeepsReserve
PROPERTIES NoOvertaking
CHECK_DEADLOCK FALSE
