\* Three events: a poison one, the one behind it that could overtake it, and
\* one more to overtake that. Two attempts; room for stale frames in the queue.
CONSTANTS
  N = 3
  Budget = 2
  MaxFrames = 3
SPECIFICATION FairSpec
INVARIANTS TypeOK BoundedRetries
PROPERTIES DeliverySpec EveryEventSettles
