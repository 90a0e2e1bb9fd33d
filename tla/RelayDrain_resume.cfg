\* A poison event and the one behind it, a single attempt: what a resume does on
\* a socket that is closing.
CONSTANTS
  N = 2
  Budget = 1
  MaxFrames = 2
SPECIFICATION Spec
INVARIANT NeverDiscarded
