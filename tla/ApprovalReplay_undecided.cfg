\* Two gated calls: the decision on one of them, and the other.
CONSTANTS
  K = 2
  MaxApprovals = 2
  MaxGrants = 1
SPECIFICATION Spec
INVARIANT DecidedBeforeRun
