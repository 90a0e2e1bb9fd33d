\* Any of three calls and the root may be gated: work before, between and after
\* two gates. Two approvals, each decided and retried once.
CONSTANTS
  K = 3
  MaxApprovals = 2
  MaxGrants = 2
SPECIFICATION Spec
INVARIANTS TypeOK OneRunPerGrant NothingRepeatedBeforeGate ApprovedGateRuns RunningRowHasRunner
