\* ServiceCount in a build without overflow checks: service_id + 1 wraps
\* to 0 after the last index is handed out.
SPECIFICATION Spec
CONSTANTS
  Accounts = {a1, a2}
  Root = Root
  ApproveOrigins = {Root}
  ForceOrigins = {Root}
  NoPeriod = NoPeriod
  BaseDeposit = 1
  DataDepositPerByte = 1
  MaximumNameLength = 1
  MaximumDescriptionLength = 0
  MaximumContractLength = 30
  MaxPublishing = 2
  ExistentialDeposit = 1
  InitialFree <- MCInitialFree
  Costs = {1}
  MaybePeriodic = {NoPeriod}
  IndexWidth = 2
  OverflowChecks = FALSE
  MaxBlock = 1
SYMMETRY MCSymmetry
PROPERTIES
  ServiceCountMonotonic
