\* Checks spec 4.2 on renew_subscription (start_on is recomputed, so the
\* term always equals the period) against the code.
SPECIFICATION Spec
CONSTANTS
  Accounts = {a1, a2}
  Root = Root
  ApproveOrigins = {Root}
  ForceOrigins = {Root}
  NoPeriod = NoPeriod
  BaseDeposit = 1
  DataDepositPerByte = 1
  MaximumNameLength = 1
  MaximumDescriptionLength = 0
  MaximumContractLength = 30
  MaxPublishing = 2
  ExistentialDeposit = 1
  InitialFree <- MCInitialFreeRenew
  Costs = {0, 1}
  MaybePeriodic = {NoPeriod, 1}
  IndexWidth = 1
  OverflowChecks = TRUE
  MaxBlock = 3
SYMMETRY MCSymmetry
INVARIANTS
  TermMatchesPeriod
