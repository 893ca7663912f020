\* T::MaxPublishing = 2 as in the mock runtime; balances of 3 let one
\* approved publisher bond a third service.
SPECIFICATION Spec
CONSTANTS
  Accounts = {a1, a2}
  Root = Root
  ApproveOrigins = {Root}
  ForceOrigins = {Root}
  NoPeriod = NoPeriod
  BaseDeposit = 1
  DataDepositPerByte = 1
  MaximumNameLength = 1
  MaximumDescriptionLength = 0
  MaximumContractLength = 30
  MaxPublishing = 2
  ExistentialDeposit = 1
  InitialFree <- MCInitialFreeRenew
  Costs = {1}
  MaybePeriodic = {NoPeriod}
  IndexWidth = 2
  OverflowChecks = TRUE
  MaxBlock = 1
SYMMETRY MCSymmetry
INVARIANT PublishingBounded
