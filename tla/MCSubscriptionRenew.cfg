\* Renewal run: one service index, services of period 0 (publish_service
\* accepts Some(0)), period 1 and no period, zero and non-zero costs, and
\* blocks advancing so renewals happen later than the subscription they
\* extend.
SPECIFICATION Spec
CONSTANTS
  Accounts = {a1, a2}
  Root = Root
  ApproveOrigins = {Root}
  ForceOrigins = {Root}
  NoPeriod = NoPeriod
  BaseDeposit = 1
  DataDepositPerByte = 1
  MaximumNameLength = 1
  MaximumDescriptionLength = 0
  MaximumContractLength = 30
  MaxPublishing = 2
  ExistentialDeposit = 1
  InitialFree <- MCInitialFreeRenew
  Costs = {0, 1}
  MaybePeriodic = {NoPeriod, 0, 1}
  IndexWidth = 1
  OverflowChecks = TRUE
  MaxBlock = 3
SYMMETRY MCSymmetry
PROPERTIES
  NoChargeWhileActive
  UnpublishedFreezesAccess
