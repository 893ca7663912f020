\* Core run: publisher workflow, publish, subscribe, renew, unpublish, with
\* ServiceCount overflow checked (a 2-bit index fills up after 3 services).
SPECIFICATION Spec
CONSTANTS
  Accounts = {a1, a2}
  Root = Root
  ApproveOrigins = {Root}
  ForceOrigins = {Root}
  NoPeriod = NoPeriod
  BaseDeposit = 1
  DataDepositPerByte = 1
  MaximumNameLength = 1
  MaximumDescriptionLength = 0
  MaximumContractLength = 30
  MaxPublishing = 2
  ExistentialDeposit = 1
  InitialFree <- MCInitialFree
  Costs = {1}
  MaybePeriodic = {NoPeriod}
  IndexWidth = 2
  OverflowChecks = TRUE
  MaxBlock = 1
SYMMETRY MCSymmetry
INVARIANTS
  TypeOK
  ReservedMatchesBonds
  ServiceIndexFresh
  EventsReflectStorage
PROPERTIES
  PaidSubscription
  Refinement
