\* The test runtime of tests.rs: accounts 0 .. 4 with new_test_ext's
\* balances, root as the approve and force origin, and the mock's
\* parameter_types.  A u32 ServiceIndex is scaled to 4 bits, which the
\* tests never approach.
SPECIFICATION ReplaySpec
CONSTANTS
  Accounts = {0, 1, 2, 3, 4}
  Root = Root
  ApproveOrigins = {Root}
  ForceOrigins = {Root}
  NoPeriod = NoPeriod
  BaseDeposit = 10
  DataDepositPerByte = 1
  MaximumNameLength = 10
  MaximumDescriptionLength = 10
  MaximumContractLength = 30
  MaxPublishing = 2
  ExistentialDeposit = 1
  InitialFree <- MockInitialFree
  Costs = {10, 11, 22}
  MaybePeriodic = {NoPeriod}
  IndexWidth = 4
  OverflowChecks = TRUE
  MaxBlock = 1
INVARIANTS
  TestsPass
CHECK_DEADLOCK FALSE
