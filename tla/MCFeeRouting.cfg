\* The pot is not endowed at genesis (chain_spec endows only the listed
\* accounts); amounts below, at and above the existential deposit.
SPECIFICATION Spec
CONSTANTS
  ExistentialDeposit = 2
  Endowment = 5
  PotAccount = PotAccount
  Amounts = {0, 1, 2}
  MaxCalls = 4
  NoEvent = NoEvent
\* Fee payments are bounded; the model stops after MaxCalls of them.
CHECK_DEADLOCK FALSE
INVARIANTS
  TypeOK
  GenesisSound
PROPERTY ChargeReachesPot
