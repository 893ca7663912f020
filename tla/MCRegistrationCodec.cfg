\* Balance, AccountId and the PGP fingerprint scaled to two bytes; one
\* additional field allowed, so a stored length of two exceeds the bound.
SPECIFICATION Spec
CONSTANTS
  BalanceBytes = 2
  AccountBytes = 2
  PgpBytes = 2
  MaxAdditionalFields = 1
  NoValue = NoValue
\* A codec call returns once; its result states are final.
CHECK_DEADLOCK FALSE
INVARIANTS
  TypeOK
  BackwardCompatible
