\* u64 scaled to 8 bits, u32::MAX to 15; WEIGHT_PER_GAS = 130 \div 40 = 3,
\* so gas above 85 saturates and gas above 15 exceeds the u32 fallback.
SPECIFICATION Spec
CONSTANTS
  WordBits = 8
  WeightPerSecond = 130
  GasPerSecond = 40
  NoValue = NoValue
\* A conversion returns once; its result states are final.
CHECK_DEADLOCK FALSE
INVARIANTS
  GasToWeightMonotone
  GrantedGasFitsWeight
  GasRoundTrip
