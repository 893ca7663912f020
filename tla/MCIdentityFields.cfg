\* Bytes 0, 1, 0x80 and 0xFF: the low byte then covers no flag, one flag,
\* the top flag and all flags, and any other byte a bit outside them.
SPECIFICATION Spec
CONSTANTS
  WordBytes = 3
  SampleBytes = {0, 1, 128, 255}
  NoValue = NoValue
\* A codec call returns once; its result states are final.
CHECK_DEADLOCK FALSE
INVARIANTS
  TypeOK
  RoundTrip
  Canonical
