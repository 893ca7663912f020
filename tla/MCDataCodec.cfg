\* Data codec: every Data value with a short or uniform payload through
\* encode and decode, and every leading byte through decode.
\* A codec call returns and stops, so final states are not deadlocks.
SPECIFICATION Spec
CONSTANTS
  PayloadBytes = {0, 255}
  ShortRawMax = 2
  NoValue = NoValue
CHECK_DEADLOCK FALSE
INVARIANTS
  TypeOK
  RoundTrip
  Canonical
  ManualDataTypeInfo
