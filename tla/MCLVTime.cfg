SPECIFICATION Spec
CONSTANTS
  Radix = 4
  Bytes = 3
  B = 6
  M = 5
  P = 7
  Epoch = 4
  Nanos = 25
  Minute = 4
  ChronoMax = 10
INVARIANTS FromEpochIsNear ToEpochIsMonotone ByteOrdersAgree ChronoIsNear ChronoRoundTrip
