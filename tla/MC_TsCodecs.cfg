SPECIFICATION Spec
CONSTANTS
  Bytes <- MCBytes
  MaxBytes = 12
  Channels = {1, 2, 8}
  Depths = {16, 20, 24, 32}
  MaxSamples = 5
INVARIANTS NalUnitsFound PcmRoundTrip
CHECK_DEADLOCK FALSE
